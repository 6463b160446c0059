--------------------------- MODULE WorkspacesProofs ---------------------------
(***************************************************************************)
(* Proofs about Workspaces, for any number of users, workspaces and        *)
(* requests in flight, and any number of starts.                           *)
(***************************************************************************)
EXTENDS Workspaces, WellFoundedInduction, TLAPS

-----------------------------------------------------------------------------
(* The inductive invariant *)

(* what a request has found out and what still holds of it *)
RequestInv(r) ==
    LET q == req[r] IN
    /\ q.pc = "creating" => q.user \in Users
    /\ q.pc \in {"creating", "accepting"} => q.at < now
    /\ q.pc = "accepting" =>
          /\ q.user \in Users /\ q.ws \in Workspaces
          /\ workspace[q.ws] # NoRow
          /\ invitation[q.ws][q.user] # NoRow
          /\ q.role = invitation[q.ws][q.user].role
    /\ q.pc \in {"inviting", "checked"} => q.ws \in Workspaces /\ workspace[q.ws] # NoRow
    /\ q.pc = "checked" => q.user \in Users /\ q.offer # NoRow /\ q.offer.newcomer
    /\ \A u \in Users :
          q.staged[u] # NoRow => q.pc \in {"inviting", "checked"} /\ q.staged[u].newcomer
    /\ q.pc = "resolved" => q.user \in Users /\ \E w \in Workspaces : Member(w, q.user)
    /\ q.pc \in {"targeted", "permitted", "notifying", "noticing"} =>
          q.user \in Users /\ q.ws \in Workspaces /\ Member(q.ws, q.user)

(* FOR UPDATE and the upsert: the row of an invitation has one holder *)
OneHolder ==
    \A w \in Workspaces, u \in Users, r, o \in Requests :
        HoldsInvitation(r, w, u) /\ HoldsInvitation(o, w, u) => r = o

(* a workspace that is not there has no member and nobody is invited to it *)
RowsOfWorkspaces ==
    \A w \in Workspaces, u \in Users :
        /\ workspace[w] = NoRow => ~ Member(w, u) /\ invitation[w][u] = NoRow
        /\ Member(w, u) => member[w][u].at < now

IInv ==
    /\ TypeOK
    /\ \A r \in Requests : RequestInv(r)
    /\ OneHolder
    /\ RowsOfWorkspaces
    /\ MembersAreNotInvited
    /\ OnboardingCanBeCompleted

-----------------------------------------------------------------------------
(* The latest membership: among bounded numbers there is a greatest *)

LEMMA Least ==
    ASSUME NEW T \in SUBSET Nat, T # {}
    PROVE  \E x \in T : \A y \in T : x <= y
<1>. DEFINE Below == {ss \in Nat \X Nat : ss[1] < ss[2]}
<1>1. IsWellFoundedOn(Below, Nat)
  BY NatLessThanWellFounded, Zenon DEF OpToRel
<1>2. \A x, y \in Nat : <<x, y>> \notin Below => y <= x
  OBVIOUS
<1>. HIDE DEF Below
<1>3. \E x \in T : \A y \in T : <<y, x>> \notin Below
  BY <1>1, WFMin
<1>. QED
  BY <1>2, <1>3

LEMMA LatestIsOne ==
    ASSUME TypeOK, RowsOfWorkspaces, NEW u \in Users,
           NEW set \in SUBSET JoinedBy(u), set # {}
    PROVE  Latest(set, u) \in set
<1>. DEFINE Age(w) == now - member[w][u].at
            Ages == {Age(w) : w \in set}
<1>1. \A w \in set : member[w][u].at \in Nat /\ Age(w) \in Nat
  BY DEF JoinedBy, TypeOK, RowsOfWorkspaces, Member, Membership
<1>2. PICK x \in Ages : \A y \in Ages : x <= y
  <2>1. Ages \in SUBSET Nat /\ Ages # {}
    BY <1>1
  <2>. HIDE DEF Ages
  <2>. QED
    BY <2>1, Least
<1>3. PICK w \in set : x = Age(w)
  BY <1>2
<1>4. \A v \in set : Age(w) <= Age(v)
  BY <1>2, <1>3
<1>5. \A v \in set : member[v][u].at <= member[w][u].at
  BY <1>1, <1>3, <1>4 DEF TypeOK
<1>. QED
  BY <1>3, <1>5 DEF Latest

-----------------------------------------------------------------------------
(* Steps that change nothing but a request *)

LEMMA IdleIsQuiet ==
    /\ Idle \in Request
    /\ Idle.pc = "idle"
    /\ \A u \in Users : Idle.staged[u] = NoRow
  BY DEF Idle, Request

LEMMA Constructors ==
    /\ \A x \in Workspace \cup Membership \cup Invitation \cup Offer \cup Write \cup Roles : x # NoRow
  BY NoRowAssumption

LEMMA OnlyRequest ==
    ASSUME IInv, NEW r \in Requests, NEW state \in Request, Goto(r, state),
           UNCHANGED <<status, workspace, member, invitation>>,
           now' \in Nat, now <= now',
           lastWrite' \in Write \cup {NoRow},
           RequestInv(r)',
           \A w \in Workspaces, u \in Users, o \in Requests \ {r} :
               HoldsInvitation(r, w, u)' => ~ HoldsInvitation(o, w, u)
    PROVE  IInv'
<1>. USE DEF IInv
<1>1. TypeOK'
  BY DEF TypeOK, Goto
<1>2. \A o \in Requests \ {r} : req'[o] = req[o]
  BY DEF TypeOK, Goto
<1>3. ASSUME NEW o \in Requests PROVE RequestInv(o)'
  <2>1. CASE o = r
    BY <2>1
  <2>2. CASE o # r
    <3>1. req'[o] = req[o] /\ req[o] \in Request /\ req[o].at \in Nat /\ now \in Nat /\ RequestInv(o)
      BY <1>2, <2>2 DEF TypeOK, Request
    <3>2. \A w, u : Member(w, u)' <=> Member(w, u)
      BY DEF Member
    <3>. HIDE DEF IInv
    <3>. QED
      BY <3>1, <3>2 DEF RequestInv
  <2>. QED
    BY <2>1, <2>2
<1>4. OneHolder'
  <2>1. \A w \in Workspaces, u \in Users, o \in Requests \ {r} :
           HoldsInvitation(o, w, u)' <=> HoldsInvitation(o, w, u)
    BY <1>2 DEF HoldsInvitation
  <2>. QED
    BY <2>1 DEF OneHolder
<1>5. RowsOfWorkspaces'
  BY DEF RowsOfWorkspaces, Member, TypeOK, Membership
<1>6. MembersAreNotInvited' /\ OnboardingCanBeCompleted'
  BY DEF MembersAreNotInvited, OnboardingCanBeCompleted, Member
<1>. QED
  BY <1>1, <1>3, <1>4, <1>5, <1>6

(* a request that holds no invitation afterwards *)
LEMMA HandsFree ==
    ASSUME IInv, NEW r \in Requests, NEW state \in Request, Goto(r, state),
           UNCHANGED <<status, workspace, member, invitation>>,
           now' \in Nat, now <= now',
           lastWrite' \in Write \cup {NoRow},
           RequestInv(r)',
           state.pc # "accepting", \A u \in Users : state.staged[u] = NoRow
    PROVE  IInv'
<1>1. req'[r] = state
  BY DEF Goto, IInv, TypeOK
<1>2. \A w \in Workspaces, u \in Users : ~ HoldsInvitation(r, w, u)'
  BY <1>1 DEF HoldsInvitation
<1>. QED
  BY <1>2, OnlyRequest

LEMMA Responds ==
    ASSUME IInv, NEW r \in Requests, Respond(r),
           UNCHANGED <<status, workspace, member, invitation, now>>,
           lastWrite' \in Write \cup {NoRow}
    PROVE  IInv'
<1>1. req'[r] = Idle
  BY DEF Respond, Goto, IInv, TypeOK
<1>2. RequestInv(r)'
  BY <1>1, IdleIsQuiet DEF RequestInv
<1>. QED
  BY <1>2, HandsFree, IdleIsQuiet DEF Respond, IInv, TypeOK

LEMMA AbortPreserves ==
    ASSUME IInv, NEW r \in Requests, Abort(r)
    PROVE  IInv'
<1>1. lastWrite' \in Write \cup {NoRow}
  BY DEF Abort, IInv, TypeOK
<1>. QED
  BY <1>1, Responds DEF Abort

LEMMA CreateBeginPreserves ==
    ASSUME IInv, NEW r \in Requests, NEW u \in Users, CreateBegin(r, u)
    PROVE  IInv'
<1>. DEFINE state == [Idle EXCEPT !.pc = "creating", !.user = u, !.at = now]
<1>1. /\ state \in Request /\ state.pc = "creating" /\ state.user = u /\ state.at = now
      /\ \A v \in Users : state.staged[v] = NoRow
  BY DEF Idle, Request, IInv, TypeOK
<1>2. Goto(r, state) /\ now' = now + 1 /\ now \in Nat
  BY DEF CreateBegin, IInv, TypeOK
<1>3. req'[r] = state
  BY <1>2 DEF Goto, IInv, TypeOK
<1>4. lastWrite' \in Write \cup {NoRow}
  BY DEF CreateBegin, IInv, TypeOK
<1>. HIDE DEF state
<1>5. RequestInv(r)'
  BY <1>1, <1>2, <1>3 DEF RequestInv
<1>. QED
  BY <1>1, <1>2, <1>4, <1>5, HandsFree DEF CreateBegin

LEMMA AcceptBeginPreserves ==
    ASSUME IInv, NEW r \in Requests, NEW w \in Workspaces, NEW u \in Users, AcceptBegin(r, w, u)
    PROVE  IInv'
<1>. DEFINE state == [Idle EXCEPT !.pc = "accepting", !.user = u, !.ws = w, !.at = now,
                                  !.role = invitation[w][u].role]
<1>1. invitation[w][u] \in Invitation
  BY DEF AcceptBegin, IInv, TypeOK
<1>2. /\ state \in Request /\ state.pc = "accepting" /\ state.user = u /\ state.ws = w
      /\ state.at = now /\ state.role = invitation[w][u].role
      /\ \A v \in Users : state.staged[v] = NoRow
  BY <1>1 DEF Idle, Request, Invitation, IInv, TypeOK
<1>3. Goto(r, state) /\ now' = now + 1 /\ now \in Nat
  BY DEF AcceptBegin, IInv, TypeOK
<1>4. req'[r] = state
  BY <1>3 DEF Goto, IInv, TypeOK
<1>5. lastWrite' \in Write \cup {NoRow}
  BY DEF AcceptBegin, IInv, TypeOK
<1>. HIDE DEF state
<1>6. RequestInv(r)'
  BY <1>1, <1>2, <1>3, <1>4 DEF RequestInv, AcceptBegin, IInv, RowsOfWorkspaces
<1>7. \A x \in Workspaces, v \in Users : HoldsInvitation(r, x, v)' => x = w /\ v = u
  BY <1>2, <1>4 DEF HoldsInvitation
<1>8. \A o \in Requests : ~ HoldsInvitation(o, w, u)
  BY DEF AcceptBegin, Locked
<1>. QED
  BY <1>2, <1>3, <1>5, <1>6, <1>7, <1>8, OnlyRequest DEF AcceptBegin

LEMMA PermitPreserves ==
    ASSUME IInv, NEW r \in Requests, NEW w \in Workspaces, workspace[w] # NoRow,
           Goto(r, [Idle EXCEPT !.pc = "inviting", !.ws = w]),
           UNCHANGED <<status, workspace, member, invitation, now, lastWrite>>
    PROVE  IInv'
<1>. DEFINE state == [Idle EXCEPT !.pc = "inviting", !.ws = w]
<1>1. /\ state \in Request /\ state.pc = "inviting" /\ state.ws = w
      /\ \A v \in Users : state.staged[v] = NoRow
  BY DEF Idle, Request
<1>2. Goto(r, state) /\ req'[r] = state
  BY DEF Goto, IInv, TypeOK
<1>3. lastWrite' \in Write \cup {NoRow} /\ now' = now /\ now \in Nat
  BY DEF IInv, TypeOK
<1>. HIDE DEF state
<1>4. RequestInv(r)'
  BY <1>1, <1>2 DEF RequestInv
<1>. QED
  BY <1>1, <1>2, <1>3, <1>4, HandsFree

LEMMA OnboardingPermitPreserves ==
    ASSUME IInv, NEW r \in Requests, NEW w \in Workspaces, NEW u \in Users, OnboardingPermit(r, w, u)
    PROVE  IInv'
  BY PermitPreserves DEF OnboardingPermit

LEMMA AdminPermitPreserves ==
    ASSUME IInv, NEW r \in Requests, AdminPermit(r)
    PROVE  IInv'
<1>1. req[r].ws \in Workspaces /\ workspace[req[r].ws] # NoRow
  BY DEF AdminPermit, IInv, RequestInv, RowsOfWorkspaces
<1>. QED
  BY <1>1, PermitPreserves DEF AdminPermit

LEMMA InviteCheckPreserves ==
    ASSUME IInv, NEW r \in Requests, NEW u \in Users, NEW role \in Roles, InviteCheck(r, u, role)
    PROVE  IInv'
<1>. DEFINE offer == [role |-> role, newcomer |-> ~ Member(req[r].ws, u)]
            state == [req[r] EXCEPT !.pc = "checked", !.user = u, !.offer = offer]
<1>1. offer \in Offer /\ offer.newcomer
  BY DEF Offer, InviteCheck, Invitable, Member
<1>2. req[r] \in Request /\ req[r].pc = "inviting" /\ RequestInv(r)
  BY DEF InviteCheck, IInv, TypeOK
<1>3. Goto(r, state)
  BY DEF InviteCheck
<1>4. offer # NoRow
  BY <1>1, Constructors
<1>. HIDE DEF offer
<1>5. /\ state \in Request /\ state.pc = "checked" /\ state.user = u /\ state.offer = offer
      /\ state.ws = req[r].ws /\ state.staged = req[r].staged
  BY <1>1, <1>2 DEF Request
<1>6. req'[r] = state
  BY <1>3 DEF Goto, IInv, TypeOK
<1>7. lastWrite' \in Write \cup {NoRow} /\ now' = now /\ now \in Nat
  BY DEF InviteCheck, IInv, TypeOK
<1>. HIDE DEF state
<1>8. RequestInv(r)'
  BY <1>1, <1>2, <1>4, <1>5, <1>6 DEF RequestInv, InviteCheck
<1>9. \A w \in Workspaces, v \in Users : HoldsInvitation(r, w, v)' => HoldsInvitation(r, w, v)
  BY <1>5, <1>6 DEF HoldsInvitation
<1>10. \A w \in Workspaces, v \in Users, o \in Requests \ {r} :
          HoldsInvitation(r, w, v)' => ~ HoldsInvitation(o, w, v)
  BY <1>9 DEF IInv, OneHolder
<1>. QED
  BY <1>3, <1>5, <1>7, <1>8, <1>10, OnlyRequest DEF InviteCheck

LEMMA InviteUpsertPreserves ==
    ASSUME IInv, NEW r \in Requests, InviteUpsert(r)
    PROVE  IInv'
<1>. DEFINE state == [req[r] EXCEPT !.pc = "inviting", !.user = NoUser, !.offer = NoRow,
                                    !.staged[req[r].user] = req[r].offer]
<1>1. /\ req[r] \in Request /\ req[r].pc = "checked" /\ RequestInv(r)
      /\ req[r].user \in Users /\ req[r].offer \in Offer /\ req[r].offer.newcomer
      /\ req[r].ws \in Workspaces /\ workspace[req[r].ws] # NoRow
  BY DEF InviteUpsert, IInv, TypeOK, RequestInv, Request
<1>2. Goto(r, state)
  BY DEF InviteUpsert
<1>3. /\ state \in Request /\ state.pc = "inviting" /\ state.ws = req[r].ws
      /\ state.staged = [req[r].staged EXCEPT ![req[r].user] = req[r].offer]
  BY <1>1 DEF Request
<1>4. \A v \in Users : state.staged[v] = IF v = req[r].user THEN req[r].offer ELSE req[r].staged[v]
  BY <1>1, <1>3 DEF Request
<1>5. req'[r] = state
  BY <1>2 DEF Goto, IInv, TypeOK
<1>6. lastWrite' \in Write \cup {NoRow} /\ now' = now /\ now \in Nat
  BY DEF InviteUpsert, IInv, TypeOK
<1>. HIDE DEF state
<1>7. RequestInv(r)'
  BY <1>1, <1>3, <1>4, <1>5 DEF RequestInv, InviteUpsert
<1>8. \A w \in Workspaces, v \in Users :
         HoldsInvitation(r, w, v)' =>
             HoldsInvitation(r, w, v) \/ (w = req[r].ws /\ v = req[r].user)
  BY <1>3, <1>4, <1>5 DEF HoldsInvitation
<1>9. \A o \in Requests : ~ HoldsInvitation(o, req[r].ws, req[r].user)
  BY DEF InviteUpsert, Locked
<1>10. \A w \in Workspaces, v \in Users, o \in Requests \ {r} :
          HoldsInvitation(r, w, v)' => ~ HoldsInvitation(o, w, v)
  BY <1>8, <1>9 DEF IInv, OneHolder
<1>. QED
  BY <1>2, <1>3, <1>6, <1>7, <1>10, OnlyRequest DEF InviteUpsert

LEMMA ResolvePrincipalPreserves ==
    ASSUME IInv, NEW r \in Requests, NEW u \in Users, ResolvePrincipal(r, u)
    PROVE  IInv'
<1>. DEFINE role == member[ActingIn(u)][u].role
            state == [Idle EXCEPT !.pc = "resolved", !.user = u, !.role = role]
<1>1. Onboarded(u) \in SUBSET JoinedBy(u) /\ Onboarded(u) # {}
  BY DEF Onboarded, ResolvePrincipal
<1>2. ActingIn(u) \in JoinedBy(u)
  BY <1>1, LatestIsOne DEF ActingIn, IInv
<1>3. role \in Roles
  BY <1>2 DEF JoinedBy, Member, IInv, TypeOK, Membership
<1>. HIDE DEF role
<1>4. /\ state \in Request /\ state.pc = "resolved" /\ state.user = u
      /\ \A v \in Users : state.staged[v] = NoRow
  BY <1>3 DEF Idle, Request
<1>5. Goto(r, state) /\ req'[r] = state
  BY DEF ResolvePrincipal, role, Goto, IInv, TypeOK
<1>6. lastWrite' \in Write \cup {NoRow} /\ now' = now /\ now \in Nat
  BY DEF ResolvePrincipal, IInv, TypeOK
<1>7. \E w \in Workspaces : Member(w, u)'
  BY <1>1 DEF JoinedBy, Member, ResolvePrincipal
<1>. HIDE DEF state
<1>8. RequestInv(r)'
  BY <1>4, <1>5, <1>7 DEF RequestInv
<1>. QED
  BY <1>4, <1>5, <1>6, <1>8, HandsFree DEF ResolvePrincipal

(* the steps of a settings handler after the principal's *)
LEMMA SettingsPreserve ==
    ASSUME IInv, NEW r \in Requests, NEW state \in Request, Goto(r, state),
           UNCHANGED <<status, workspace, member, invitation, now>>,
           lastWrite' \in Write \cup {NoRow},
           req[r].pc \in {"resolved", "targeted", "permitted", "notifying"},
           state.pc \in {"targeted", "permitted", "notifying", "noticing"},
           state.staged = req[r].staged,
           state.user \in Users, state.ws \in Workspaces, Member(state.ws, state.user)
    PROVE  IInv'
<1>1. req'[r] = state
  BY DEF Goto, IInv, TypeOK
<1>2. \A u \in Users : state.staged[u] = NoRow
  BY DEF IInv, RequestInv
<1>3. RequestInv(r)'
  BY <1>1, <1>2 DEF RequestInv, Member
<1>. QED
  BY <1>2, <1>3, HandsFree DEF IInv, TypeOK

LEMMA ReadCurrentPreserves ==
    ASSUME IInv, NEW r \in Requests, ReadCurrent(r)
    PROVE  IInv'
<1>. DEFINE state == [req[r] EXCEPT !.pc = "targeted", !.ws = Current(req[r].user)]
<1>1. /\ req[r] \in Request /\ req[r].pc = "resolved"
      /\ req[r].user \in Users /\ JoinedBy(req[r].user) # {}
  BY DEF ReadCurrent, IInv, TypeOK, RequestInv, JoinedBy
<1>2. Current(req[r].user) \in JoinedBy(req[r].user)
  BY <1>1, LatestIsOne DEF Current, IInv
<1>3. Current(req[r].user) \in Workspaces /\ Member(Current(req[r].user), req[r].user)
  BY <1>2 DEF JoinedBy
<1>4. /\ state \in Request /\ state.pc = "targeted" /\ state.user = req[r].user
      /\ state.ws = Current(req[r].user) /\ state.staged = req[r].staged
  BY <1>1, <1>3 DEF Request
<1>5. Goto(r, state)
  BY DEF ReadCurrent
<1>6. lastWrite' \in Write \cup {NoRow}
  BY DEF ReadCurrent, IInv, TypeOK
<1>. HIDE DEF state
<1>. QED
  BY <1>1, <1>3, <1>4, <1>5, <1>6, SettingsPreserve DEF ReadCurrent

(* the caller is a member of the workspace that the handler acts on *)
LEMMA TargetIsOwn ==
    ASSUME IInv, NEW r \in Requests,
           req[r].pc \in {"targeted", "permitted", "notifying", "noticing"}
    PROVE  /\ req[r] \in Request /\ req[r].user \in Users /\ req[r].ws \in Workspaces
           /\ Member(req[r].ws, req[r].user)
           /\ member[req[r].ws][req[r].user] \in Membership
  BY DEF IInv, TypeOK, RequestInv, Member

LEMMA WriteIsWrite ==
    ASSUME IInv, NEW r \in Requests, NEW what \in {"settings", "policy"}, Wrote(what, req[r]),
           req[r].pc \in {"targeted", "permitted", "notifying", "noticing"}
    PROVE  lastWrite' \in Write
<1>1. member[req[r].ws][req[r].user].role \in Roles
  BY TargetIsOwn DEF Membership
<1>2. (what = "settings" /\ member[req[r].ws][req[r].user].at # req[r].at) \in BOOLEAN
  OBVIOUS
<1>. QED
  BY <1>1, <1>2 DEF Wrote, Write

LEMMA WritePolicyPreserves ==
    ASSUME IInv, NEW r \in Requests, WritePolicy(r)
    PROVE  IInv'
  BY WriteIsWrite, Responds DEF WritePolicy

LEMMA PermitPreservesRequests ==
    ASSUME IInv, NEW r \in Requests, NEW pc \in {"permitted", "noticing"}, Permit(r, pc),
           req[r].pc \in {"targeted", "notifying"}
    PROVE  IInv'
<1>. DEFINE joined == member[req[r].ws][req[r].user].at
            state == [req[r] EXCEPT !.pc = pc, !.at = joined]
<1>1. /\ req[r] \in Request /\ req[r].user \in Users
      /\ req[r].ws \in Workspaces /\ Member(req[r].ws, req[r].user) /\ joined \in Nat
  BY TargetIsOwn DEF Membership
<1>2. Goto(r, state)
  BY DEF Permit
<1>. HIDE DEF joined
<1>3. /\ state \in Request /\ state.pc = pc /\ state.user = req[r].user
      /\ state.ws = req[r].ws /\ state.staged = req[r].staged
  BY <1>1 DEF Request
<1>4. lastWrite' \in Write \cup {NoRow}
  BY DEF Permit, IInv, TypeOK
<1>. HIDE DEF state
<1>. QED
  BY <1>1, <1>2, <1>3, <1>4, SettingsPreserve DEF Permit

LEMMA SettingsPermitPreserves ==
    ASSUME IInv, NEW r \in Requests, SettingsPermit(r) \/ NotificationsPermit(r)
    PROVE  IInv'
  BY PermitPreservesRequests DEF SettingsPermit, NotificationsPermit

LEMMA SettingsWritePreserves ==
    ASSUME IInv, NEW r \in Requests, SettingsWrite(r)
    PROVE  IInv'
<1>. DEFINE state == [req[r] EXCEPT !.pc = "notifying"]
<1>1. /\ req[r] \in Request /\ req[r].pc = "permitted" /\ req[r].user \in Users
      /\ req[r].ws \in Workspaces /\ Member(req[r].ws, req[r].user)
  BY TargetIsOwn DEF SettingsWrite
<1>2. lastWrite' \in Write \cup {NoRow}
  BY <1>1, WriteIsWrite DEF SettingsWrite
<1>3. CASE Respond(r)
  BY <1>2, <1>3, Responds DEF SettingsWrite
<1>4. CASE Goto(r, state)
  <2>1. /\ state \in Request /\ state.pc = "notifying" /\ state.user = req[r].user
        /\ state.ws = req[r].ws /\ state.staged = req[r].staged
    BY <1>1 DEF Request
  <2>. HIDE DEF state
  <2>. QED
    BY <1>1, <1>2, <1>4, <2>1, SettingsPreserve DEF SettingsWrite
<1>. QED
  BY <1>3, <1>4 DEF SettingsWrite

LEMMA NotificationsWritePreserves ==
    ASSUME IInv, NEW r \in Requests, NotificationsWrite(r)
    PROVE  IInv'
  BY WriteIsWrite, Responds DEF NotificationsWrite

-----------------------------------------------------------------------------
(* Steps that change the tables *)

LEMMA CreateCommitPreserves ==
    ASSUME IInv, NEW r \in Requests, NEW w \in Workspaces, NEW role \in Roles,
           CreateCommit(r, w, role)
    PROVE  IInv'
<1>. DEFINE u == req[r].user
            row == [role |-> role, at |-> req[r].at]
<1>1. /\ req[r] \in Request /\ req[r].pc = "creating" /\ u \in Users /\ workspace[w] = NoRow
      /\ req[r].at \in Nat /\ req[r].at < now
  BY DEF CreateCommit, IInv, TypeOK, RequestInv, Request
<1>2. row \in Membership /\ row.at = req[r].at /\ row # NoRow
  <2>1. row \in Membership
    BY <1>1 DEF Membership
  <2>. QED
    BY <2>1, Constructors
<1>3. \A v \in Users : member[w][v] = NoRow /\ invitation[w][v] = NoRow
  BY <1>1 DEF IInv, RowsOfWorkspaces, Member
<1>4. /\ member' = [member EXCEPT ![w][u] = row]
      /\ workspace' = [workspace EXCEPT ![w] = [creator |-> u, complete |-> FALSE]]
      /\ status' = [status EXCEPT ![u] = "team_invite"]
      /\ req' = [req EXCEPT ![r] = Idle]
      /\ UNCHANGED <<invitation, now, lastWrite>>
  BY DEF CreateCommit, Set, Respond, Goto
<1>. HIDE DEF u, row
<1>5. workspace'[w] # NoRow /\ workspace'[w] \in Workspace /\ workspace'[w].creator = u /\ ~ workspace'[w].complete
  <2>1. [creator |-> u, complete |-> FALSE] \in Workspace
    BY <1>1 DEF Workspace
  <2>. QED
    BY <1>4, <2>1, Constructors DEF IInv, TypeOK
<1>6. TypeOK'
  BY <1>1, <1>2, <1>4, <1>5, IdleIsQuiet DEF IInv, TypeOK
<1>7. \A x \in Workspaces \ {w} : member'[x] = member[x] /\ workspace'[x] = workspace[x]
  BY <1>4 DEF IInv, TypeOK
<1>8. \A v \in Users : member'[w][v] = IF v = u THEN row ELSE NoRow
  BY <1>3, <1>4 DEF IInv, TypeOK
<1>9. \A x \in Workspaces, v \in Users : Member(x, v) => Member(x, v)'
  BY <1>3, <1>7 DEF Member
<1>10. ASSUME NEW o \in Requests PROVE RequestInv(o)'
  <2>1. CASE o = r
    <3>1. req'[o] = Idle
      BY <1>4, <2>1 DEF IInv, TypeOK
    <3>. QED
      BY <3>1, IdleIsQuiet DEF RequestInv
  <2>2. CASE o # r
    <3>1. req'[o] = req[o] /\ RequestInv(o) /\ req[o] \in Request
      BY <1>4, <2>2 DEF IInv, TypeOK
    <3>2. \A x \in Workspaces : workspace[x] # NoRow => workspace'[x] # NoRow
      BY <1>5, <1>7
    <3>. QED
      BY <1>4, <1>9, <3>1, <3>2 DEF RequestInv
  <2>. QED
    BY <2>1, <2>2
<1>11. OneHolder'
  <2>1. \A x \in Workspaces, v \in Users, o \in Requests :
           HoldsInvitation(o, x, v)' => HoldsInvitation(o, x, v)
    BY <1>4, IdleIsQuiet DEF HoldsInvitation, IInv, TypeOK
  <2>. QED
    BY <2>1 DEF IInv, OneHolder
<1>12. RowsOfWorkspaces'
  <2>. SUFFICES ASSUME NEW x \in Workspaces, NEW v \in Users
                PROVE  /\ workspace'[x] = NoRow => member'[x][v] = NoRow /\ invitation'[x][v] = NoRow
                       /\ member'[x][v] # NoRow => member'[x][v].at < now'
    BY DEF RowsOfWorkspaces, Member
  <2>1. CASE x = w
    BY <1>1, <1>2, <1>4, <1>5, <1>8, <2>1
  <2>2. CASE x # w
    BY <1>4, <1>7, <2>2 DEF IInv, RowsOfWorkspaces, Member
  <2>. QED
    BY <2>1, <2>2
<1>13. MembersAreNotInvited'
  BY <1>3, <1>4, <1>7 DEF IInv, MembersAreNotInvited, Member
<1>14. OnboardingCanBeCompleted'
  <2>. SUFFICES ASSUME NEW v \in Users, status'[v] = "team_invite"
                PROVE  \E x \in Workspaces :
                           /\ workspace'[x] # NoRow /\ workspace'[x].creator = v
                           /\ ~ workspace'[x].complete /\ member'[x][v] # NoRow
    BY DEF OnboardingCanBeCompleted, Member
  <2>1. CASE v = u
    BY <1>2, <1>5, <1>8, <2>1
  <2>2. CASE v # u
    <3>1. status[v] = "team_invite"
      BY <1>4, <2>2 DEF IInv, TypeOK
    <3>2. PICK x \in Workspaces : /\ workspace[x] # NoRow /\ workspace[x].creator = v
                                  /\ ~ workspace[x].complete /\ member[x][v] # NoRow
      BY <3>1 DEF IInv, OnboardingCanBeCompleted, Member
    <3>. QED
      BY <1>1, <1>7, <3>2
  <2>. QED
    BY <2>1, <2>2
<1>. QED
  BY <1>6, <1>10, <1>11, <1>12, <1>13, <1>14 DEF IInv

LEMMA CompleteOnboardingPreserves ==
    ASSUME IInv, NEW w \in Workspaces, NEW u \in Users, CompleteOnboarding(w, u)
    PROVE  IInv'
<1>1. /\ workspace' = [workspace EXCEPT ![w].complete = TRUE]
      /\ status' = [status EXCEPT ![u] = "complete"]
      /\ UNCHANGED <<member, invitation, req, now, lastWrite>>
      /\ workspace[w] \in Workspace /\ workspace[w].creator = u
  BY DEF CompleteOnboarding, StatusComplete, IInv, TypeOK
<1>2. /\ workspace'[w] \in Workspace
      /\ \A x \in Workspaces \ {w} : workspace'[x] = workspace[x]
  BY <1>1 DEF Workspace, IInv, TypeOK
<1>3. TypeOK'
  BY <1>1, <1>2 DEF IInv, TypeOK
<1>4. \A x \in Workspaces : workspace[x] = NoRow <=> workspace'[x] = NoRow
  BY <1>1, <1>2, Constructors
<1>5. \A r \in Requests : RequestInv(r)'
  BY <1>1, <1>4 DEF IInv, RequestInv, Member
<1>6. OneHolder'
  BY <1>1 DEF IInv, OneHolder, HoldsInvitation
<1>7. RowsOfWorkspaces'
  BY <1>1, <1>4 DEF IInv, RowsOfWorkspaces, Member
<1>8. MembersAreNotInvited'
  BY <1>1 DEF IInv, MembersAreNotInvited, Member
<1>9. OnboardingCanBeCompleted'
  <2>. SUFFICES ASSUME NEW v \in Users, status'[v] = "team_invite"
                PROVE  \E x \in Workspaces :
                           /\ workspace'[x] # NoRow /\ workspace'[x].creator = v
                           /\ ~ workspace'[x].complete /\ member'[x][v] # NoRow
    BY DEF OnboardingCanBeCompleted, Member
  <2>1. v # u /\ status[v] = "team_invite"
    BY <1>1 DEF IInv, TypeOK
  <2>2. PICK x \in Workspaces : /\ workspace[x] # NoRow /\ workspace[x].creator = v
                                /\ ~ workspace[x].complete /\ member[x][v] # NoRow
    BY <2>1 DEF IInv, OnboardingCanBeCompleted, Member
  <2>. QED
    BY <1>1, <1>2, <2>1, <2>2
<1>. QED
  BY <1>3, <1>5, <1>6, <1>7, <1>8, <1>9 DEF IInv

LEMMA AcceptCommitPreserves ==
    ASSUME IInv, NEW r \in Requests, AcceptCommit(r)
    PROVE  IInv'
<1>. DEFINE u == req[r].user
            w == req[r].ws
            row == [role |-> req[r].role, at |-> req[r].at]
<1>1. /\ req[r] \in Request /\ req[r].pc = "accepting" /\ u \in Users /\ w \in Workspaces
      /\ workspace[w] # NoRow /\ req[r].at \in Nat /\ req[r].at < now
      /\ invitation[w][u] \in Invitation /\ req[r].role = invitation[w][u].role
  BY DEF AcceptCommit, IInv, TypeOK, RequestInv, Request
<1>2. row \in Membership /\ row.at = req[r].at /\ row # NoRow
  <2>1. row \in Membership
    BY <1>1 DEF Membership, Invitation
  <2>. QED
    BY <2>1, Constructors
<1>3. /\ member' = [member EXCEPT ![w][u] = row]
      /\ invitation' = [invitation EXCEPT ![w][u] = NoRow]
      /\ status' = [status EXCEPT ![u] = "complete"]
      /\ req' = [req EXCEPT ![r] = Idle]
      /\ UNCHANGED <<workspace, now, lastWrite>>
  BY DEF AcceptCommit, Accepted, Set, StatusComplete, Respond, Goto
<1>4. HoldsInvitation(r, w, u)
  BY <1>1 DEF HoldsInvitation
<1>. HIDE DEF u, w, row
<1>5. TypeOK'
  BY <1>1, <1>2, <1>3, IdleIsQuiet DEF IInv, TypeOK
<1>6. \A x \in Workspaces, v \in Users :
         /\ member'[x][v] = IF x = w /\ v = u THEN row ELSE member[x][v]
         /\ invitation'[x][v] = IF x = w /\ v = u THEN NoRow ELSE invitation[x][v]
  BY <1>1, <1>3 DEF IInv, TypeOK
<1>7. \A x \in Workspaces, v \in Users : Member(x, v) => Member(x, v)'
  BY <1>2, <1>6 DEF Member
<1>8. ASSUME NEW o \in Requests PROVE RequestInv(o)'
  <2>1. CASE o = r
    <3>1. req'[o] = Idle
      BY <1>3, <2>1 DEF IInv, TypeOK
    <3>. QED
      BY <3>1, IdleIsQuiet DEF RequestInv
  <2>2. CASE o # r
    <3>1. req'[o] = req[o] /\ RequestInv(o) /\ req[o] \in Request
      BY <1>3, <2>2 DEF IInv, TypeOK
    <3>2. req[o].pc = "accepting" => invitation'[req[o].ws][req[o].user] = invitation[req[o].ws][req[o].user]
      <4>1. ~ HoldsInvitation(o, w, u)
        BY <1>1, <1>4, <2>2 DEF IInv, OneHolder
      <4>. QED
        BY <1>6, <3>1, <4>1 DEF RequestInv, HoldsInvitation
    <3>. QED
      BY <1>3, <1>7, <3>1, <3>2 DEF RequestInv
  <2>. QED
    BY <2>1, <2>2
<1>9. OneHolder'
  <2>1. \A x \in Workspaces, v \in Users, o \in Requests :
           HoldsInvitation(o, x, v)' => HoldsInvitation(o, x, v)
    BY <1>3, IdleIsQuiet DEF HoldsInvitation, IInv, TypeOK
  <2>. QED
    BY <2>1 DEF IInv, OneHolder
<1>10. RowsOfWorkspaces'
  BY <1>1, <1>2, <1>3, <1>6 DEF IInv, RowsOfWorkspaces, Member
<1>11. MembersAreNotInvited'
  BY <1>3, <1>6 DEF IInv, MembersAreNotInvited, Member
<1>12. OnboardingCanBeCompleted'
  BY <1>3, <1>7 DEF IInv, OnboardingCanBeCompleted, TypeOK, Member
<1>. QED
  BY <1>5, <1>8, <1>9, <1>10, <1>11, <1>12 DEF IInv

LEMMA InvitationExpiresPreserves ==
    ASSUME IInv, NEW w \in Workspaces, NEW u \in Users, InvitationExpires(w, u)
    PROVE  IInv'
<1>1. /\ invitation' = [invitation EXCEPT ![w][u].expired = TRUE]
      /\ UNCHANGED <<status, workspace, member, req, now, lastWrite>>
      /\ invitation[w][u] \in Invitation
  BY DEF InvitationExpires, IInv, TypeOK
<1>2. [invitation[w][u] EXCEPT !.expired = TRUE] \in Invitation
  BY <1>1 DEF Invitation
<1>3. invitation' \in [Workspaces -> [Users -> Invitation \cup {NoRow}]]
  BY <1>1, <1>2 DEF IInv, TypeOK
<1>4. \A x \in Workspaces, v \in Users :
         /\ invitation[x][v] = NoRow <=> invitation'[x][v] = NoRow
         /\ invitation[x][v] # NoRow => /\ invitation'[x][v].role = invitation[x][v].role
                                        /\ invitation'[x][v].overtaken = invitation[x][v].overtaken
  BY <1>1, <1>2, Constructors DEF IInv, TypeOK, Invitation
<1>5. TypeOK'
  BY <1>1, <1>3 DEF IInv, TypeOK
<1>6. \A r \in Requests : RequestInv(r)'
  BY <1>1, <1>4 DEF IInv, RequestInv, Member
<1>7. OneHolder'
  BY <1>1 DEF IInv, OneHolder, HoldsInvitation
<1>8. RowsOfWorkspaces' /\ MembersAreNotInvited'
  BY <1>1, <1>4 DEF IInv, RowsOfWorkspaces, MembersAreNotInvited, Member
<1>9. OnboardingCanBeCompleted'
  BY <1>1 DEF IInv, OnboardingCanBeCompleted, Member
<1>. QED
  BY <1>5, <1>6, <1>7, <1>8, <1>9 DEF IInv

LEMMA InviteCommitPreserves ==
    ASSUME IInv, NEW r \in Requests, InviteCommit(r)
    PROVE  IInv'
<1>. DEFINE w == req[r].ws
            staged == req[r].staged
<1>1. /\ req[r] \in Request /\ RequestInv(r) /\ w \in Workspaces /\ workspace[w] # NoRow
      /\ staged \in [Users -> Offer \cup {NoRow}]
      /\ \A v \in Users : staged[v] # NoRow => staged[v] \in Offer /\ staged[v].newcomer
  BY DEF InviteCommit, IInv, TypeOK, RequestInv, Request
<1>2. /\ invitation' = [invitation EXCEPT ![w] =
                           [v \in Users |-> IF staged[v] = NoRow THEN invitation[w][v]
                                            ELSE Invited(w, v, staged[v])]]
      /\ req' = [req EXCEPT ![r] = Idle]
      /\ UNCHANGED <<status, workspace, member, now, lastWrite>>
  BY DEF InviteCommit, Respond, Goto
<1>3. \A v \in Users : staged[v] # NoRow => HoldsInvitation(r, w, v)
  BY DEF HoldsInvitation
<1>4. ASSUME NEW v \in Users, staged[v] # NoRow
      PROVE  /\ Invited(w, v, staged[v]) \in Invitation
             /\ Invited(w, v, staged[v]) # NoRow
             /\ Member(w, v) => Invited(w, v, staged[v]).overtaken
  <2>1. staged[v] \in Offer /\ staged[v].newcomer
    BY <1>1, <1>4
  <2>2. (staged[v].newcomer /\ Member(w, v)) \in BOOLEAN
    OBVIOUS
  <2>3. Invited(w, v, staged[v]) \in Invitation
    BY <2>1, <2>2 DEF Invited, Invitation, Offer
  <2>4. Invited(w, v, staged[v]) # NoRow
    BY <2>3, Constructors
  <2>. QED
    BY <2>1, <2>3, <2>4 DEF Invited
<1>. HIDE DEF w, staged
<1>5. \A x \in Workspaces, v \in Users :
         invitation'[x][v] = IF x = w /\ staged[v] # NoRow THEN Invited(w, v, staged[v])
                             ELSE invitation[x][v]
  BY <1>1, <1>2 DEF IInv, TypeOK
<1>6. TypeOK'
  <2>1. [v \in Users |-> IF staged[v] = NoRow THEN invitation[w][v] ELSE Invited(w, v, staged[v])]
            \in [Users -> Invitation \cup {NoRow}]
    BY <1>1, <1>4 DEF IInv, TypeOK
  <2>2. invitation' \in [Workspaces -> [Users -> Invitation \cup {NoRow}]]
    BY <1>2, <2>1 DEF IInv, TypeOK
  <2>. QED
    BY <1>2, <2>2, IdleIsQuiet DEF IInv, TypeOK
<1>7. ASSUME NEW o \in Requests PROVE RequestInv(o)'
  <2>1. CASE o = r
    <3>1. req'[o] = Idle
      BY <1>2, <2>1 DEF IInv, TypeOK
    <3>. QED
      BY <3>1, IdleIsQuiet DEF RequestInv
  <2>2. CASE o # r
    <3>1. req'[o] = req[o] /\ RequestInv(o) /\ req[o] \in Request
      BY <1>2, <2>2 DEF IInv, TypeOK
    <3>2. req[o].pc = "accepting" => invitation'[req[o].ws][req[o].user] = invitation[req[o].ws][req[o].user]
      <4>1. \A v \in Users : staged[v] # NoRow => ~ HoldsInvitation(o, w, v)
        BY <1>1, <1>3, <2>2 DEF IInv, OneHolder
      <4>. QED
        BY <1>5, <3>1, <4>1 DEF RequestInv, HoldsInvitation
    <3>. QED
      BY <1>2, <3>1, <3>2 DEF RequestInv, Member
  <2>. QED
    BY <2>1, <2>2
<1>8. OneHolder'
  <2>1. \A x \in Workspaces, v \in Users, o \in Requests :
           HoldsInvitation(o, x, v)' => HoldsInvitation(o, x, v)
    BY <1>2, IdleIsQuiet DEF HoldsInvitation, IInv, TypeOK
  <2>. QED
    BY <2>1 DEF IInv, OneHolder
<1>9. RowsOfWorkspaces'
  BY <1>1, <1>2, <1>5 DEF IInv, RowsOfWorkspaces, Member
<1>10. MembersAreNotInvited'
  BY <1>2, <1>4, <1>5 DEF IInv, MembersAreNotInvited, Member
<1>11. OnboardingCanBeCompleted'
  BY <1>2 DEF IInv, OnboardingCanBeCompleted, Member
<1>. QED
  BY <1>6, <1>7, <1>8, <1>9, <1>10, <1>11 DEF IInv

-----------------------------------------------------------------------------
(* The theorems *)

LEMMA InitEstablishes == Init => IInv
<1>. SUFFICES ASSUME Init PROVE IInv
  OBVIOUS
<1>1. \A r \in Requests : req[r] = Idle
  BY DEF Init
<1>2. TypeOK
  BY IdleIsQuiet DEF Init, TypeOK
<1>3. \A r \in Requests : RequestInv(r)
  BY <1>1, IdleIsQuiet DEF RequestInv
<1>4. OneHolder
  BY <1>1, IdleIsQuiet DEF OneHolder, HoldsInvitation
<1>. QED
  BY <1>2, <1>3, <1>4
  DEF Init, IInv, RowsOfWorkspaces, Member, MembersAreNotInvited, OnboardingCanBeCompleted

LEMMA NextPreserves == IInv /\ [Next]_vars => IInv'
<1>. SUFFICES ASSUME IInv, [Next]_vars PROVE IInv'
  OBVIOUS
<1>1. ASSUME NEW r \in Requests, NEW u \in Users, CreateBegin(r, u) PROVE IInv'
  BY <1>1, CreateBeginPreserves
<1>2. ASSUME NEW r \in Requests, NEW w \in Workspaces, NEW role \in Roles, CreateCommit(r, w, role)
      PROVE  IInv'
  BY <1>2, CreateCommitPreserves
<1>3. ASSUME NEW r \in Requests, NEW w \in Workspaces, NEW u \in Users, AcceptBegin(r, w, u)
      PROVE  IInv'
  BY <1>3, AcceptBeginPreserves
<1>4. ASSUME NEW r \in Requests, AcceptCommit(r) PROVE IInv'
  BY <1>4, AcceptCommitPreserves
<1>5. ASSUME NEW r \in Requests, Invite(r) PROVE IInv'
  BY <1>5, OnboardingPermitPreserves, AdminPermitPreserves, InviteCheckPreserves,
     InviteUpsertPreserves, InviteCommitPreserves DEF Invite
<1>6. ASSUME NEW r \in Requests, ChangeSettings(r) PROVE IInv'
  BY <1>6, ResolvePrincipalPreserves, ReadCurrentPreserves, WritePolicyPreserves,
     SettingsPermitPreserves, SettingsWritePreserves, NotificationsWritePreserves DEF ChangeSettings
<1>7. ASSUME NEW r \in Requests, Abort(r) PROVE IInv'
  BY <1>7, AbortPreserves
<1>8. ASSUME NEW w \in Workspaces, NEW u \in Users, CompleteOnboarding(w, u) \/ InvitationExpires(w, u)
      PROVE  IInv'
  BY <1>8, CompleteOnboardingPreserves, InvitationExpiresPreserves
<1>9. CASE UNCHANGED vars
  <2>1. UNCHANGED <<status, workspace, member, invitation, req, now, lastWrite>>
    BY <1>9 DEF vars
  <2>2. TypeOK' /\ OneHolder' /\ RowsOfWorkspaces'
    BY <2>1 DEF IInv, TypeOK, OneHolder, HoldsInvitation, RowsOfWorkspaces, Member
  <2>3. \A r \in Requests : RequestInv(r)'
    BY <2>1 DEF IInv, RequestInv, Member
  <2>4. MembersAreNotInvited' /\ OnboardingCanBeCompleted'
    BY <2>1 DEF IInv, MembersAreNotInvited, OnboardingCanBeCompleted, Member
  <2>. QED
    BY <2>2, <2>3, <2>4 DEF IInv
<1>. QED
  BY <1>1, <1>2, <1>3, <1>4, <1>5, <1>6, <1>7, <1>8, <1>9 DEF Next

LEMMA SpecInv == Spec => []IInv
  BY InitEstablishes, NextPreserves, PTL DEF Spec

\* The tables, the requests and the histories are of their declared types: the CHOOSE of the
\* latest membership and its role always finds one.
THEOREM WorkspacesTypeCorrect == Spec => []TypeOK
<1>1. IInv => TypeOK
  BY DEF IInv
<1>. QED
  BY <1>1, SpecInv, PTL

\* A member's invitation is one that a batch wrote over an acceptance it had not seen
\* (create_workspace_invitations, accept_workspace_invitation).
THEOREM OnlyOvertakenMembersAreInvited == Spec => []MembersAreNotInvited
<1>1. IInv => MembersAreNotInvited
  BY DEF IInv
<1>. QED
  BY <1>1, SpecInv, PTL

\* Nobody is left in the middle of onboarding without a workspace to complete
\* (create_workspace, complete_workspace_onboarding, accept_workspace_invitation).
THEOREM OnboardingIsNeverStuck == Spec => []OnboardingCanBeCompleted
<1>1. IInv => OnboardingCanBeCompleted
  BY DEF IInv
<1>. QED
  BY <1>1, SpecInv, PTL

\* Beside the creation, only the invitation that is open makes a member, with the role it offers
\* (accept_workspace_invitation holds its row FOR UPDATE).
THEOREM GrantsComeFromInvitations == Spec => GrantsFollowOpenInvitation
<1>. DEFINE Granted(w, u) ==
              member'[w][u] # member[w][u] /\ workspace[w] # NoRow =>
                  /\ invitation[w][u] # NoRow
                  /\ member'[w][u].role = invitation[w][u].role
                  /\ invitation'[w][u] = NoRow
<1>1. ASSUME IInv, [Next]_vars, NEW w \in Workspaces, NEW u \in Users PROVE Granted(w, u)
  <2>1. /\ member \in [Workspaces -> [Users -> Membership \cup {NoRow}]]
        /\ invitation \in [Workspaces -> [Users -> Invitation \cup {NoRow}]]
    BY <1>1 DEF IInv, TypeOK
  <2>2. ASSUME NEW r \in Requests, NEW x \in Workspaces, NEW role \in Roles, CreateCommit(r, x, role)
        PROVE  Granted(w, u)
    BY <2>1, <2>2 DEF CreateCommit, Set
  <2>3. ASSUME NEW r \in Requests, AcceptCommit(r) PROVE Granted(w, u)
    <3>1. /\ req[r].ws \in Workspaces /\ req[r].user \in Users
          /\ invitation[req[r].ws][req[r].user] # NoRow
          /\ req[r].role = invitation[req[r].ws][req[r].user].role
      BY <1>1, <2>3 DEF AcceptCommit, IInv, RequestInv
    <3>2. CASE w = req[r].ws /\ u = req[r].user
      BY <2>1, <2>3, <3>1, <3>2 DEF AcceptCommit, Accepted, Set
    <3>3. CASE ~ (w = req[r].ws /\ u = req[r].user)
      BY <2>1, <2>3, <3>1, <3>3 DEF AcceptCommit, Set
    <3>. QED
      BY <3>2, <3>3
  <2>4. CASE UNCHANGED member
    BY <2>4
  <2>. HIDE DEF Granted
  <2>. QED
    BY <1>1, <2>2, <2>3, <2>4
    DEF Next, CreateBegin, AcceptBegin, Invite, OnboardingPermit, AdminPermit, InviteCheck,
        InviteUpsert, InviteCommit, ChangeSettings, ResolvePrincipal, ReadCurrent, WritePolicy,
        SettingsPermit, SettingsWrite, NotificationsPermit, NotificationsWrite, Permit, Abort,
        CompleteOnboarding,
        InvitationExpires, vars
<1>2. IInv /\ [Next]_vars => [\A w \in Workspaces, u \in Users : Granted(w, u)]_vars
  BY <1>1
<1>. QED
  BY <1>2, SpecInv, PTL DEF Spec, GrantsFollowOpenInvitation

-----------------------------------------------------------------------------
(* Changes of settings.  What a check saw holds as long as the membership   *)
(* has the joined_at of the check, because a replacement brings one that    *)
(* nothing else has: its transaction's, which no other transaction shares.  *)

Starting(r) == req[r].pc \in {"creating", "accepting"}
Permitted(r) == req[r].pc \in {"permitted", "noticing"}

StampsAreFresh ==
    \A r \in Requests :
        Starting(r) =>
            /\ \A w \in Workspaces, u \in Users : Member(w, u) => member[w][u].at # req[r].at
            /\ \A o \in Requests \ {r} : Starting(o) \/ Permitted(o) => req[o].at # req[r].at

PermitHolds(r) ==
    LET q == req[r] IN
    Permitted(r) =>
        /\ q.at < now
        /\ member[q.ws][q.user].at = q.at => member[q.ws][q.user].role = "admin"

SettingsInv ==
    /\ StampsAreFresh
    /\ \A r \in Requests : PermitHolds(r)
    /\ SettingsWritersWereAdmins

(* the other requests, when one goes on and no membership changes *)
LEMMA OthersKeep ==
    ASSUME IInv, SettingsInv, NEW r \in Requests, NEW state \in Request, Goto(r, state),
           UNCHANGED member, now' \in Nat, now <= now'
    PROVE  /\ req'[r] = state
           /\ \A o \in Requests \ {r} : req'[o] = req[o] /\ PermitHolds(o)'
           /\ \A o \in Requests : req[o].at \in Nat
<1>1. req'[r] = state /\ \A o \in Requests \ {r} : req'[o] = req[o]
  BY DEF Goto, IInv, TypeOK
<1>2. \A o \in Requests : req[o].at \in Nat
  BY DEF IInv, TypeOK, Request
<1>3. now \in Nat
  BY DEF IInv, TypeOK
<1>. QED
  BY <1>1, <1>2, <1>3 DEF SettingsInv, PermitHolds, Permitted

(* a request goes on that neither begins a membership nor checks one *)
LEMMA GoesOn ==
    ASSUME IInv, SettingsInv, NEW r \in Requests, NEW state \in Request, Goto(r, state),
           UNCHANGED <<member, now>>, SettingsWritersWereAdmins',
           state.pc \notin {"creating", "accepting", "permitted", "noticing"}
    PROVE  SettingsInv'
<1>1. now' \in Nat /\ now <= now'
  BY DEF IInv, TypeOK
<1>2. /\ req'[r] = state
      /\ \A o \in Requests \ {r} : req'[o] = req[o] /\ PermitHolds(o)'
  BY <1>1, OthersKeep
<1>3. StampsAreFresh'
  BY <1>2 DEF SettingsInv, StampsAreFresh, Starting, Permitted, Member
<1>4. PermitHolds(r)'
  BY <1>2 DEF PermitHolds, Permitted
<1>. QED
  BY <1>2, <1>3, <1>4 DEF SettingsInv

(* CreateBegin, AcceptBegin: the time of a transaction that begins is new *)
LEMMA Begins ==
    ASSUME IInv, SettingsInv, NEW r \in Requests, NEW state \in Request, Goto(r, state),
           UNCHANGED <<member, lastWrite>>, now' = now + 1,
           state.pc \in {"creating", "accepting"}, state.at = now
    PROVE  SettingsInv'
<1>1. now \in Nat /\ now' \in Nat /\ now <= now'
  BY DEF IInv, TypeOK
<1>2. /\ req'[r] = state
      /\ \A o \in Requests \ {r} : req'[o] = req[o] /\ PermitHolds(o)'
      /\ \A o \in Requests : req[o].at \in Nat
  BY <1>1, OthersKeep
<1>3. \A o \in Requests : Starting(o) \/ Permitted(o) => req[o].at < now
  BY DEF IInv, RequestInv, SettingsInv, PermitHolds, Starting
<1>4. \A w \in Workspaces, u \in Users : Member(w, u) => member[w][u].at < now /\ member[w][u].at \in Nat
  BY DEF IInv, RowsOfWorkspaces, TypeOK, Member, Membership
<1>5. ASSUME NEW o \in Requests, Starting(o)'
      PROVE  /\ \A w \in Workspaces, u \in Users : Member(w, u)' => member'[w][u].at # req'[o].at
             /\ \A x \in Requests \ {o} : Starting(x)' \/ Permitted(x)' => req'[x].at # req'[o].at
  <2>1. CASE o = r
    BY <1>1, <1>2, <1>3, <1>4, <2>1 DEF Starting, Permitted, Member
  <2>2. CASE o # r
    <3>1. Starting(o) /\ req'[o] = req[o] /\ req[o].at < now /\ req[o].at # state.at
      BY <1>1, <1>2, <1>3, <1>5, <2>2 DEF Starting
    <3>2. \A w \in Workspaces, u \in Users : Member(w, u) => member[w][u].at # req[o].at
      BY <3>1 DEF SettingsInv, StampsAreFresh
    <3>3. \A x \in Requests \ {o, r} : Starting(x) \/ Permitted(x) => req[x].at # req[o].at
      BY <3>1 DEF SettingsInv, StampsAreFresh
    <3>. QED
      BY <1>2, <3>1, <3>2, <3>3 DEF Starting, Permitted, Member
  <2>. QED
    BY <2>1, <2>2
<1>6. StampsAreFresh'
  BY <1>5 DEF StampsAreFresh
<1>7. PermitHolds(r)'
  BY <1>2 DEF PermitHolds, Permitted
<1>8. SettingsWritersWereAdmins'
  BY DEF SettingsInv, SettingsWritersWereAdmins
<1>. QED
  BY <1>2, <1>6, <1>7, <1>8 DEF SettingsInv

(* SettingsPermit, NotificationsPermit: the check keeps the joined_at of an admin *)
LEMMA Permits ==
    ASSUME IInv, SettingsInv, NEW r \in Requests, NEW pc \in {"permitted", "noticing"},
           Permit(r, pc), req[r].pc \in {"targeted", "notifying"}
    PROVE  SettingsInv'
<1>. DEFINE joined == member[req[r].ws][req[r].user].at
            state == [req[r] EXCEPT !.pc = pc, !.at = joined]
<1>1. /\ req[r] \in Request /\ req[r].user \in Users
      /\ req[r].ws \in Workspaces /\ Member(req[r].ws, req[r].user)
      /\ joined \in Nat /\ joined < now
  BY TargetIsOwn DEF Membership, IInv, RowsOfWorkspaces
<1>2. Goto(r, state) /\ UNCHANGED <<member, now, lastWrite>>
  BY DEF Permit
<1>3. member[req[r].ws][req[r].user].role = "admin"
  BY DEF Permit, MayChangeSettings, IsAdmin
<1>4. \A o \in Requests : Starting(o) => joined # req[o].at
  BY <1>1 DEF SettingsInv, StampsAreFresh
<1>. HIDE DEF joined
<1>5. /\ state \in Request /\ state.pc = pc /\ state.user = req[r].user
      /\ state.ws = req[r].ws /\ state.at = joined
  BY <1>1 DEF Request
<1>6. now' \in Nat /\ now <= now' /\ now' = now
  BY <1>2 DEF IInv, TypeOK
<1>. HIDE DEF state
<1>7. /\ req'[r] = state
      /\ \A o \in Requests \ {r} : req'[o] = req[o] /\ PermitHolds(o)'
  BY <1>2, <1>5, <1>6, OthersKeep
<1>8. ASSUME NEW o \in Requests, Starting(o)'
      PROVE  /\ \A w \in Workspaces, u \in Users : Member(w, u)' => member'[w][u].at # req'[o].at
             /\ \A x \in Requests \ {o} : Starting(x)' \/ Permitted(x)' => req'[x].at # req'[o].at
  <2>1. o # r /\ req'[o] = req[o] /\ Starting(o)
    BY <1>5, <1>7, <1>8 DEF Starting
  <2>2. \A w \in Workspaces, u \in Users : Member(w, u) => member[w][u].at # req[o].at
    BY <2>1 DEF SettingsInv, StampsAreFresh
  <2>3. \A x \in Requests \ {o, r} : Starting(x) \/ Permitted(x) => req[x].at # req[o].at
    BY <2>1 DEF SettingsInv, StampsAreFresh
  <2>. QED
    BY <1>2, <1>4, <1>5, <1>7, <2>1, <2>2, <2>3 DEF Starting, Permitted, Member
<1>9. StampsAreFresh'
  BY <1>8 DEF StampsAreFresh
<1>10. PermitHolds(r)'
  BY <1>1, <1>2, <1>3, <1>5, <1>6, <1>7 DEF PermitHolds, joined
<1>11. SettingsWritersWereAdmins'
  BY <1>2 DEF SettingsInv, SettingsWritersWereAdmins
<1>. QED
  BY <1>7, <1>9, <1>10, <1>11 DEF SettingsInv

(* SettingsWrite, NotificationsWrite: an admin writes, or whoever was regranted *)
LEMMA WriterWasAdmin ==
    ASSUME IInv, SettingsInv, NEW r \in Requests, Permitted(r), Wrote("settings", req[r])
    PROVE  SettingsWritersWereAdmins'
  BY DEF SettingsInv, PermitHolds, Wrote, SettingsWritersWereAdmins

(* CreateCommit, AcceptCommit: the new row has the time of its transaction *)
LEMMA Grants ==
    ASSUME IInv, SettingsInv, NEW r \in Requests, Starting(r), Respond(r),
           NEW w \in Workspaces, NEW u \in Users, NEW row \in Membership, row.at = req[r].at,
           member' = Set(member, w, u, row), UNCHANGED <<now, lastWrite>>
    PROVE  SettingsInv'
<1>1. \A x \in Workspaces, v \in Users :
         member'[x][v] = IF x = w /\ v = u THEN row ELSE member[x][v]
  BY DEF Set, IInv, TypeOK
<1>2. req'[r] = Idle /\ \A o \in Requests \ {r} : req'[o] = req[o]
  BY DEF Respond, Goto, IInv, TypeOK
<1>3. \A o \in Requests \ {r} : Starting(o) \/ Permitted(o) => req[o].at # row.at
  BY DEF SettingsInv, StampsAreFresh
<1>4. ASSUME NEW o \in Requests, Starting(o)'
      PROVE  /\ \A x \in Workspaces, v \in Users : Member(x, v)' => member'[x][v].at # req'[o].at
             /\ \A x \in Requests \ {o} : Starting(x)' \/ Permitted(x)' => req'[x].at # req'[o].at
  <2>1. o # r /\ req'[o] = req[o] /\ Starting(o)
    BY <1>2, <1>4, IdleIsQuiet DEF Starting
  <2>2. \A x \in Workspaces, v \in Users : Member(x, v) => member[x][v].at # req[o].at
    BY <2>1 DEF SettingsInv, StampsAreFresh
  <2>3. \A x \in Requests \ {o, r} : Starting(x) \/ Permitted(x) => req[x].at # req[o].at
    BY <2>1 DEF SettingsInv, StampsAreFresh
  <2>. QED
    BY <1>1, <1>2, <1>3, <2>1, <2>2, <2>3, IdleIsQuiet DEF Starting, Permitted, Member
<1>5. ASSUME NEW o \in Requests PROVE PermitHolds(o)'
  <2>1. CASE Permitted(o)'
    <3>1. o # r /\ req'[o] = req[o] /\ Permitted(o)
      BY <1>2, <2>1, IdleIsQuiet DEF Permitted
    <3>2. req[o].ws \in Workspaces /\ req[o].user \in Users
      BY <3>1, TargetIsOwn DEF Permitted
    <3>. QED
      BY <1>1, <1>3, <3>1, <3>2 DEF SettingsInv, PermitHolds
  <2>. QED
    BY <2>1 DEF PermitHolds
<1>6. StampsAreFresh'
  BY <1>4 DEF StampsAreFresh
<1>7. SettingsWritersWereAdmins'
  BY DEF SettingsInv, SettingsWritersWereAdmins
<1>. QED
  BY <1>5, <1>6, <1>7 DEF SettingsInv

LEMMA SettingsNext == IInv /\ SettingsInv /\ [Next]_vars => SettingsInv'
<1>. SUFFICES ASSUME IInv, SettingsInv, [Next]_vars PROVE SettingsInv'
  OBVIOUS
<1>1. /\ Idle \in Request
      /\ Idle.pc \notin {"creating", "accepting", "permitted", "noticing"}
  BY IdleIsQuiet
<1>2. ASSUME NEW r \in Requests, Respond(r), UNCHANGED <<member, now>>, SettingsWritersWereAdmins'
      PROVE  SettingsInv'
  BY <1>1, <1>2, GoesOn DEF Respond
<1>3. ASSUME UNCHANGED lastWrite PROVE SettingsWritersWereAdmins'
  BY <1>3 DEF SettingsInv, SettingsWritersWereAdmins
<1>4. ASSUME NEW r \in Requests, NEW u \in Users, CreateBegin(r, u) PROVE SettingsInv'
  <2>. DEFINE state == [Idle EXCEPT !.pc = "creating", !.user = u, !.at = now]
  <2>1. state \in Request /\ state.pc = "creating" /\ state.at = now
    BY DEF Idle, Request, IInv, TypeOK
  <2>2. Goto(r, state) /\ now' = now + 1 /\ UNCHANGED <<member, lastWrite>>
    BY <1>4 DEF CreateBegin
  <2>. HIDE DEF state
  <2>. QED
    BY <2>1, <2>2, Begins
<1>5. ASSUME NEW r \in Requests, NEW w \in Workspaces, NEW u \in Users, AcceptBegin(r, w, u)
      PROVE  SettingsInv'
  <2>. DEFINE state == [Idle EXCEPT !.pc = "accepting", !.user = u, !.ws = w, !.at = now,
                                    !.role = invitation[w][u].role]
  <2>1. invitation[w][u].role \in Roles
    BY <1>5 DEF AcceptBegin, IInv, TypeOK, Invitation
  <2>2. state \in Request /\ state.pc = "accepting" /\ state.at = now
    BY <2>1 DEF Idle, Request, IInv, TypeOK
  <2>3. Goto(r, state) /\ now' = now + 1 /\ UNCHANGED <<member, lastWrite>>
    BY <1>5 DEF AcceptBegin
  <2>. HIDE DEF state
  <2>. QED
    BY <2>2, <2>3, Begins
<1>6. ASSUME NEW r \in Requests, NEW w \in Workspaces, NEW role \in Roles, CreateCommit(r, w, role)
      PROVE  SettingsInv'
  <2>. DEFINE row == [role |-> role, at |-> req[r].at]
  <2>1. Starting(r) /\ req[r].user \in Users /\ req[r].at \in Nat
    BY <1>6 DEF CreateCommit, Starting, IInv, RequestInv, TypeOK, Request
  <2>2. row \in Membership /\ row.at = req[r].at
    BY <2>1 DEF Membership
  <2>3. Respond(r) /\ member' = Set(member, w, req[r].user, row) /\ UNCHANGED <<now, lastWrite>>
    BY <1>6 DEF CreateCommit
  <2>. HIDE DEF row
  <2>. QED
    BY <2>1, <2>2, <2>3, Grants
<1>7. ASSUME NEW r \in Requests, AcceptCommit(r) PROVE SettingsInv'
  <2>. DEFINE row == [role |-> req[r].role, at |-> req[r].at]
  <2>1. /\ Starting(r) /\ req[r].user \in Users /\ req[r].ws \in Workspaces /\ req[r].at \in Nat
        /\ req[r].role \in Roles
    BY <1>7 DEF AcceptCommit, Starting, IInv, RequestInv, TypeOK, Request, Invitation
  <2>2. row \in Membership /\ row.at = req[r].at
    BY <2>1 DEF Membership
  <2>3. Respond(r) /\ member' = Set(member, req[r].ws, req[r].user, row) /\ UNCHANGED <<now, lastWrite>>
    BY <1>7 DEF AcceptCommit
  <2>. HIDE DEF row
  <2>. QED
    BY <2>1, <2>2, <2>3, Grants
<1>8. ASSUME NEW r \in Requests, Invite(r) PROVE SettingsInv'
  <2>1. SettingsWritersWereAdmins' /\ UNCHANGED <<member, now>>
    BY <1>3, <1>8 DEF Invite, OnboardingPermit, AdminPermit, InviteCheck, InviteUpsert, InviteCommit
  <2>2. CASE InviteCommit(r)
    BY <1>2, <2>1, <2>2 DEF InviteCommit
  <2>3. CASE ~ InviteCommit(r)
    <3>1. Goto(r, req'[r]) /\ req'[r].pc \in {"inviting", "checked"}
      <4>1. req[r] \in Request
        BY DEF IInv, TypeOK
      <4>2. ASSUME NEW state, Goto(r, state) PROVE req'[r] = state
        BY <4>2 DEF Goto, IInv, TypeOK
      <4>3. ASSUME NEW w \in Workspaces PROVE [Idle EXCEPT !.pc = "inviting", !.ws = w].pc = "inviting"
        BY DEF Idle
      <4>4. ASSUME NEW w \in Workspaces, NEW u \in Users, OnboardingPermit(r, w, u)
            PROVE  Goto(r, req'[r]) /\ req'[r].pc = "inviting"
        BY <4>2, <4>3, <4>4 DEF OnboardingPermit
      <4>5. ASSUME AdminPermit(r) PROVE Goto(r, req'[r]) /\ req'[r].pc = "inviting"
        <5>1. req[r].ws \in Workspaces
          BY <4>5, TargetIsOwn DEF AdminPermit
        <5>. QED
          BY <4>2, <4>3, <4>5, <5>1 DEF AdminPermit
      <4>6. ASSUME NEW u \in Users, NEW role \in Roles, InviteCheck(r, u, role)
            PROVE  Goto(r, req'[r]) /\ req'[r].pc = "checked"
        BY <4>1, <4>2, <4>6 DEF InviteCheck, Request
      <4>7. ASSUME InviteUpsert(r) PROVE Goto(r, req'[r]) /\ req'[r].pc = "inviting"
        BY <4>1, <4>2, <4>7 DEF InviteUpsert, Request
      <4>. QED
        BY <1>8, <2>3, <4>4, <4>5, <4>6, <4>7 DEF Invite
    <3>2. req'[r] \in Request
      BY NextPreserves DEF IInv, TypeOK
    <3>. QED
      BY <2>1, <3>1, <3>2, GoesOn
  <2>. QED
    BY <2>2, <2>3
<1>9. ASSUME NEW r \in Requests, ChangeSettings(r) PROVE SettingsInv'
  <2>1. ASSUME NEW u \in Users, ResolvePrincipal(r, u) PROVE SettingsInv'
    <3>1. \A role : [Idle EXCEPT !.pc = "resolved", !.user = u, !.role = role].pc = "resolved"
      BY DEF Idle
    <3>2. PICK state : Goto(r, state) /\ state.pc = "resolved"
      BY <2>1, <3>1 DEF ResolvePrincipal
    <3>3. req'[r] = state /\ req'[r] \in Request
      BY <3>2, NextPreserves DEF Goto, IInv, TypeOK
    <3>. QED
      BY <1>3, <2>1, <3>2, <3>3, GoesOn DEF ResolvePrincipal
  <2>2. ASSUME ReadCurrent(r) PROVE SettingsInv'
    <3>1. \A w : [req[r] EXCEPT !.pc = "targeted", !.ws = w].pc = "targeted"
      BY DEF IInv, TypeOK, Request
    <3>2. PICK state : Goto(r, state) /\ state.pc = "targeted"
      BY <2>2, <3>1 DEF ReadCurrent
    <3>3. req'[r] = state /\ req'[r] \in Request
      BY <3>2, NextPreserves DEF Goto, IInv, TypeOK
    <3>. QED
      BY <1>3, <2>2, <3>2, <3>3, GoesOn DEF ReadCurrent
  <2>3. ASSUME WritePolicy(r) PROVE SettingsInv'
    <3>1. SettingsWritersWereAdmins'
      BY <2>3 DEF WritePolicy, Wrote, SettingsWritersWereAdmins
    <3>. QED
      BY <1>2, <2>3, <3>1 DEF WritePolicy
  <2>4. ASSUME SettingsPermit(r) \/ NotificationsPermit(r) PROVE SettingsInv'
    BY <2>4, Permits DEF SettingsPermit, NotificationsPermit
  <2>5. ASSUME SettingsWrite(r) PROVE SettingsInv'
    <3>1. SettingsWritersWereAdmins' /\ UNCHANGED <<member, now>>
      BY <2>5, WriterWasAdmin DEF SettingsWrite, Permitted
    <3>2. CASE Respond(r)
      BY <1>2, <3>1, <3>2
    <3>3. CASE Goto(r, [req[r] EXCEPT !.pc = "notifying"])
      <4>1. /\ [req[r] EXCEPT !.pc = "notifying"] \in Request
            /\ [req[r] EXCEPT !.pc = "notifying"].pc = "notifying"
        BY DEF IInv, TypeOK, Request
      <4>. QED
        BY <3>1, <3>3, <4>1, GoesOn
    <3>. QED
      BY <2>5, <3>2, <3>3 DEF SettingsWrite
  <2>6. ASSUME NotificationsWrite(r) PROVE SettingsInv'
    <3>1. SettingsWritersWereAdmins'
      BY <2>6, WriterWasAdmin DEF NotificationsWrite, Permitted
    <3>. QED
      BY <1>2, <2>6, <3>1 DEF NotificationsWrite
  <2>. QED
    BY <1>9, <2>1, <2>2, <2>3, <2>4, <2>5, <2>6 DEF ChangeSettings
<1>10. ASSUME NEW r \in Requests, Abort(r) PROVE SettingsInv'
  BY <1>2, <1>3, <1>10 DEF Abort
<1>11. ASSUME UNCHANGED <<member, req, now, lastWrite>> PROVE SettingsInv'
  BY <1>11 DEF SettingsInv, StampsAreFresh, Starting, Permitted, PermitHolds, Member,
              SettingsWritersWereAdmins
<1>. QED
  BY <1>4, <1>5, <1>6, <1>7, <1>8, <1>9, <1>10, <1>11
  DEF Next, CompleteOnboarding, InvitationExpires, vars

\* The settings of a workspace are written by whoever was its admin at the check, and by no
\* member of another role unless an acceptance replaced the membership between the check and the
\* write (update_workspace, update_workspace_notifications).
THEOREM SettingsComeFromAdmins == Spec => []SettingsWritersWereAdmins
<1>1. Init => SettingsInv
  <2>. SUFFICES ASSUME Init PROVE SettingsInv
    OBVIOUS
  <2>1. \A r \in Requests : ~ Starting(r) /\ ~ Permitted(r)
    BY IdleIsQuiet DEF Init, Starting, Permitted
  <2>2. SettingsWritersWereAdmins
    BY DEF Init, SettingsWritersWereAdmins
  <2>. QED
    BY <2>1, <2>2 DEF SettingsInv, StampsAreFresh, PermitHolds
<1>2. SettingsInv => SettingsWritersWereAdmins
  BY DEF SettingsInv
<1>. QED
  BY <1>1, <1>2, SpecInv, SettingsNext, PTL DEF Spec
=============================================================================
