--------------------------- MODULE AuthSessionsProofs ---------------------------
(***************************************************************************)
(* Proofs about AuthSessions, for any number of sessions, links and        *)
(* requests in flight.                                                     *)
(***************************************************************************)
EXTENDS AuthSessions, FiniteSetTheorems, TLAPS

-----------------------------------------------------------------------------
(* The inductive invariant *)

(* nothing happens before the sign-up *)
AccountComesFirst ==
    account = NoRow =>
        /\ \A s \in Sessions : session[s] = NoRow
        /\ \A t \in Tokens : token[t] = NoRow
        /\ \A r \in Requests : req[r].pc = "idle"

(* what a request carries in its phase *)
PhaseInv(r) ==
    LET q == req[r] IN
    /\ q.pc \in {"succeeding", "marking", "rotating", "issuing"} => q.origin # NoOrigin
    /\ q.origin # NoOrigin => q.pc # "idle"
    /\ q.pc = "rotating" => q.parent # NoSession
    /\ q.parent # NoSession => /\ q.pc \in {"marking", "rotating"}
                               /\ session[q.parent] # NoRow
    /\ q.pc = "retiring" => q.mail \in Purposes /\ q.seen \subseteq Tokens
    /\ q.pc = "resetting" => q.token \in Tokens /\ token[q.token] # NoRow

(* an origin rests on the present password unless a reset overtook it *)
Fits(origin) ==
    /\ origin.proof \in {account.password, Overtaken}
    /\ origin.root # NoSession => session[origin.root] # NoRow

OriginsFit ==
    /\ \A s \in Sessions : Live(s) => /\ session[s].origin # NoOrigin
                                      /\ session[s].origin.root # NoSession
                                      /\ Fits(session[s].origin)
    /\ \A r \in Requests : req[r].origin # NoOrigin => Fits(req[r].origin)

(* who continues the descent from root: its live session, a request that   *)
(* is about to revoke that session, or the one that has                    *)
Continues(r, root) ==
    /\ req[r].origin # NoOrigin
    /\ req[r].origin.root = root
    /\ req[r].parent # NoSession => ~ session[req[r].parent].revoked

OneContinues ==
    /\ OneSessionPerLogin
    /\ \A r \in Requests, s \in Sessions :
          Live(s) /\ Continues(r, session[s].origin.root) => req[r].parent = s
    /\ \A r, o \in Requests, root \in Sessions :
          Continues(r, root) /\ Continues(o, root) /\ r # o =>
              req[r].parent = req[o].parent /\ req[r].parent # NoSession

(* links: an unused one and one that a reset holds have not been used, and *)
(* a request about to issue one has seen what no other has just issued     *)
Unspent(t) == \A p \in Purposes : spent[t][p] = 0

LinksInv ==
    /\ LinksWorkOnce
    /\ \A t \in Tokens : token[t] # NoRow /\ token[t].unused => Unspent(t)
    /\ \A r \in Requests : req[r].pc = "resetting" =>
          token[req[r].token].purpose = "password_reset" /\ Unspent(req[r].token)
    /\ \A r, o \in Requests :
          req[r].pc = "resetting" /\ req[o].pc = "resetting" /\ req[r].token = req[o].token => r = o
    /\ \A r \in Requests : req[r].pc = "retiring" =>
          \A t \in Unused(req[r].mail) : t \in req[r].seen \/ token[t].overlapped

(* the lockout: an open account has seen few failures, and each request    *)
(* that is about to count one is paid for                                  *)
Failing == {r \in Requests : req[r].pc = "failing"}

LockoutInv ==
    /\ account = NoRow => wrong = 0
    /\ account # NoRow => wrong <= account.failures
    /\ account # NoRow /\ ~ account.locked => wrong < MaxFailures
    /\ wrong + Cardinality(Failing) < MaxFailures + Cardinality(Requests)

IInv ==
    /\ TypeOK
    /\ AccountComesFirst
    /\ \A r \in Requests : PhaseInv(r)
    /\ OriginsFit
    /\ OneContinues
    /\ LinksInv
    /\ LockoutInv

-----------------------------------------------------------------------------
(* Types *)

LEMMA IdleIsQuiet ==
    /\ Idle \in Request
    /\ Idle.pc = "idle" /\ Idle.origin = NoOrigin /\ Idle.parent = NoSession
  BY DEF Idle, Request

LEMMA FromIsOrigin ==
    ASSUME NEW secret \in Passwords
    PROVE  From(secret) \in Origin /\ From(secret) # NoOrigin
  BY NullsAssumption DEF From, Origin

LEMMA LateIsOrigin ==
    ASSUME NEW origin \in Origin \cup {NoOrigin}
    PROVE  /\ Late(origin) \in Origin \cup {NoOrigin}
           /\ Late(origin) = NoOrigin <=> origin = NoOrigin
           /\ origin # NoOrigin => Late(origin).root = origin.root /\ Late(origin).proof = Overtaken
  BY NullsAssumption DEF Late, Origin

LEMMA RevokedRows ==
    ASSUME TypeOK, NEW set
    PROVE  /\ Revoked(set) \in [Sessions -> Session \cup {NoRow}]
           /\ \A s \in Sessions :
                 /\ Revoked(set)[s] = NoRow <=> session[s] = NoRow
                 /\ s \notin set => Revoked(set)[s] = session[s]
                 /\ s \in set /\ session[s] # NoRow => Revoked(set)[s].revoked
<1>. SUFFICES ASSUME NEW s \in Sessions
              PROVE  /\ Revoked(set)[s] \in Session \cup {NoRow}
                     /\ Revoked(set)[s] = NoRow <=> session[s] = NoRow
                     /\ s \notin set => Revoked(set)[s] = session[s]
                     /\ s \in set /\ session[s] # NoRow => Revoked(set)[s].revoked
  BY DEF Revoked
<1>1. session[s] \in Session \cup {NoRow}
  BY DEF TypeOK
<1>. QED
  BY <1>1, NullsAssumption DEF Revoked, Ended, Session

LEMMA UsedRows ==
    ASSUME TypeOK, NEW set
    PROVE  /\ Used(set) \in [Tokens -> Token \cup {NoRow}]
           /\ \A t \in Tokens :
                 /\ Used(set)[t] = NoRow <=> token[t] = NoRow
                 /\ t \notin set => Used(set)[t] = token[t]
                 /\ t \in set /\ token[t] # NoRow => ~ Used(set)[t].unused
                 /\ token[t] # NoRow => Used(set)[t].purpose = token[t].purpose
<1>. SUFFICES ASSUME NEW t \in Tokens
              PROVE  /\ Used(set)[t] \in Token \cup {NoRow}
                     /\ Used(set)[t] = NoRow <=> token[t] = NoRow
                     /\ t \notin set => Used(set)[t] = token[t]
                     /\ t \in set /\ token[t] # NoRow => ~ Used(set)[t].unused
                     /\ token[t] # NoRow => Used(set)[t].purpose = token[t].purpose
  BY DEF Used
<1>1. token[t] \in Token \cup {NoRow}
  BY DEF TypeOK
<1>. QED
  BY <1>1, NullsAssumption DEF Used, Token

-----------------------------------------------------------------------------
(* What leaves each part of the invariant alone *)

LEMMA OriginsStay ==
    ASSUME IInv,
           account # NoRow => account' # NoRow /\ account'.password = account.password,
           \A s \in Sessions : session[s] # NoRow => session'[s] # NoRow,
           \A s \in Sessions : Live(s)' => Live(s) /\ session'[s].origin = session[s].origin,
           \A r \in Requests : req'[r].origin # NoOrigin => req'[r].origin = req[r].origin
    PROVE  OriginsFit'
<1>1. ASSUME NEW s \in Sessions, Live(s)'
      PROVE  /\ (session[s].origin # NoOrigin)'
             /\ (session[s].origin.root # NoSession)'
             /\ Fits(session[s].origin)'
  <2>1. Live(s) /\ session'[s].origin = session[s].origin /\ account # NoRow
    BY <1>1 DEF IInv, AccountComesFirst, Live
  <2>2. session[s].origin \in Origin /\ Fits(session[s].origin) /\ session[s].origin.root # NoSession
    BY <2>1 DEF IInv, TypeOK, OriginsFit, Live, Session
  <2>. QED
    BY <2>1, <2>2, NullsAssumption DEF Fits, Origin
<1>2. ASSUME NEW r \in Requests, req'[r].origin # NoOrigin
      PROVE  Fits(req[r].origin)'
  <2>1. req'[r].origin = req[r].origin /\ req[r].origin # NoOrigin
    BY <1>2
  <2>2. req[r].origin \in Origin /\ Fits(req[r].origin)
    BY <2>1 DEF IInv, TypeOK, OriginsFit, Request
  <2>3. account # NoRow
    BY <2>1 DEF IInv, AccountComesFirst, PhaseInv
  <2>. QED
    BY <2>1, <2>2, <2>3 DEF Fits, Origin
<1>. QED
  BY <1>1, <1>2 DEF OriginsFit

LEMMA DescentsStay ==
    ASSUME IInv,
           \A s \in Sessions : Live(s)' => Live(s) /\ session'[s].origin.root = session[s].origin.root,
           \A s \in Sessions : session[s] # NoRow /\ session[s].revoked => session'[s].revoked,
           \A r \in Requests : req'[r].origin # NoOrigin /\ req'[r].origin.root # NoSession =>
               /\ req[r].origin # NoOrigin
               /\ req'[r].origin.root = req[r].origin.root
               /\ req'[r].parent = req[r].parent
    PROVE  OneContinues'
<1>1. ASSUME NEW r \in Requests, NEW root \in Sessions, Continues(r, root)'
      PROVE  Continues(r, root) /\ req'[r].parent = req[r].parent
  <2>1. req[r] \in Request /\ PhaseInv(r) /\ root # NoSession
    BY AuthAssumption DEF IInv, TypeOK
  <2>2. /\ req[r].origin # NoOrigin /\ req[r].origin.root = root /\ req'[r].parent = req[r].parent
        /\ req[r].parent # NoSession => ~ session'[req[r].parent].revoked
    BY <1>1, <2>1 DEF Continues
  <2>3. req[r].parent # NoSession => req[r].parent \in Sessions /\ session[req[r].parent] # NoRow
    BY <2>1 DEF PhaseInv, Request
  <2>. QED
    BY <2>2, <2>3 DEF Continues
<1>2. ASSUME NEW s \in Sessions, Live(s)'
      PROVE  Live(s) /\ session'[s].origin.root = session[s].origin.root
             /\ session[s].origin.root \in Sessions
  BY <1>2 DEF IInv, TypeOK, OriginsFit, Live, Session, Origin
<1>3. OneSessionPerLogin'
  BY <1>2 DEF IInv, OneContinues, OneSessionPerLogin
<1>4. ASSUME NEW r \in Requests, NEW s \in Sessions, Live(s)', Continues(r, session[s].origin.root)'
      PROVE  req'[r].parent = s
  BY <1>1, <1>2, <1>4 DEF IInv, OneContinues
<1>5. ASSUME NEW r \in Requests, NEW o \in Requests, NEW root \in Sessions,
             Continues(r, root)', Continues(o, root)', r # o
      PROVE  req'[r].parent = req'[o].parent /\ req'[r].parent # NoSession
  BY <1>1, <1>5 DEF IInv, OneContinues
<1>. QED
  BY <1>3, <1>4, <1>5 DEF OneContinues

LEMMA LinksStay ==
    ASSUME IInv, UNCHANGED <<token, spent>>,
           \A r \in Requests : req'[r].pc \in {"retiring", "resetting"} =>
               /\ req'[r].pc = req[r].pc /\ req'[r].mail = req[r].mail
               /\ req'[r].token = req[r].token /\ req'[r].seen = req[r].seen
    PROVE  LinksInv'
<1>1. LinksWorkOnce'
  BY DEF IInv, LinksInv, LinksWorkOnce, Unused
<1>2. \A t \in Tokens : (token[t] # NoRow /\ token[t].unused => Unspent(t))'
  BY DEF IInv, LinksInv, Unspent
<1>3. \A r \in Requests : (req[r].pc = "resetting" =>
          token[req[r].token].purpose = "password_reset" /\ Unspent(req[r].token))'
  BY DEF IInv, LinksInv, Unspent
<1>4. \A r, o \in Requests : (req[r].pc = "resetting" /\ req[o].pc = "resetting"
                               /\ req[r].token = req[o].token => r = o)'
  BY DEF IInv, LinksInv
<1>5. \A r \in Requests : (req[r].pc = "retiring" =>
          \A t \in Unused(req[r].mail) : t \in req[r].seen \/ token[t].overlapped)'
  BY DEF IInv, LinksInv, Unused
<1>. QED
  BY <1>1, <1>2, <1>3, <1>4, <1>5 DEF LinksInv

LEMMA RequestsAreCounted ==
    ASSUME NEW F \in SUBSET Requests
    PROVE  /\ IsFiniteSet(F) /\ Cardinality(F) \in Nat
           /\ Cardinality(Requests) \in Nat /\ Cardinality(F) <= Cardinality(Requests)
  BY AuthAssumption, FS_Subset, FS_CardinalityType

LEMMA LockoutStays ==
    ASSUME IInv, TypeOK',
           account = NoRow => account' = NoRow,
           account # NoRow => /\ account' # NoRow /\ account'.failures = account.failures
                              /\ account'.locked = account.locked,
           wrong' = wrong,
           Failing' \subseteq Failing
    PROVE  LockoutInv'
<1>1. Failing \in SUBSET Requests /\ IsFiniteSet(Failing)
  BY RequestsAreCounted DEF Failing
<1>2. Cardinality(Failing') <= Cardinality(Failing) /\ Cardinality(Failing') \in Nat
  BY <1>1, FS_Subset, FS_CardinalityType
<1>3. wrong \in Nat /\ MaxFailures \in Nat /\ Cardinality(Failing) \in Nat /\ Cardinality(Requests) \in Nat
  BY <1>1, RequestsAreCounted, AuthAssumption DEF IInv, TypeOK
<1>4. Cardinality(Failing)' = Cardinality(Failing')
  OBVIOUS
<1>. QED
  BY <1>2, <1>3, <1>4 DEF IInv, LockoutInv

(* an account that is not locked pays for every request in flight *)
LEMMA LockoutOpens ==
    ASSUME TypeOK', account' = NoRow => wrong' = 0,
           account' # NoRow =>
               wrong' <= account'.failures /\ ~ account'.locked /\ wrong' < MaxFailures
    PROVE  LockoutInv'
<1>1. Failing' \in SUBSET Requests
  BY DEF Failing
<1>2. /\ Cardinality(Failing') \in Nat /\ Cardinality(Requests) \in Nat
      /\ Cardinality(Failing') <= Cardinality(Requests)
  BY <1>1, RequestsAreCounted
<1>3. wrong' \in Nat /\ MaxFailures \in Nat \ {0}
  BY AuthAssumption DEF TypeOK
<1>4. Cardinality(Failing)' = Cardinality(Failing')
  OBVIOUS
<1>. QED
  BY <1>2, <1>3, <1>4 DEF LockoutInv

-----------------------------------------------------------------------------
(* Statements that only read: what they may carry into the request *)

LEMMA RequestMoves ==
    ASSUME IInv, NEW r \in Requests, NEW state \in Request, Goto(r, state), account # NoRow,
           UNCHANGED <<account, session, token, required, wrong, spent>>,
           state.pc \in {"succeeding", "marking", "rotating"} <=> state.origin # NoOrigin,
           state.origin # NoOrigin => Fits(state.origin),
           state.origin # NoOrigin /\ state.origin.root # NoSession => state.parent # NoSession,
           state.parent # NoSession =>
               /\ state.pc \in {"marking", "rotating"}
               /\ Live(state.parent)
               /\ state.origin.root = session[state.parent].origin.root,
           state.pc = "rotating" => state.parent # NoSession,
           state.pc # "issuing",
           state.pc = "retiring" => state.mail \in Purposes /\ state.seen = Unused(state.mail),
           state.pc = "resetting" => Usable(state.token, "password_reset"),
           state.pc = "failing" => ~ account.locked
    PROVE  IInv'
<1>1. req' = [req EXCEPT ![r] = state] /\ req \in [Requests -> Request]
  BY DEF Goto, IInv, TypeOK
<1>2. TypeOK'
  BY <1>1 DEF IInv, TypeOK
<1>3. AccountComesFirst'
  BY DEF AccountComesFirst
<1>4. ASSUME NEW o \in Requests PROVE PhaseInv(o)'
  <2>1. CASE o # r
    BY <1>1, <2>1 DEF IInv, PhaseInv
  <2>2. CASE o = r
    <3>1. req'[o] = state
      BY <1>1, <2>2
    <3>2. state.pc \in {"succeeding", "marking", "rotating", "issuing"} => state.origin # NoOrigin
      OBVIOUS
    <3>3. state.parent # NoSession => session[state.parent] # NoRow
      BY DEF Live
    <3>4. state.pc = "retiring" => state.seen \subseteq Tokens
      BY DEF Unused
    <3>5. state.pc = "resetting" => state.token \in Tokens /\ token[state.token] # NoRow
      BY DEF Usable, Unused
    <3>. QED
      BY <3>1, <3>2, <3>3, <3>4, <3>5 DEF PhaseInv
  <2>. QED
    BY <2>1, <2>2
<1>5. OriginsFit'
  <2>1. \A s \in Sessions : Live(s)' => Live(s)
    BY DEF Live
  <2>2. \A o \in Requests : req'[o].origin # NoOrigin => Fits(req'[o].origin)
    BY <1>1 DEF IInv, OriginsFit
  <2>. QED
    BY <2>1, <2>2 DEF IInv, OriginsFit, Fits
<1>6. OneContinues'
  <2>1. \A s \in Sessions : (Live(s) <=> Live(s)') /\ session'[s] = session[s]
    BY DEF Live
  <2>2. \A o \in Requests \ {r} : \A root : Continues(o, root)' <=> Continues(o, root)
    BY <1>1 DEF Continues
  <2>3. ASSUME NEW root \in Sessions, Continues(r, root)'
        PROVE  /\ state.parent # NoSession /\ req'[r].parent = state.parent /\ Live(state.parent)
               /\ state.parent \in Sessions /\ session[state.parent].origin.root = root
    BY <1>1, <2>3, AuthAssumption DEF Continues, Request
  <2>4. OneSessionPerLogin'
    BY <2>1 DEF IInv, OneContinues, OneSessionPerLogin
  <2>5. ASSUME NEW o \in Requests, NEW s \in Sessions,
               Live(s)', Continues(o, session[s].origin.root)'
        PROVE  req'[o].parent = s
    <3>1. Live(s) /\ session'[s] = session[s]
      BY <2>1, <2>5
    <3>2. session[s].origin.root \in Sessions
      BY <3>1 DEF IInv, TypeOK, OriginsFit, Live, Session, Origin
    <3>3. CASE o = r
      BY <2>3, <2>5, <3>1, <3>2, <3>3 DEF IInv, OneContinues, OneSessionPerLogin
    <3>4. CASE o # r
      BY <1>1, <2>2, <2>5, <3>1, <3>4 DEF IInv, OneContinues
    <3>. QED
      BY <3>3, <3>4
  <2>6. ASSUME NEW o \in Requests, NEW p \in Requests, NEW root \in Sessions,
               Continues(o, root)', Continues(p, root)', o # p
        PROVE  req'[o].parent = req'[p].parent /\ req'[o].parent # NoSession
    <3>1. ASSUME NEW q \in Requests \ {r}, Continues(r, root)', Continues(q, root)'
          PROVE  req'[q].parent = req'[r].parent /\ req'[r].parent # NoSession
      BY <1>1, <2>2, <2>3, <3>1 DEF IInv, OneContinues
    <3>2. CASE o # r /\ p # r
      BY <1>1, <2>2, <2>6, <3>2 DEF IInv, OneContinues
    <3>. QED
      BY <2>6, <3>1, <3>2
  <2>. QED
    BY <2>4, <2>5, <2>6 DEF OneContinues
<1>7. LinksInv'
  <2>1. \A o \in Requests \ {r} : req'[o] = req[o]
    BY <1>1
  <2>2. req'[r] = state
    BY <1>1
  <2>3. LinksWorkOnce' /\ \A t \in Tokens : (token[t] # NoRow /\ token[t].unused => Unspent(t))'
    BY DEF IInv, LinksInv, LinksWorkOnce, Unused, Unspent
  <2>4. state.pc = "resetting" => /\ state.token \in Tokens /\ token[state.token] # NoRow
                                  /\ token[state.token].unused
                                  /\ token[state.token].purpose = "password_reset"
                                  /\ ~ Held(state.token)
    BY DEF Usable, Unused
  <2>5. \A o \in Requests : (req[o].pc = "resetting" =>
            token[req[o].token].purpose = "password_reset" /\ Unspent(req[o].token))'
    BY <2>1, <2>2, <2>4 DEF IInv, LinksInv, Unspent
  <2>6. \A o, p \in Requests : (req[o].pc = "resetting" /\ req[p].pc = "resetting"
                                 /\ req[o].token = req[p].token => o = p)'
    BY <2>1, <2>2, <2>4 DEF IInv, LinksInv, Held
  <2>7. \A o \in Requests : (req[o].pc = "retiring" =>
            \A t \in Unused(req[o].mail) : t \in req[o].seen \/ token[t].overlapped)'
    BY <2>1, <2>2 DEF IInv, LinksInv, Unused
  <2>. QED
    BY <2>3, <2>5, <2>6, <2>7 DEF LinksInv
<1>8. LockoutInv'
  <2>1. CASE account.locked
    <3>1. Failing' \subseteq Failing
      BY <1>1, <2>1 DEF Failing
    <3>. QED
      BY <1>2, <3>1, LockoutStays
  <2>2. CASE ~ account.locked
    <3>1. wrong <= account.failures /\ wrong < MaxFailures
      BY <2>2 DEF IInv, LockoutInv
    <3>. QED
      BY <1>2, <2>2, <3>1, LockoutOpens
  <2>. QED
    BY <2>1, <2>2
<1>. QED
  BY <1>2, <1>3, <1>4, <1>5, <1>6, <1>7, <1>8 DEF IInv

LEMMA LoginReadStep ==
    ASSUME IInv, NEW r \in Requests, NEW secret \in Passwords, LoginRead(r, secret)
    PROVE  IInv'
<1>. DEFINE entered == [Idle EXCEPT !.pc = "succeeding", !.origin = From(secret)]
            refused == [Idle EXCEPT !.pc = "failing"]
<1>1. /\ account # NoRow /\ ~ account.locked
      /\ UNCHANGED <<account, session, token, required, wrong, spent>>
  BY DEF LoginRead
<1>2. CASE secret = account.password /\ Goto(r, entered)
  <2>1. /\ entered \in Request /\ entered.pc = "succeeding" /\ entered.origin = From(secret)
        /\ entered.parent = NoSession
    BY FromIsOrigin DEF Idle, Request
  <2>2. Fits(From(secret)) /\ From(secret).root = NoSession /\ From(secret) # NoOrigin
    BY <1>2, FromIsOrigin DEF Fits, From
  <2>. HIDE DEF entered
  <2>. QED
    BY <1>1, <1>2, <2>1, <2>2, RequestMoves
<1>3. CASE Goto(r, refused)
  <2>1. /\ refused \in Request /\ refused.pc = "failing" /\ refused.origin = NoOrigin
        /\ refused.parent = NoSession
    BY DEF Idle, Request
  <2>. HIDE DEF refused
  <2>. QED
    BY <1>1, <1>3, <2>1, RequestMoves
<1>. QED
  BY <1>2, <1>3 DEF LoginRead

LEMMA RefreshReadStep ==
    ASSUME IInv, NEW r \in Requests, NEW s \in Sessions, RefreshRead(r, s)
    PROVE  IInv'
<1>. DEFINE rotating == [Idle EXCEPT !.pc = "rotating", !.origin = session[s].origin, !.parent = s]
            state == Marked(rotating)
<1>1. /\ Live(s) /\ Goto(r, state)
      /\ UNCHANGED <<account, session, token, required, wrong, spent>>
  BY DEF RefreshRead
<1>2. /\ session[s].origin \in Origin /\ session[s].origin # NoOrigin /\ Fits(session[s].origin)
      /\ session[s].origin.root # NoSession
      /\ account # NoRow
  BY <1>1 DEF IInv, TypeOK, OriginsFit, AccountComesFirst, Live, Session
<1>3. /\ state \in Request /\ state.pc \in {"marking", "rotating"}
      /\ state.origin = session[s].origin /\ state.parent = s
  BY <1>2 DEF Marked, Idle, Request
<1>4. s # NoSession
  BY AuthAssumption
<1>. HIDE DEF state
<1>. QED
  BY <1>1, <1>2, <1>3, <1>4, RequestMoves

LEMMA RetireStep ==
    ASSUME IInv, NEW r \in Requests, TokenRetire(r) \/ RequestReset(r)
    PROVE  IInv'
<1>1. PICK purpose \in Purposes :
          /\ Goto(r, Retiring(purpose))
          /\ UNCHANGED <<account, session, token, required, wrong, spent>>
  BY DEF TokenRetire, RequestReset, Purposes
<1>2. account # NoRow
  BY DEF IInv, AccountComesFirst, TokenRetire, RequestReset
<1>. DEFINE state == Retiring(purpose)
<1>3. /\ state \in Request /\ state.pc = "retiring" /\ state.origin = NoOrigin
      /\ state.parent = NoSession /\ state.mail = purpose /\ state.seen = Unused(purpose)
  BY DEF Retiring, Idle, Request, Unused
<1>4. Goto(r, state)
  BY <1>1
<1>. HIDE DEF state
<1>. QED
  BY <1>1, <1>2, <1>3, <1>4, RequestMoves

LEMMA ResendStep ==
    ASSUME IInv, NEW r \in Requests, NEW s \in Sessions, Resend(r, s)
    PROVE  IInv'
<1>. DEFINE state == [Idle EXCEPT !.pc = "mailing"]
<1>1. /\ Goto(r, state) /\ Live(s)
      /\ UNCHANGED <<account, session, token, required, wrong, spent>>
  BY DEF Resend
<1>2. account # NoRow
  BY <1>1 DEF IInv, AccountComesFirst, Live
<1>3. /\ state \in Request /\ state.pc = "mailing" /\ state.origin = NoOrigin
      /\ state.parent = NoSession
  BY DEF Idle, Request
<1>. HIDE DEF state
<1>. QED
  BY <1>1, <1>2, <1>3, RequestMoves

LEMMA ResetBeginStep ==
    ASSUME IInv, NEW r \in Requests, NEW t \in Tokens, ResetBegin(r, t)
    PROVE  IInv'
<1>. DEFINE state == [Idle EXCEPT !.pc = "resetting", !.token = t,
                                  !.seen = {s \in Sessions : session[s] # NoRow}]
<1>1. /\ Goto(r, state) /\ Usable(t, "password_reset")
      /\ UNCHANGED <<account, session, token, required, wrong, spent>>
  BY DEF ResetBegin
<1>2. account # NoRow
  BY <1>1 DEF IInv, AccountComesFirst, Usable, Unused
<1>3. /\ state \in Request /\ state.pc = "resetting" /\ state.origin = NoOrigin
      /\ state.parent = NoSession /\ state.token = t
  BY DEF Idle, Request
<1>. HIDE DEF state
<1>. QED
  BY <1>1, <1>2, <1>3, RequestMoves

-----------------------------------------------------------------------------
(* The statements of a login and of issue_session *)

LEMMA FailureStep ==
    ASSUME IInv, NEW r \in Requests, RecordLoginFailure(r)
    PROVE  IInv'
<1>1. /\ req' = [req EXCEPT ![r] = Idle] /\ req \in [Requests -> Request] /\ req[r].pc = "failing"
      /\ UNCHANGED <<session, token, required, spent>> /\ wrong' = wrong + 1
  BY DEF RecordLoginFailure, Respond, Goto, IInv, TypeOK
<1>2. account \in Account
  BY <1>1 DEF IInv, TypeOK, AccountComesFirst
<1>3. /\ account' \in Account /\ account'.password = account.password
      /\ account'.failures = account.failures + 1
      /\ account'.locked <=> account.locked \/ account.failures + 1 >= MaxFailures
  <2>1. account' = [account EXCEPT !.failures = account.failures + 1,
                                   !.locked = account.locked \/ ReachesLimit(account.failures)]
    BY DEF RecordLoginFailure
  <2>2. ReachesLimit(account.failures) <=> account.failures + 1 >= MaxFailures
    BY DEF ReachesLimit
  <2>3. account.failures + 1 \in Nat
    BY <1>2 DEF Account
  <2>. QED
    BY <1>2, <2>1, <2>2, <2>3, Zenon DEF Account
<1>4. TypeOK'
  BY <1>1, <1>3, IdleIsQuiet DEF IInv, TypeOK
<1>5. account # NoRow /\ account' # NoRow
  BY <1>2, <1>3, NullsAssumption
<1>6. \A o \in Requests : PhaseInv(o)'
  BY <1>1, IdleIsQuiet DEF IInv, PhaseInv
<1>7. OriginsFit'
  BY <1>1, <1>3, <1>5, IdleIsQuiet, OriginsStay DEF Live
<1>8. OneContinues'
  BY <1>1, IdleIsQuiet, DescentsStay DEF Live
<1>9. LinksInv'
  BY <1>1, IdleIsQuiet, LinksStay
<1>10. LockoutInv'
  <2>1. wrong \in Nat /\ wrong <= account.failures /\ account.failures \in Nat /\ MaxFailures \in Nat
    BY <1>2, <1>5, AuthAssumption DEF IInv, TypeOK, LockoutInv, Account
  <2>2. Failing \in SUBSET Requests /\ IsFiniteSet(Failing) /\ Failing' = Failing \ {r} /\ r \in Failing
    BY <1>1, IdleIsQuiet, RequestsAreCounted DEF Failing
  <2>3. Cardinality(Failing') = Cardinality(Failing) - 1
    BY <2>2, FS_RemoveElement
  <2>4. Cardinality(Failing) \in Nat /\ Cardinality(Requests) \in Nat
    BY <2>2, RequestsAreCounted
  <2>5. Cardinality(Failing)' = Cardinality(Failing')
    OBVIOUS
  <2>6. wrong + Cardinality(Failing) < MaxFailures + Cardinality(Requests)
    BY DEF IInv, LockoutInv
  <2>7. (wrong + Cardinality(Failing) < MaxFailures + Cardinality(Requests))'
    BY <1>1, <2>1, <2>3, <2>4, <2>5, <2>6
  <2>8. ~ account'.locked => wrong' < MaxFailures
    BY <1>1, <1>3, <2>1
  <2>. QED
    BY <1>1, <1>3, <1>5, <2>1, <2>7, <2>8 DEF LockoutInv
<1>. QED
  BY <1>4, <1>5, <1>6, <1>7, <1>8, <1>9, <1>10 DEF IInv, AccountComesFirst

LEMMA SuccessStep ==
    ASSUME IInv, NEW r \in Requests, RecordLoginSuccess(r)
    PROVE  IInv'
<1>. DEFINE issuing == [req[r] EXCEPT !.pc = "issuing"]
            state == Marked(issuing)
<1>1. /\ req' = [req EXCEPT ![r] = state] /\ req \in [Requests -> Request]
      /\ req[r].pc = "succeeding"
      /\ UNCHANGED <<session, token, required, spent>> /\ wrong' = 0
  BY DEF RecordLoginSuccess, Goto, IInv, TypeOK
<1>2. /\ req[r] \in Request /\ req[r].origin # NoOrigin /\ req[r].parent = NoSession
      /\ account \in Account
  BY <1>1 DEF IInv, TypeOK, AccountComesFirst, PhaseInv
<1>3. /\ state \in Request /\ state.pc \in {"marking", "issuing"} /\ state.origin = req[r].origin
      /\ state.parent = req[r].parent
  BY <1>2 DEF Marked, Request
<1>4. /\ account' \in Account /\ account'.password = account.password
      /\ account'.failures = 0 /\ ~ account'.locked
  BY <1>2 DEF RecordLoginSuccess, Account
<1>5. account # NoRow /\ account' # NoRow
  BY <1>2, <1>4, NullsAssumption
<1>. HIDE DEF state
<1>6. TypeOK'
  BY <1>1, <1>3, <1>4 DEF IInv, TypeOK
<1>7. \A o \in Requests : PhaseInv(o)'
  BY <1>1, <1>2, <1>3 DEF IInv, PhaseInv
<1>8. OriginsFit'
  BY <1>1, <1>3, <1>4, <1>5, OriginsStay DEF Live
<1>9. OneContinues'
  BY <1>1, <1>3, DescentsStay DEF Live
<1>10. LinksInv'
  BY <1>1, <1>3, LinksStay
<1>11. LockoutInv'
  BY <1>1, <1>4, <1>5, <1>6, AuthAssumption, LockoutOpens
<1>. QED
  BY <1>5, <1>6, <1>7, <1>8, <1>9, <1>10, <1>11 DEF IInv, AccountComesFirst

LEMMA MarkStep ==
    ASSUME IInv, NEW r \in Requests, MarkVerified(r)
    PROVE  IInv'
<1>. DEFINE state == [req[r] EXCEPT !.pc = IF req[r].parent = NoSession THEN "issuing" ELSE "rotating"]
<1>1. /\ req' = [req EXCEPT ![r] = state] /\ req \in [Requests -> Request]
      /\ req[r].pc = "marking"
      /\ UNCHANGED <<session, token, required, wrong, spent>>
  BY DEF MarkVerified, Goto, IInv, TypeOK
<1>2. /\ req[r] \in Request /\ req[r].origin # NoOrigin
      /\ req[r].parent # NoSession => session[req[r].parent] # NoRow
      /\ account \in Account
  BY <1>1 DEF IInv, TypeOK, AccountComesFirst, PhaseInv
<1>3. /\ state \in Request /\ state.origin = req[r].origin /\ state.parent = req[r].parent
      /\ state.pc = IF req[r].parent = NoSession THEN "issuing" ELSE "rotating"
  BY <1>2 DEF Request
<1>4. /\ account' \in Account /\ account'.password = account.password
      /\ account'.failures = account.failures /\ account'.locked = account.locked
  BY <1>2 DEF MarkVerified, Account
<1>5. account # NoRow /\ account' # NoRow
  BY <1>2, <1>4, NullsAssumption
<1>. HIDE DEF state
<1>6. TypeOK'
  BY <1>1, <1>3, <1>4 DEF IInv, TypeOK
<1>7. \A o \in Requests : PhaseInv(o)'
  BY <1>1, <1>2, <1>3 DEF IInv, PhaseInv
<1>8. OriginsFit'
  BY <1>1, <1>3, <1>4, <1>5, OriginsStay DEF Live
<1>9. OneContinues'
  BY <1>1, <1>3, DescentsStay DEF Live
<1>10. LinksInv'
  BY <1>1, <1>3, LinksStay
<1>11. LockoutInv'
  <2>1. Failing' \subseteq Failing
    BY <1>1, <1>3 DEF Failing
  <2>. QED
    BY <1>1, <1>4, <1>5, <1>6, <2>1, LockoutStays
<1>. QED
  BY <1>5, <1>6, <1>7, <1>8, <1>9, <1>10, <1>11 DEF IInv, AccountComesFirst

LEMMA SignUpStep ==
    ASSUME IInv, NEW r \in Requests, NEW secret \in Passwords, SignUp(r, secret)
    PROVE  IInv'
<1>. DEFINE state == [Idle EXCEPT !.pc = "issuing", !.origin = From(secret),
                                  !.mail = IF required THEN "email_verification" ELSE NoRow]
<1>1. /\ req' = [req EXCEPT ![r] = state] /\ req \in [Requests -> Request] /\ account = NoRow
      /\ account' = [password |-> secret, failures |-> 0, locked |-> FALSE, verified |-> ~ required]
      /\ UNCHANGED <<session, token, required, wrong, spent>>
  BY DEF SignUp, Goto, IInv, TypeOK
<1>2. /\ state \in Request /\ state.pc = "issuing" /\ state.origin = From(secret)
      /\ state.parent = NoSession
  BY FromIsOrigin DEF Idle, Request, Purposes
<1>3. account' \in Account
  BY <1>1 DEF Account, IInv, TypeOK
<1>4. account' # NoRow
  BY <1>3, NullsAssumption
<1>5. /\ \A s \in Sessions : session[s] = NoRow
      /\ \A o \in Requests : req[o].pc = "idle" /\ req[o].origin = NoOrigin
  BY <1>1 DEF IInv, AccountComesFirst, PhaseInv
<1>6. /\ From(secret) # NoOrigin /\ From(secret).root = NoSession /\ From(secret).proof = account'.password
      /\ account'.failures = 0 /\ ~ account'.locked
  BY <1>1, FromIsOrigin DEF From
<1>. HIDE DEF state
<1>7. TypeOK'
  BY <1>1, <1>2, <1>3 DEF IInv, TypeOK
<1>8. \A o \in Requests : PhaseInv(o)'
  BY <1>1, <1>2, <1>6 DEF IInv, PhaseInv
<1>9. OriginsFit'
  BY <1>1, <1>2, <1>5, <1>6 DEF OriginsFit, Fits, Live
<1>10. OneContinues'
  BY <1>1, <1>2, <1>5, <1>6, DescentsStay DEF Live
<1>11. LinksInv'
  BY <1>1, <1>2, LinksStay
<1>12. LockoutInv'
  BY <1>1, <1>4, <1>6, <1>7, AuthAssumption, LockoutOpens DEF IInv, LockoutInv
<1>. QED
  BY <1>4, <1>7, <1>8, <1>9, <1>10, <1>11, <1>12 DEF IInv, AccountComesFirst

-----------------------------------------------------------------------------
(* Sessions come and go *)

LEMMA IssueStep ==
    ASSUME IInv, NEW r \in Requests, NEW s \in Sessions, IssueSession(r, s)
    PROVE  IInv'
<1>. DEFINE origin == req[r].origin
            state == IF req[r].mail = NoRow THEN Idle ELSE [Idle EXCEPT !.pc = "mailing"]
            new == NewSession(origin, s)
<1>1. /\ req' = [req EXCEPT ![r] = state] /\ req \in [Requests -> Request] /\ req[r].pc = "issuing"
      /\ session[s] = NoRow /\ session' = [session EXCEPT ![s] = new]
      /\ session \in [Sessions -> Session \cup {NoRow}]
      /\ UNCHANGED <<account, token, required, wrong, spent>>
  BY DEF IssueSession, Respond, Goto, IInv, TypeOK
<1>2. /\ state \in Request /\ state.pc \in {"idle", "mailing"} /\ state.origin = NoOrigin
      /\ state.parent = NoSession
  BY DEF Idle, Request
<1>3. /\ origin \in Origin /\ origin # NoOrigin /\ Fits(origin) /\ account # NoRow
      /\ req[r].parent = NoSession
  BY <1>1 DEF IInv, TypeOK, PhaseInv, OriginsFit, AccountComesFirst, Request
<1>4. /\ new \in Session /\ ~ new.revoked /\ ~ new.expired /\ new.origin \in Origin
      /\ new.origin.proof = origin.proof
      /\ new.origin.root = IF origin.root = NoSession THEN s ELSE origin.root
  BY <1>3 DEF NewSession, Session, Origin
<1>5. new # NoRow /\ new.origin # NoOrigin
  BY <1>4, NullsAssumption
<1>. HIDE DEF state, new
<1>6. TypeOK'
  BY <1>1, <1>2, <1>4 DEF IInv, TypeOK
<1>7. /\ session'[s] = new /\ Live(s)' /\ ~ Live(s)
      /\ \A u \in Sessions \ {s} : session'[u] = session[u] /\ (Live(u)' <=> Live(u))
  BY <1>1, <1>4, <1>5 DEF Live
<1>8. \A o \in Requests : PhaseInv(o)'
  BY <1>1, <1>2, <1>5, <1>7 DEF IInv, PhaseInv
<1>9. OriginsFit'
  <2>1. ASSUME NEW o, Fits(o), o.root \in Sessions \cup {NoSession} PROVE Fits(o)'
    BY <1>1, <1>5, <1>7, <2>1 DEF Fits
  <2>2. \A u \in Sessions \ {s} : Live(u) => session[u].origin \in Origin
    BY DEF IInv, TypeOK, OriginsFit, Live, Session
  <2>3. ASSUME NEW u \in Sessions \ {s}, Live(u)'
        PROVE  /\ (session[u].origin # NoOrigin)' /\ (session[u].origin.root # NoSession)'
               /\ Fits(session[u].origin)'
    BY <1>7, <2>1, <2>2, <2>3 DEF IInv, OriginsFit, Origin
  <2>4. /\ (session[s].origin # NoOrigin)' /\ (session[s].origin.root # NoSession)'
        /\ Fits(session[s].origin)'
    <3>1. new.origin.root # NoSession /\ new.origin.proof \in {account.password, Overtaken}
      BY <1>3, <1>4, AuthAssumption DEF Fits
    <3>2. new.origin.root \in Sessions /\ session'[new.origin.root] # NoRow
      BY <1>1, <1>3, <1>4, <1>5, <1>7 DEF Fits, Origin
    <3>. QED
      BY <1>1, <1>5, <1>7, <3>1, <3>2 DEF Fits
  <2>5. ASSUME NEW o \in Requests, req'[o].origin # NoOrigin PROVE Fits(req[o].origin)'
    <3>1. req'[o].origin = req[o].origin /\ req[o].origin \in Origin
      BY <1>1, <1>2, <2>5 DEF IInv, TypeOK, Request
    <3>. QED
      BY <2>1, <2>5, <3>1 DEF IInv, OriginsFit, Origin
  <2>6. ASSUME NEW u \in Sessions, Live(u)'
        PROVE  /\ (session[u].origin # NoOrigin)' /\ (session[u].origin.root # NoSession)'
               /\ Fits(session[u].origin)'
    BY <2>3, <2>4, <2>6
  <2>. QED
    BY <2>5, <2>6 DEF OriginsFit
<1>10. OneContinues'
  <2>. DEFINE root == new.origin.root
  <2>1. \A u \in Sessions \ {s} : Live(u) => session[u].origin.root # root
    <3>1. \A u \in Sessions : Live(u) => /\ session[u].origin.root \in Sessions
                                          /\ session[session[u].origin.root] # NoRow
      BY DEF IInv, TypeOK, OriginsFit, Live, Session, Origin, Fits
    <3>2. CASE origin.root = NoSession
      BY <1>1, <1>4, <3>1, <3>2
    <3>3. CASE origin.root # NoSession
      <4>1. Continues(r, origin.root)
        BY <1>3 DEF Continues
      <4>. QED
        BY <1>3, <1>4, <3>3, <4>1, AuthAssumption DEF IInv, OneContinues
    <3>. QED
      BY <3>2, <3>3
  <2>2. ASSUME NEW o \in Requests, NEW x \in Sessions, Continues(o, x)'
        PROVE  /\ o # r /\ Continues(o, x) /\ req'[o] = req[o] /\ x # root
    <3>1. o # r /\ req'[o] = req[o]
      BY <1>1, <1>2, <2>2 DEF Continues
    <3>2. req[o].parent # NoSession => req[o].parent \in Sessions \ {s}
      BY <1>1 DEF IInv, TypeOK, PhaseInv, Request
    <3>3. Continues(o, x)
      BY <1>7, <2>2, <3>1, <3>2 DEF Continues
    <3>4. req[o].origin.root = x /\ Fits(req[o].origin) /\ x # NoSession
      BY <3>3, AuthAssumption DEF Continues, IInv, OriginsFit
    <3>5. CASE origin.root = NoSession
      BY <1>1, <1>4, <3>1, <3>3, <3>4, <3>5 DEF Fits
    <3>6. CASE origin.root # NoSession
      <4>1. origin.root \in Sessions /\ Continues(r, origin.root)
        BY <1>3, <3>6 DEF Continues, Origin
      <4>. QED
        BY <1>3, <1>4, <3>1, <3>3, <3>6, <4>1 DEF IInv, OneContinues
    <3>. QED
      BY <3>1, <3>3, <3>5, <3>6
  <2>3. \A u \in Sessions : Live(u)' => session'[u].origin.root \in Sessions
    BY <1>6, <1>9 DEF OriginsFit, TypeOK, Live, Session, Origin
  <2>4. OneSessionPerLogin'
    BY <1>7, <2>1 DEF IInv, OneContinues, OneSessionPerLogin
  <2>5. ASSUME NEW o \in Requests, NEW u \in Sessions, Live(u)', Continues(o, session[u].origin.root)'
        PROVE  req'[o].parent = u
    BY <1>7, <2>2, <2>3, <2>5 DEF IInv, OneContinues
  <2>6. ASSUME NEW o \in Requests, NEW p \in Requests, NEW x \in Sessions,
               Continues(o, x)', Continues(p, x)', o # p
        PROVE  req'[o].parent = req'[p].parent /\ req'[o].parent # NoSession
    BY <2>2, <2>6 DEF IInv, OneContinues
  <2>. QED
    BY <2>4, <2>5, <2>6 DEF OneContinues
<1>11. LinksInv'
  BY <1>1, <1>2, LinksStay
<1>12. LockoutInv'
  <2>1. Failing' \subseteq Failing
    BY <1>1, <1>2 DEF Failing
  <2>. QED
    BY <1>1, <1>3, <1>6, <2>1, LockoutStays
<1>. QED
  BY <1>1, <1>3, <1>6, <1>8, <1>9, <1>10, <1>11, <1>12 DEF IInv, AccountComesFirst

(* sessions end: logout, expiry *)
LEMMA EndStep ==
    ASSUME IInv, NEW s \in Sessions, Logout(s) \/ SessionExpires(s)
    PROVE  IInv'
<1>1. UNCHANGED <<account, token, required, req, wrong, spent>> /\ session[s] # NoRow
  BY DEF Logout, SessionExpires, Live
<1>2. session[s] \in Session
  BY <1>1 DEF IInv, TypeOK
<1>3. /\ session' \in [Sessions -> Session \cup {NoRow}]
      /\ \A u \in Sessions : session'[u] = NoRow <=> session[u] = NoRow
      /\ \A u \in Sessions \ {s} : session'[u] = session[u]
      /\ ~ Live(s)'
      /\ session[s].revoked => session'[s].revoked
  <2>1. CASE Logout(s)
    <3>1. session' = Revoked({s})
      BY <2>1 DEF Logout
    <3>2. TypeOK
      BY DEF IInv
    <3>. QED
      BY <1>1, <3>1, <3>2, RevokedRows DEF Live
  <2>2. CASE SessionExpires(s)
    <3>1. session' = [session EXCEPT ![s] = [Ended(session[s]) EXCEPT !.expired = TRUE]]
      BY <2>2 DEF SessionExpires
    <3>. DEFINE ended == [Ended(session[s]) EXCEPT !.expired = TRUE]
    <3>2. ended \in Session /\ ended.expired /\ ended.revoked = session[s].revoked
      BY <1>2 DEF Ended, Session
    <3>3. ended # NoRow
      BY <3>2, NullsAssumption
    <3>4. session' = [session EXCEPT ![s] = ended]
      BY <3>1
    <3>. HIDE DEF ended
    <3>. QED
      BY <1>1, <3>2, <3>3, <3>4 DEF Live, IInv, TypeOK
  <2>. QED
    BY <2>1, <2>2
<1>4. TypeOK'
  BY <1>1, <1>3 DEF IInv, TypeOK
<1>5. AccountComesFirst' /\ \A o \in Requests : PhaseInv(o)'
  <2>1. \A o \in Requests : req[o] \in Request
    BY DEF IInv, TypeOK
  <2>2. AccountComesFirst'
    BY <1>1, <1>3 DEF IInv, AccountComesFirst
  <2>. QED
    BY <1>1, <1>3, <2>1, <2>2 DEF IInv, PhaseInv, Request
<1>6. \A u \in Sessions : Live(u)' => Live(u) /\ session'[u] = session[u]
  BY <1>3 DEF Live
<1>7. OriginsFit'
  BY <1>1, <1>3, <1>6, OriginsStay
<1>8. OneContinues'
  BY <1>1, <1>3, <1>6, DescentsStay
<1>9. LinksInv'
  BY <1>1, LinksStay
<1>10. LockoutInv'
  BY <1>1, <1>4, LockoutStays DEF Failing
<1>. QED
  BY <1>4, <1>5, <1>7, <1>8, <1>9, <1>10 DEF IInv

LEMMA RevokeStep ==
    ASSUME IInv, NEW r \in Requests, RefreshRevoke(r)
    PROVE  IInv'
<1>. DEFINE old == req[r].parent
            state == [req[r] EXCEPT !.pc = "issuing", !.parent = NoSession,
                                    !.origin.root = IF session[old].revoked THEN NoSession ELSE @]
<1>1. /\ req' = [req EXCEPT ![r] = state] /\ req \in [Requests -> Request] /\ req[r].pc = "rotating"
      /\ session' = Revoked({old})
      /\ session \in [Sessions -> Session \cup {NoRow}]
      /\ UNCHANGED <<account, token, required, wrong, spent>>
  BY DEF RefreshRevoke, RevokeOld, Goto, IInv, TypeOK
<1>2. /\ req[r] \in Request /\ req[r].origin \in Origin /\ req[r].origin # NoOrigin
      /\ Fits(req[r].origin) /\ account # NoRow
      /\ old = req[r].parent /\ old \in Sessions /\ old # NoSession /\ session[old] # NoRow
  BY <1>1 DEF IInv, TypeOK, PhaseInv, OriginsFit, AccountComesFirst, Request
<1>3. /\ state.pc = "issuing" /\ state.parent = NoSession /\ state \in Request
      /\ state.origin \in Origin /\ state.origin.proof = req[r].origin.proof
      /\ state.origin.root = IF session[old].revoked THEN NoSession ELSE req[r].origin.root
  BY <1>2 DEF Request, Origin
<1>4. state.origin # NoOrigin
  BY <1>3, NullsAssumption
<1>. HIDE DEF state, old
<1>5. /\ session' \in [Sessions -> Session \cup {NoRow}]
      /\ \A u \in Sessions : session'[u] = NoRow <=> session[u] = NoRow
      /\ \A u \in Sessions \ {old} : session'[u] = session[u]
      /\ session'[old].revoked
      /\ \A u \in Sessions : Live(u)' => u # old
  <2>1. /\ Revoked({old}) \in [Sessions -> Session \cup {NoRow}]
        /\ \A u \in Sessions :
              /\ Revoked({old})[u] = NoRow <=> session[u] = NoRow
              /\ u \notin {old} => Revoked({old})[u] = session[u]
              /\ u \in {old} /\ session[u] # NoRow => Revoked({old})[u].revoked
    BY RevokedRows DEF IInv
  <2>2. session'[old].revoked
    BY <1>1, <1>2, <2>1
  <2>3. \A u \in Sessions : Live(u)' => u # old
    BY <2>2 DEF Live
  <2>4. \A u \in Sessions \ {old} : session'[u] = session[u]
    BY <1>1, <2>1
  <2>5. /\ session' \in [Sessions -> Session \cup {NoRow}]
        /\ \A u \in Sessions : session'[u] = NoRow <=> session[u] = NoRow
    BY <1>1, <2>1
  <2>. QED
    BY <2>2, <2>3, <2>4, <2>5
<1>6. \A u \in Sessions : Live(u)' => u # old /\ Live(u) /\ session'[u] = session[u]
  BY <1>5 DEF Live
<1>7. TypeOK'
  BY <1>1, <1>3, <1>5 DEF IInv, TypeOK
<1>8. \A o \in Requests : PhaseInv(o)'
  <2>1. \A o \in Requests \ {r} : req'[o] = req[o] /\ req[o] \in Request
    BY <1>1
  <2>2. ASSUME NEW o \in Requests \ {r} PROVE PhaseInv(o)'
    <3>1. req'[o] = req[o] /\ PhaseInv(o)
      BY <2>1 DEF IInv
    <3>2. req[o].parent # NoSession => session'[req[o].parent] # NoRow
      BY <1>5, <2>1, <3>1 DEF PhaseInv, Request
    <3>. QED
      BY <1>1, <3>1, <3>2 DEF PhaseInv
  <2>3. PhaseInv(r)'
    BY <1>1, <1>3, <1>4 DEF PhaseInv
  <2>. QED
    BY <2>2, <2>3
<1>9. OriginsFit'
  <2>1. ASSUME NEW o \in Origin, Fits(o) PROVE Fits(o)'
    BY <1>1, <1>5, <2>1 DEF Fits, Origin
  <2>2. ASSUME NEW u \in Sessions, Live(u)'
        PROVE  /\ (session[u].origin # NoOrigin)' /\ (session[u].origin.root # NoSession)'
               /\ Fits(session[u].origin)'
    <3>1. Live(u) /\ session'[u] = session[u]
      BY <1>6, <2>2
    <3>2. /\ session[u].origin # NoOrigin /\ session[u].origin.root # NoSession
          /\ Fits(session[u].origin) /\ session[u].origin \in Origin
      BY <3>1 DEF IInv, TypeOK, OriginsFit, Live, Session
    <3>. QED
      BY <2>1, <3>1, <3>2
  <2>3. ASSUME NEW o \in Requests, req'[o].origin # NoOrigin PROVE Fits(req[o].origin)'
    <3>1. CASE o # r
      BY <1>1, <2>1, <2>3, <3>1 DEF IInv, TypeOK, OriginsFit, Request
    <3>2. CASE o = r
      <4>1. Fits(state.origin)
        BY <1>2, <1>3 DEF Fits
      <4>. QED
        BY <1>1, <1>3, <2>1, <3>2, <4>1
    <3>. QED
      BY <3>1, <3>2
  <2>. QED
    BY <2>2, <2>3 DEF OriginsFit
<1>10. OneContinues'
  <2>1. ASSUME NEW o \in Requests \ {r}, NEW x \in Sessions, Continues(o, x)'
        PROVE  /\ Continues(o, x) /\ req'[o] = req[o] /\ req[o].parent # old
    <3>1. req'[o] = req[o] /\ req[o] \in Request /\ PhaseInv(o)
      BY <1>1 DEF IInv
    <3>2. req[o].parent # old
      BY <1>2, <1>5, <2>1, <3>1 DEF Continues
    <3>3. req[o].parent # NoSession => req[o].parent \in Sessions
      BY <3>1 DEF Request
    <3>. QED
      BY <1>5, <2>1, <3>1, <3>2, <3>3 DEF Continues
  <2>2. ASSUME NEW x \in Sessions, Continues(r, x)'
        PROVE  Continues(r, x) /\ req'[r].parent = NoSession
    BY <1>1, <1>2, <1>3, <2>2, AuthAssumption DEF Continues
  <2>3. \A u \in Sessions : Live(u) => session[u].origin.root \in Sessions
    BY DEF IInv, TypeOK, OriginsFit, Live, Session, Origin
  <2>4. OneSessionPerLogin'
    BY <1>6 DEF IInv, OneContinues, OneSessionPerLogin
  <2>5. ASSUME NEW o \in Requests, NEW u \in Sessions, Live(u)', Continues(o, session[u].origin.root)'
        PROVE  req'[o].parent = u
    <3>1. Live(u) /\ session'[u] = session[u] /\ u # old /\ session[u].origin.root \in Sessions
      BY <1>6, <2>3, <2>5
    <3>2. CASE o # r
      BY <2>1, <2>5, <3>1, <3>2 DEF IInv, OneContinues
    <3>3. CASE o = r
      BY <1>2, <2>2, <2>5, <3>1, <3>3 DEF IInv, OneContinues
    <3>. QED
      BY <3>2, <3>3
  <2>6. ASSUME NEW o \in Requests, NEW p \in Requests, NEW x \in Sessions,
               Continues(o, x)', Continues(p, x)', o # p
        PROVE  req'[o].parent = req'[p].parent /\ req'[o].parent # NoSession
    <3>1. ASSUME NEW q \in Requests \ {r}, Continues(r, x)', Continues(q, x)' PROVE FALSE
      BY <1>2, <2>1, <2>2, <3>1 DEF IInv, OneContinues
    <3>2. CASE o # r /\ p # r
      BY <2>1, <2>6, <3>2 DEF IInv, OneContinues
    <3>. QED
      BY <2>6, <3>1, <3>2
  <2>. QED
    BY <2>4, <2>5, <2>6 DEF OneContinues
<1>11. LinksInv'
  BY <1>1, <1>3, LinksStay
<1>12. LockoutInv'
  <2>1. Failing' \subseteq Failing
    BY <1>1, <1>3 DEF Failing
  <2>. QED
    BY <1>1, <1>2, <1>7, <2>1, LockoutStays
<1>. QED
  BY <1>1, <1>2, <1>7, <1>8, <1>9, <1>10, <1>11, <1>12 DEF IInv, AccountComesFirst

-----------------------------------------------------------------------------
(* The clock, and a restart *)

LEMMA LapseStep ==
    ASSUME IInv, LockLapses
    PROVE  IInv'
<1>1. UNCHANGED <<session, token, required, req, spent>> /\ wrong' = 0 /\ account \in Account
  BY DEF LockLapses, IInv, TypeOK
<1>2. /\ account' \in Account /\ account'.password = account.password
      /\ account'.failures = account.failures /\ ~ account'.locked
  BY <1>1 DEF LockLapses, Account
<1>3. account # NoRow /\ account' # NoRow
  BY <1>1, <1>2, NullsAssumption
<1>4. TypeOK'
  BY <1>1, <1>2 DEF IInv, TypeOK
<1>5. AccountComesFirst' /\ \A o \in Requests : PhaseInv(o)'
  BY <1>1, <1>3 DEF IInv, AccountComesFirst, PhaseInv
<1>6. OriginsFit'
  BY <1>1, <1>2, <1>3, OriginsStay DEF Live
<1>7. OneContinues'
  BY <1>1, DescentsStay DEF Live
<1>8. LinksInv'
  BY <1>1, LinksStay
<1>9. LockoutInv'
  BY <1>1, <1>2, <1>3, <1>4, AuthAssumption, LockoutOpens DEF Account
<1>. QED
  BY <1>4, <1>5, <1>6, <1>7, <1>8, <1>9 DEF IInv

LEMMA RestartStep ==
    ASSUME IInv, Restart
    PROVE  IInv'
<1>1. /\ UNCHANGED <<account, session, token, wrong, spent>> /\ required' \in BOOLEAN
      /\ req' = [r \in Requests |-> Idle]
  BY DEF Restart
<1>2. TypeOK'
  BY <1>1, IdleIsQuiet DEF IInv, TypeOK
<1>3. AccountComesFirst' /\ \A o \in Requests : PhaseInv(o)'
  BY <1>1, IdleIsQuiet DEF IInv, AccountComesFirst, PhaseInv
<1>4. OriginsFit'
  BY <1>1, IdleIsQuiet, OriginsStay DEF Live
<1>5. OneContinues'
  BY <1>1, IdleIsQuiet, DescentsStay DEF Live
<1>6. LinksInv'
  BY <1>1, IdleIsQuiet, LinksStay
<1>7. LockoutInv'
  BY <1>1, <1>2, IdleIsQuiet, LockoutStays DEF Failing
<1>. QED
  BY <1>2, <1>3, <1>4, <1>5, <1>6, <1>7 DEF IInv

-----------------------------------------------------------------------------
(* Links are used and retired *)

(* one link is used up by what it was issued for, or expires; the requests *)
(* that hold other links, or are about to issue one, go on                  *)
LEMMA LinksAreUsed ==
    ASSUME IInv, TypeOK', NEW t \in Tokens, token[t] # NoRow, token' = Used({t}),
           \A u \in Tokens \ {t} : spent'[u] = spent[u],
           \A p \in Purposes : spent'[t][p] <= IF token[t].purpose = p THEN 1 ELSE 0,
           \A o \in Requests : req'[o].pc \in {"retiring", "resetting"} =>
               /\ req'[o].pc = req[o].pc /\ req'[o].mail = req[o].mail
               /\ req'[o].token = req[o].token /\ req'[o].seen = req[o].seen,
           \A o \in Requests : req'[o].pc = "resetting" /\ req[o].token = t => spent' = spent
    PROVE  LinksInv'
<1>1. /\ \A u \in Tokens : token'[u] = NoRow <=> token[u] = NoRow
      /\ \A u \in Tokens \ {t} : token'[u] = token[u]
      /\ \A u \in Tokens : token[u] # NoRow => token'[u].purpose = token[u].purpose
      /\ ~ token'[t].unused
  BY UsedRows DEF IInv
<1>2. \A p \in Purposes : \A u \in Unused(p)' : u \in Unused(p) /\ u # t /\ token'[u] = token[u]
  BY <1>1 DEF Unused
<1>3. LinksWorkOnce'
  <2>1. ASSUME NEW u \in Tokens, NEW p \in Purposes
        PROVE  (spent[u][p] <= IF token[u] # NoRow /\ token[u].purpose = p THEN 1 ELSE 0)'
    <3>1. CASE u = t
      BY <1>1, <3>1
    <3>2. CASE u # t
      <4>1. token'[u] = token[u] /\ spent'[u] = spent[u]
        BY <1>1, <3>2
      <4>2. spent[u][p] <= IF token[u] # NoRow /\ token[u].purpose = p THEN 1 ELSE 0
        BY DEF IInv, LinksInv, LinksWorkOnce
      <4>. QED
        BY <4>1, <4>2
    <3>. QED
      BY <3>1, <3>2
  <2>2. ASSUME NEW p \in Purposes, NEW u \in Unused(p)', NEW w \in Unused(p)', u # w
        PROVE  (token[u].overlapped \/ token[w].overlapped)'
    BY <1>2, <2>2 DEF IInv, LinksInv, LinksWorkOnce
  <2>. QED
    BY <2>1, <2>2 DEF LinksWorkOnce
<1>4. ASSUME NEW u \in Tokens, token'[u] # NoRow, token'[u].unused PROVE Unspent(u)'
  <2>1. u # t /\ token'[u] = token[u] /\ spent'[u] = spent[u]
    BY <1>1, <1>4
  <2>2. Unspent(u)
    BY <1>4, <2>1 DEF IInv, LinksInv
  <2>. QED
    BY <2>1, <2>2 DEF Unspent
<1>5. ASSUME NEW o \in Requests, req'[o].pc = "resetting"
      PROVE  (token[req[o].token].purpose = "password_reset" /\ Unspent(req[o].token))'
  <2>1. /\ req[o].pc = "resetting" /\ req'[o].token = req[o].token
        /\ req[o].token \in Tokens /\ token[req[o].token] # NoRow
        /\ token[req[o].token].purpose = "password_reset" /\ Unspent(req[o].token)
    BY <1>5 DEF IInv, LinksInv, PhaseInv
  <2>2. spent'[req[o].token] = spent[req[o].token]
    BY <1>5, <2>1
  <2>3. token'[req[o].token].purpose = "password_reset"
    BY <1>1, <2>1
  <2>. QED
    BY <2>1, <2>2, <2>3 DEF Unspent
<1>6. \A o, q \in Requests : (req[o].pc = "resetting" /\ req[q].pc = "resetting"
                               /\ req[o].token = req[q].token => o = q)'
  BY DEF IInv, LinksInv
<1>7. ASSUME NEW o \in Requests, req'[o].pc = "retiring", NEW u \in Unused(req[o].mail)'
      PROVE  (u \in req[o].seen \/ token[u].overlapped)'
  <2>1. req[o].pc = "retiring" /\ req'[o].mail = req[o].mail /\ req'[o].seen = req[o].seen
        /\ req[o].mail \in Purposes
    BY <1>7 DEF IInv, PhaseInv
  <2>2. u \in Unused(req[o].mail) /\ token'[u] = token[u]
    BY <1>1, <1>7, <2>1 DEF Unused
  <2>. QED
    BY <2>1, <2>2 DEF IInv, LinksInv
<1>. QED
  BY <1>3, <1>4, <1>5, <1>6, <1>7 DEF LinksInv

LEMMA LinkExpiresStep ==
    ASSUME IInv, NEW t \in Tokens, TokenExpires(t)
    PROVE  IInv'
<1>1. /\ UNCHANGED <<account, session, required, req, wrong, spent>> /\ token[t] # NoRow
      /\ token' = Used({t})
  BY DEF TokenExpires
<1>2. /\ token' \in [Tokens -> Token \cup {NoRow}]
      /\ \A u \in Tokens : token'[u] = NoRow <=> token[u] = NoRow
  BY <1>1, UsedRows DEF IInv
<1>3. TypeOK'
  BY <1>1, <1>2 DEF IInv, TypeOK
<1>4. AccountComesFirst' /\ \A o \in Requests : PhaseInv(o)'
  BY <1>1, <1>2 DEF IInv, AccountComesFirst, PhaseInv
<1>5. OriginsFit'
  BY <1>1, OriginsStay DEF Live
<1>6. OneContinues'
  BY <1>1, DescentsStay DEF Live
<1>7. LinksInv'
  <2>1. \A p \in Purposes : spent[t][p] <= IF token[t].purpose = p THEN 1 ELSE 0
    BY <1>1 DEF IInv, LinksInv, LinksWorkOnce
  <2>. QED
    BY <1>1, <1>3, <2>1, LinksAreUsed
<1>8. LockoutInv'
  BY <1>1, <1>3, LockoutStays DEF Failing
<1>. QED
  BY <1>3, <1>4, <1>5, <1>6, <1>7, <1>8 DEF IInv

LEMMA ConfirmStep ==
    ASSUME IInv, NEW t \in Tokens, ConfirmVerification(t)
    PROVE  IInv'
<1>1. /\ UNCHANGED <<session, required, req, wrong>> /\ token' = Used({t}) /\ ~ Held(t)
      /\ token[t] # NoRow /\ token[t].unused /\ token[t].purpose = "email_verification"
      /\ spent' = [spent EXCEPT ![t]["email_verification"] = spent[t]["email_verification"] + 1]
      /\ account' = [account EXCEPT !.verified = TRUE]
  BY DEF ConfirmVerification, Usable, Unused
<1>2. account \in Account /\ account # NoRow
  BY <1>1 DEF IInv, TypeOK, AccountComesFirst
<1>3. /\ account' \in Account /\ account'.password = account.password
      /\ account'.failures = account.failures /\ account'.locked = account.locked
  BY <1>1, <1>2 DEF Account
<1>4. account' # NoRow
  BY <1>3, NullsAssumption
<1>5. /\ token' \in [Tokens -> Token \cup {NoRow}]
      /\ \A u \in Tokens : token'[u] = NoRow <=> token[u] = NoRow
  BY <1>1, UsedRows DEF IInv
<1>6. Unspent(t) /\ spent \in [Tokens -> [Purposes -> Nat]]
  BY <1>1 DEF IInv, TypeOK, LinksInv
<1>7. /\ spent' \in [Tokens -> [Purposes -> Nat]]
      /\ \A u \in Tokens \ {t} : spent'[u] = spent[u]
      /\ \A p \in Purposes : spent'[t][p] = IF p = "email_verification" THEN 1 ELSE 0
  BY <1>1, <1>6 DEF Unspent, Purposes
<1>8. TypeOK'
  BY <1>1, <1>3, <1>5, <1>7 DEF IInv, TypeOK
<1>9. AccountComesFirst' /\ \A o \in Requests : PhaseInv(o)'
  BY <1>1, <1>4, <1>5 DEF IInv, AccountComesFirst, PhaseInv
<1>10. OriginsFit'
  BY <1>1, <1>2, <1>3, <1>4, OriginsStay DEF Live
<1>11. OneContinues'
  BY <1>1, DescentsStay DEF Live
<1>12. LinksInv'
  BY <1>1, <1>7, <1>8, LinksAreUsed DEF Held
<1>13. LockoutInv'
  BY <1>1, <1>2, <1>3, <1>4, <1>8, LockoutStays DEF Failing
<1>. QED
  BY <1>8, <1>9, <1>10, <1>11, <1>12, <1>13 DEF IInv

LEMMA InsertStep ==
    ASSUME IInv, NEW r \in Requests, NEW t \in Tokens, TokenInsert(r, t)
    PROVE  IInv'
<1>. DEFINE mail == req[r].mail
            seen == req[r].seen
            new == [purpose |-> mail, unused |-> TRUE, overlapped |-> Overlapped(r)]
<1>1. /\ UNCHANGED <<account, session, required, wrong, spent>>
      /\ req' = [req EXCEPT ![r] = Idle] /\ req \in [Requests -> Request]
      /\ req[r].pc = "retiring" /\ token[t] = NoRow /\ \A u \in seen : ~ Held(u)
      /\ token' = [Used(seen) EXCEPT ![t] = new]
  BY DEF TokenInsert, Respond, Goto, IInv, TypeOK
<1>2. mail \in Purposes /\ seen \subseteq Tokens /\ account # NoRow
  BY <1>1 DEF IInv, PhaseInv, AccountComesFirst
<1>3. /\ new \in Token /\ new.purpose = mail /\ new.unused
      /\ new.overlapped = Overlapped(r) /\ Overlapped(r) \in BOOLEAN
  BY <1>2 DEF Token, Overlapped
<1>4. new # NoRow
  BY <1>3, NullsAssumption
<1>5. /\ Used(seen) \in [Tokens -> Token \cup {NoRow}]
      /\ \A u \in Tokens :
            /\ Used(seen)[u] = NoRow <=> token[u] = NoRow
            /\ u \notin seen => Used(seen)[u] = token[u]
            /\ u \in seen /\ token[u] # NoRow => ~ Used(seen)[u].unused
            /\ token[u] # NoRow => Used(seen)[u].purpose = token[u].purpose
  BY UsedRows DEF IInv
<1>. HIDE DEF new
<1>6. /\ token' \in [Tokens -> Token \cup {NoRow}] /\ token'[t] = new
      /\ \A u \in Tokens \ {t} : token'[u] = Used(seen)[u]
  BY <1>1, <1>3, <1>5
<1>7. /\ \A u \in Tokens : token[u] # NoRow => u # t /\ token'[u] # NoRow
                                               /\ token'[u].purpose = token[u].purpose
      /\ \A u \in Tokens \ {t} : token'[u] = NoRow <=> token[u] = NoRow
  BY <1>1, <1>4, <1>5, <1>6
<1>8. \A u \in Tokens \ {t} : token'[u] # NoRow /\ token'[u].unused =>
          u \notin seen /\ token'[u] = token[u]
  BY <1>5, <1>6
<1>9. TypeOK'
  BY <1>1, <1>6, IdleIsQuiet DEF IInv, TypeOK
<1>10. AccountComesFirst' /\ \A o \in Requests : PhaseInv(o)'
  BY <1>1, <1>2, <1>7, IdleIsQuiet DEF IInv, AccountComesFirst, PhaseInv
<1>11. OriginsFit'
  BY <1>1, IdleIsQuiet, OriginsStay DEF Live
<1>12. OneContinues'
  BY <1>1, IdleIsQuiet, DescentsStay DEF Live
<1>13. LinksInv'
  <2>1. LinksWorkOnce'
    <3>1. ASSUME NEW u \in Tokens, NEW p \in Purposes
          PROVE  (spent[u][p] <= IF token[u] # NoRow /\ token[u].purpose = p THEN 1 ELSE 0)'
      <4>1. spent[u][p] <= IF token[u] # NoRow /\ token[u].purpose = p THEN 1 ELSE 0
        BY DEF IInv, LinksInv, LinksWorkOnce
      <4>2. spent'[u][p] = spent[u][p] /\ spent[u][p] \in Nat
        BY <1>1 DEF IInv, TypeOK
      <4>3. CASE token[u] = NoRow
        BY <4>1, <4>2, <4>3
      <4>4. CASE token[u] # NoRow
        BY <1>7, <4>1, <4>2, <4>4
      <4>. QED
        BY <4>3, <4>4
    <3>2. ASSUME NEW u \in Tokens \ {t}, token'[u] # NoRow, token'[u].unused, token'[u].purpose = mail
          PROVE  token'[u].overlapped
      <4>1. u \in Unused(mail) /\ u \notin seen /\ token'[u] = token[u]
        BY <1>8, <3>2 DEF Unused
      <4>. QED
        BY <1>1, <4>1 DEF IInv, LinksInv
    <3>3. ASSUME NEW p \in Purposes, NEW u \in Unused(p)', NEW w \in Unused(p)', u # w
          PROVE  (token[u].overlapped \/ token[w].overlapped)'
      <4>1. CASE u = t \/ w = t
        <5>1. p = mail
          BY <1>3, <1>6, <3>3, <4>1 DEF Unused
        <5>. QED
          BY <3>2, <3>3, <4>1, <5>1 DEF Unused
      <4>2. CASE u # t /\ w # t
        <5>1. /\ u \in Unused(p) /\ w \in Unused(p)
              /\ token'[u] = token[u] /\ token'[w] = token[w]
          BY <1>8, <3>3, <4>2 DEF Unused
        <5>. QED
          BY <3>3, <5>1 DEF IInv, LinksInv, LinksWorkOnce
      <4>. QED
        BY <4>1, <4>2
    <3>. QED
      BY <3>1, <3>3 DEF LinksWorkOnce
  <2>2. ASSUME NEW u \in Tokens, token'[u] # NoRow, token'[u].unused PROVE Unspent(u)'
    <3>1. Unspent(u)
      <4>1. CASE u = t
        BY <1>1, <4>1 DEF IInv, TypeOK, LinksInv, LinksWorkOnce, Unspent
      <4>2. CASE u # t
        BY <1>8, <2>2, <4>2 DEF IInv, LinksInv
      <4>. QED
        BY <4>1, <4>2
    <3>. QED
      BY <1>1, <3>1 DEF Unspent
  <2>3. ASSUME NEW o \in Requests, req'[o].pc = "resetting"
        PROVE  (token[req[o].token].purpose = "password_reset" /\ Unspent(req[o].token))'
    <3>1. req'[o] = req[o] /\ req[o].pc = "resetting"
      BY <1>1, <2>3, IdleIsQuiet
    <3>2. /\ req[o].token \in Tokens /\ token[req[o].token] # NoRow
          /\ token[req[o].token].purpose = "password_reset" /\ Unspent(req[o].token)
      BY <3>1 DEF IInv, LinksInv, PhaseInv
    <3>. QED
      BY <1>1, <1>7, <3>1, <3>2 DEF Unspent
  <2>4. \A o, q \in Requests : (req[o].pc = "resetting" /\ req[q].pc = "resetting"
                                 /\ req[o].token = req[q].token => o = q)'
    BY <1>1, IdleIsQuiet DEF IInv, LinksInv
  <2>5. ASSUME NEW o \in Requests, req'[o].pc = "retiring", NEW u \in Unused(req[o].mail)'
        PROVE  (u \in req[o].seen \/ token[u].overlapped)'
    <3>1. o # r /\ req'[o] = req[o] /\ req[o].pc = "retiring"
      BY <1>1, <2>5, IdleIsQuiet
    <3>2. CASE u = t
      <4>1. Overlapped(r)
        BY <1>3, <1>6, <2>5, <3>1, <3>2 DEF Overlapped, Unused
      <4>. QED
        BY <1>3, <1>6, <3>2, <4>1
    <3>3. CASE u # t
      <4>1. u \in Unused(req[o].mail) /\ token'[u] = token[u]
        BY <1>8, <2>5, <3>1, <3>3 DEF Unused
      <4>. QED
        BY <3>1, <4>1 DEF IInv, LinksInv
    <3>. QED
      BY <3>2, <3>3
  <2>. QED
    BY <2>1, <2>2, <2>3, <2>4, <2>5 DEF LinksInv
<1>14. LockoutInv'
  <2>1. Failing' \subseteq Failing
    BY <1>1, IdleIsQuiet DEF Failing
  <2>. QED
    BY <1>1, <1>2, <1>9, <2>1, LockoutStays
<1>. QED
  BY <1>9, <1>10, <1>11, <1>12, <1>13, <1>14 DEF IInv

LEMMA CommitStep ==
    ASSUME IInv, NEW r \in Requests, NEW new \in Passwords, ResetCommit(r, new)
    PROVE  IInv'
<1>. DEFINE seen == req[r].seen
            t == req[r].token
            state == [Idle EXCEPT !.pc = "issuing", !.origin = From(new)]
<1>1. /\ req[r].pc = "resetting" /\ required' = required /\ wrong' = 0
      /\ account' = [account EXCEPT !.password = new, !.failures = 0, !.locked = FALSE]
      /\ token' = Used({t})
      /\ spent' = [spent EXCEPT ![t]["password_reset"] = spent[t]["password_reset"] + 1]
      /\ session' = [s \in Sessions |->
                        IF s \in Sessions \ seen /\ Live(s)
                        THEN [session[s] EXCEPT !.origin = Late(session[s].origin)]
                        ELSE Revoked(seen)[s]]
      /\ req' = [o \in Requests |->
                    IF o = r THEN state ELSE [req[o] EXCEPT !.origin = Late(req[o].origin)]]
  BY DEF ResetCommit, RevokedByReset
<1>2. /\ t \in Tokens /\ token[t] # NoRow /\ account \in Account
      /\ token[t].purpose = "password_reset" /\ Unspent(t)
  BY <1>1 DEF IInv, TypeOK, AccountComesFirst, PhaseInv, LinksInv
<1>3. /\ account' \in Account /\ account'.password = new /\ account'.failures = 0
      /\ ~ account'.locked /\ account # NoRow /\ account' # NoRow
  <2>1. /\ account' \in Account /\ account'.password = new /\ account'.failures = 0
        /\ ~ account'.locked
    BY <1>1, <1>2 DEF Account
  <2>. QED
    BY <1>2, <2>1, NullsAssumption
<1>4. /\ state \in Request /\ state.pc = "issuing" /\ state.parent = NoSession
      /\ state.origin = From(new) /\ From(new) # NoOrigin /\ From(new).root = NoSession
      /\ From(new).proof = new
  BY FromIsOrigin DEF Idle, Request, From
<1>5. ASSUME NEW o \in Requests \ {r}
      PROVE  /\ req'[o] \in Request
             /\ req'[o].pc = req[o].pc /\ req'[o].parent = req[o].parent
             /\ req'[o].mail = req[o].mail /\ req'[o].token = req[o].token
             /\ req'[o].seen = req[o].seen
             /\ req'[o].origin = NoOrigin <=> req[o].origin = NoOrigin
             /\ req[o].origin # NoOrigin => /\ req'[o].origin.root = req[o].origin.root
                                            /\ req'[o].origin.proof = Overtaken
  <2>1. req[o] \in Request /\ req'[o] = [req[o] EXCEPT !.origin = Late(req[o].origin)]
    BY <1>1 DEF IInv, TypeOK
  <2>2. /\ Late(req[o].origin) \in Origin \cup {NoOrigin}
        /\ Late(req[o].origin) = NoOrigin <=> req[o].origin = NoOrigin
        /\ req[o].origin # NoOrigin => /\ Late(req[o].origin).root = req[o].origin.root
                                       /\ Late(req[o].origin).proof = Overtaken
    BY <2>1, LateIsOrigin DEF Request
  <2>. QED
    BY <2>1, <2>2 DEF Request
<1>6. ASSUME NEW s \in Sessions
      PROVE  /\ session'[s] \in Session \cup {NoRow}
             /\ session'[s] = NoRow <=> session[s] = NoRow
             /\ session[s] # NoRow /\ session[s].revoked => session'[s].revoked
             /\ Live(s)' => /\ Live(s) /\ session'[s].origin # NoOrigin
                            /\ session'[s].origin.root = session[s].origin.root
                            /\ session'[s].origin.proof = Overtaken
  <2>1. CASE s \in Sessions \ seen /\ Live(s)
    <3>1. /\ session[s] \in Session /\ ~ session[s].revoked /\ ~ session[s].expired
          /\ session[s].origin # NoOrigin /\ session[s].origin \in Origin
          /\ session'[s] = [session[s] EXCEPT !.origin = Late(session[s].origin)]
      BY <1>1, <2>1 DEF IInv, TypeOK, OriginsFit, Live, Session
    <3>2. /\ Late(session[s].origin) \in Origin \cup {NoOrigin} /\ Late(session[s].origin) # NoOrigin
          /\ Late(session[s].origin).root = session[s].origin.root
          /\ Late(session[s].origin).proof = Overtaken
      BY <3>1, LateIsOrigin
    <3>3. session'[s] \in Session /\ session'[s].origin = Late(session[s].origin)
      BY <3>1, <3>2 DEF Session
    <3>. QED
      BY <2>1, <3>1, <3>2, <3>3, NullsAssumption DEF Live
  <2>2. CASE ~ (s \in Sessions \ seen /\ Live(s))
    <3>1. session'[s] = Revoked(seen)[s]
      BY <1>1, <2>2
    <3>2. /\ Revoked(seen)[s] \in Session \cup {NoRow}
          /\ Revoked(seen)[s] = NoRow <=> session[s] = NoRow
          /\ s \notin seen => Revoked(seen)[s] = session[s]
          /\ s \in seen /\ session[s] # NoRow => Revoked(seen)[s].revoked
      BY RevokedRows DEF IInv
    <3>. QED
      BY <2>2, <3>1, <3>2 DEF Live
  <2>. QED
    BY <2>1, <2>2
<1>7. /\ token' \in [Tokens -> Token \cup {NoRow}]
      /\ \A u \in Tokens : token'[u] = NoRow <=> token[u] = NoRow
  BY <1>1, UsedRows DEF IInv
<1>8. /\ spent' \in [Tokens -> [Purposes -> Nat]]
      /\ \A u \in Tokens \ {t} : spent'[u] = spent[u]
      /\ \A p \in Purposes : spent'[t][p] = IF p = "password_reset" THEN 1 ELSE 0
  <2>1. spent \in [Tokens -> [Purposes -> Nat]]
    BY DEF IInv, TypeOK
  <2>. QED
    BY <1>1, <1>2, <2>1 DEF Unspent, Purposes
<1>. HIDE DEF state, seen, t
<1>9. req'[r] = state /\ req' \in [Requests -> Request]
  BY <1>1, <1>4, <1>5
<1>10. TypeOK'
  BY <1>1, <1>3, <1>6, <1>7, <1>8, <1>9 DEF IInv, TypeOK
<1>11. AccountComesFirst'
  BY <1>3 DEF AccountComesFirst
<1>12. ASSUME NEW o \in Requests PROVE PhaseInv(o)'
  <2>1. CASE o = r
    BY <1>4, <1>9, <2>1 DEF PhaseInv
  <2>2. CASE o # r
    <3>1. PhaseInv(o) /\ req[o] \in Request
      BY DEF IInv, TypeOK
    <3>. QED
      BY <1>5, <1>6, <1>7, <2>2, <3>1 DEF PhaseInv, Request
  <2>. QED
    BY <2>1, <2>2
<1>13. OriginsFit'
  <2>1. ASSUME NEW s \in Sessions, Live(s)'
        PROVE  /\ (session[s].origin # NoOrigin)' /\ (session[s].origin.root # NoSession)'
               /\ Fits(session[s].origin)'
    <3>1. /\ session[s].origin.root \in Sessions /\ Fits(session[s].origin)
          /\ session[s].origin.root # NoSession
      BY <1>6, <2>1 DEF IInv, TypeOK, OriginsFit, Live, Session, Origin
    <3>. QED
      BY <1>6, <2>1, <3>1 DEF Fits
  <2>2. ASSUME NEW o \in Requests, req'[o].origin # NoOrigin PROVE Fits(req[o].origin)'
    <3>1. CASE o = r
      BY <1>3, <1>4, <1>9, <3>1 DEF Fits
    <3>2. CASE o # r
      <4>1. req[o].origin \in Origin /\ Fits(req[o].origin)
        BY <1>5, <2>2, <3>2 DEF IInv, TypeOK, OriginsFit, Request
      <4>. QED
        BY <1>5, <1>6, <2>2, <3>2, <4>1 DEF Fits, Origin
    <3>. QED
      BY <3>1, <3>2
  <2>. QED
    BY <2>1, <2>2 DEF OriginsFit
<1>14. OneContinues'
  <2>1. \A o \in Requests : req'[o].origin # NoOrigin /\ req'[o].origin.root # NoSession =>
            /\ req[o].origin # NoOrigin /\ req'[o].origin.root = req[o].origin.root
            /\ req'[o].parent = req[o].parent
    BY <1>4, <1>5, <1>9
  <2>. QED
    BY <1>6, <2>1, DescentsStay
<1>15. LinksInv'
  <2>1. \A p \in Purposes : spent'[t][p] <= IF token[t].purpose = p THEN 1 ELSE 0
    BY <1>2, <1>8
  <2>2. \A o \in Requests : req'[o].pc \in {"retiring", "resetting"} =>
            /\ o # r /\ req'[o].pc = req[o].pc /\ req'[o].mail = req[o].mail
            /\ req'[o].token = req[o].token /\ req'[o].seen = req[o].seen
    BY <1>4, <1>5, <1>9
  <2>3. \A o \in Requests : req'[o].pc = "resetting" => req[o].token # t
    BY <1>1, <2>2 DEF IInv, LinksInv, t
  <2>. QED
    BY <1>1, <1>2, <1>8, <1>10, <2>1, <2>2, <2>3, LinksAreUsed
<1>16. LockoutInv'
  BY <1>1, <1>3, <1>10, AuthAssumption, LockoutOpens
<1>. QED
  BY <1>10, <1>11, <1>12, <1>13, <1>14, <1>15, <1>16 DEF IInv

-----------------------------------------------------------------------------
LEMMA InitInv == Init => IInv
<1>. SUFFICES ASSUME Init PROVE IInv
  OBVIOUS
<1>1. TypeOK
  BY IdleIsQuiet DEF Init, TypeOK
<1>2. AccountComesFirst /\ \A r \in Requests : PhaseInv(r)
  BY IdleIsQuiet DEF Init, AccountComesFirst, PhaseInv
<1>3. OriginsFit /\ OneContinues
  BY IdleIsQuiet DEF Init, OriginsFit, OneContinues, OneSessionPerLogin, Continues, Live
<1>4. LinksInv
  BY IdleIsQuiet DEF Init, LinksInv, LinksWorkOnce, Unused, Unspent
<1>5. LockoutInv
  <2>1. Failing \in SUBSET Requests
    BY DEF Failing
  <2>. QED
    BY <2>1, RequestsAreCounted, AuthAssumption DEF Init, LockoutInv
<1>. QED
  BY <1>1, <1>2, <1>3, <1>4, <1>5 DEF IInv

LEMMA NextInv == IInv /\ [Next]_vars => IInv'
<1>. SUFFICES ASSUME IInv, [Next]_vars PROVE IInv'
  OBVIOUS
<1>1. ASSUME NEW r \in Requests, Step(r) PROVE IInv'
  <2>1. ASSUME NEW p \in Passwords, SignUp(r, p) \/ LoginRead(r, p) \/ ResetCommit(r, p) PROVE IInv'
    BY <2>1, SignUpStep, LoginReadStep, CommitStep
  <2>2. CASE RecordLoginFailure(r) \/ RecordLoginSuccess(r) \/ MarkVerified(r)
    BY <2>2, FailureStep, SuccessStep, MarkStep
  <2>3. ASSUME NEW s \in Sessions, RefreshRead(r, s) \/ IssueSession(r, s) \/ Resend(r, s) PROVE IInv'
    BY <2>3, RefreshReadStep, IssueStep, ResendStep
  <2>4. CASE RefreshRevoke(r) \/ RequestReset(r) \/ TokenRetire(r)
    BY <2>4, RevokeStep, RetireStep
  <2>5. ASSUME NEW t \in Tokens, TokenInsert(r, t) \/ ResetBegin(r, t) PROVE IInv'
    BY <2>5, InsertStep, ResetBeginStep
  <2>. QED
    BY <1>1, <2>1, <2>2, <2>3, <2>4, <2>5 DEF Step
<1>2. ASSUME NEW s \in Sessions, Logout(s) \/ SessionExpires(s) PROVE IInv'
  BY <1>2, EndStep
<1>3. ASSUME NEW t \in Tokens, ConfirmVerification(t) \/ TokenExpires(t) PROVE IInv'
  BY <1>3, ConfirmStep, LinkExpiresStep
<1>4. CASE LockLapses \/ Restart
  BY <1>4, LapseStep, RestartStep
<1>5. CASE UNCHANGED vars
  <2>1. UNCHANGED <<account, session, token, required, req, wrong, spent>>
    BY <1>5 DEF vars
  <2>2. TypeOK' /\ AccountComesFirst' /\ \A r \in Requests : PhaseInv(r)'
    BY <2>1 DEF IInv, TypeOK, AccountComesFirst, PhaseInv
  <2>3. OriginsFit' /\ OneContinues' /\ LinksInv'
    BY <2>1, OriginsStay, DescentsStay, LinksStay DEF Live
  <2>4. LockoutInv'
    BY <2>1, <2>2, LockoutStays DEF Failing
  <2>. QED
    BY <2>2, <2>3, <2>4 DEF IInv
<1>. QED
  BY <1>1, <1>2, <1>3, <1>4, <1>5 DEF Next

LEMMA SpecInv == Spec => []IInv
  BY InitInv, NextInv, PTL DEF Spec

-----------------------------------------------------------------------------
(* The theorems *)

\* Type correctness of the account, its sessions and links, and the requests.
THEOREM AuthTypeCorrect == Spec => []TypeOK
<1>1. IInv => TypeOK
  BY DEF IInv
<1>. QED
  BY <1>1, SpecInv, PTL

\* A live session rests on the present password, unless a request on its way overlapped the reset
\* (reset_password_with_token).
THEOREM ResetsEndOldSessions == Spec => []OnlyLateSessionsOutliveReset
<1>1. IInv => OnlyLateSessionsOutliveReset
  BY DEF IInv, OriginsFit, Fits, OnlyLateSessionsOutliveReset
<1>. QED
  BY <1>1, SpecInv, PTL

\* However refreshes and logouts overlap, a login, sign-up or reset has one live session
\* (rotate_session).
THEOREM LoginsHaveOneSession == Spec => []OneSessionPerLogin
<1>1. IInv => OneSessionPerLogin
  BY DEF IInv, OneContinues
<1>. QED
  BY <1>1, SpecInv, PTL

\* A link is used once and for its purpose, and issuing one retires the older ones
\* (issue_one_time_token, confirm_email_verification, reset_password_with_token).
THEOREM LinksAreSingle == Spec => []LinksWorkOnce
<1>1. IInv => LinksWorkOnce
  BY DEF IInv, LinksInv
<1>. QED
  BY <1>1, SpecInv, PTL

\* The lockout is overshot by no more than the requests in flight (log_in, record_login_failure).
THEOREM LockoutsAreBounded == Spec => []LockoutIsBounded
<1>1. IInv => LockoutIsBounded
  <2>. SUFFICES ASSUME IInv PROVE LockoutIsBounded
    OBVIOUS
  <2>1. Failing \in SUBSET Requests
    BY DEF Failing
  <2>. QED
    BY <2>1, RequestsAreCounted, AuthAssumption DEF IInv, TypeOK, LockoutInv, LockoutIsBounded
<1>. QED
  BY <1>1, SpecInv, PTL
=============================================================================
