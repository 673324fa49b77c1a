---------------------------- MODULE SessionsProofs ----------------------------
(***************************************************************************)
(* Proofs about Sessions for any number of login states, sessions, users,  *)
(* tenants and concurrent requests.  SessionInv is the inductive invariant.*)
(***************************************************************************)
EXTENDS Sessions, TLAPS

(* Steps of a callback that has consumed its login state, ...              *)
LoginSteps == {"exchange", "validate", "find_user", "insert_user", "default_tenant", "create"}

(* ... and those after the token was validated and the user was found.     *)
IdentitySteps == {"find_user", "insert_user", "default_tenant", "create"}
UserSteps == {"default_tenant", "create"}

(* What a request carries agrees with the store and the database.          *)
LoginReqOK(r) ==
    /\ pc[r] \in LoginSteps \cup {"consume"} => req[r].state \in States
    /\ pc[r] \in LoginSteps => /\ state[req[r].state].status = "gone"
                               /\ \A s \in Sids : session[s].from # req[r].state
    /\ pc[r] \in IdentitySteps => req[r].identity \in Identities
    /\ pc[r] \in UserSteps => req[r].user \in Users /\ user[req[r].user] = req[r].identity
    /\ pc[r] \in (LoginSteps \cup {"consume"}) \ {"create"} => req[r].tenant = NoTenant
    /\ pc[r] \in {"create", "replace"} /\ req[r].tenant # NoTenant =>
          <<req[r].user, req[r].tenant>> \in was

CookieReqOK(r) ==
    /\ pc[r] \in {"check_member", "replace", "destroy"} =>
          req[r].sid \in Sids /\ session[req[r].sid].status # "unused"
    /\ pc[r] \in {"check_member", "replace"} =>
          /\ session[req[r].sid].from = req[r].state
          /\ session[req[r].sid].identity = req[r].identity
          /\ session[req[r].sid].user = req[r].user

ReqOK(r) == LoginReqOK(r) /\ CookieReqOK(r)

(* No two requests hold the same consumed login state.                     *)
StatesDistinct ==
    \A r, q \in Requests : r # q /\ pc[r] \in LoginSteps /\ pc[q] \in LoginSteps
                           => req[r].state # req[q].state

SessOK(s) ==
    /\ session[s].status = "unused" =>
          session[s].from = NoState /\ session[s].identity = NoId /\ session[s].tenant = NoTenant
    /\ session[s].status # "unused" =>
          /\ session[s].from \in States /\ state[session[s].from].status = "gone"
          /\ session[s].identity \in Identities /\ session[s].user \in Users
          /\ user[session[s].user] = session[s].identity
    /\ session[s].tenant # NoTenant => <<session[s].user, session[s].tenant>> \in was
    /\ s \in loggedOut => session[s].status = "gone"

OneRow == \A u, v \in Users : user[u] = user[v] /\ user[u] # NoId => u = v

SessionInv ==
    /\ TypeOK
    /\ \A r \in Requests : ReqOK(r)
    /\ StatesDistinct
    /\ \A s \in Sids : SessOK(s)
    /\ OneSessionPerState
    /\ OneRow
    /\ member \subseteq was

USE SessionsAssumption, AbsentAssumption

-----------------------------------------------------------------------------
(* What no step undoes: consumed states, created sessions, user rows and   *)
(* the history of memberships.                                             *)
Frame ==
    /\ \A t \in States : state[t].status = "gone" => state'[t].status = "gone"
    /\ \A s \in Sids : session[s].status # "unused" =>
          /\ session'[s].status # "unused"
          /\ session'[s].from = session[s].from
          /\ session'[s].identity = session[s].identity
          /\ session'[s].user = session[s].user
    /\ \A u \in Users : user[u] # NoId => user'[u] = user[u]
    /\ was \subseteq was'

LEMMA ReqKept ==
    ASSUME SessionInv, Frame, NEW q \in Requests, pc'[q] = pc[q], req'[q] = req[q],
           pc[q] \in LoginSteps => \A s \in Sids : session'[s].from # req[q].state
    PROVE  ReqOK(q)'
<1>0. ReqOK(q)
  BY DEF SessionInv
<1>1. LoginReqOK(q)'
  <2>1. pc[q] \in UserSteps => req[q].user \in Users /\ user'[req[q].user] = req[q].identity
    BY <1>0 DEF ReqOK, LoginReqOK, Frame, UserSteps, IdentitySteps
  <2>2. pc[q] \in LoginSteps => state'[req[q].state].status = "gone"
    BY <1>0 DEF ReqOK, LoginReqOK, Frame
  <2> QED
    BY <1>0, <2>1, <2>2 DEF ReqOK, LoginReqOK, Frame
<1>2. CookieReqOK(q)'
  BY <1>0 DEF ReqOK, CookieReqOK, Frame
<1> QED
  BY <1>1, <1>2 DEF ReqOK

LEMMA SessKept ==
    ASSUME SessionInv, Frame, NEW s \in Sids,
           session'[s].status = "unused" <=> session[s].status = "unused",
           session'[s].from = session[s].from, session'[s].identity = session[s].identity,
           session'[s].user = session[s].user, session'[s].tenant = session[s].tenant,
           s \in loggedOut' => session'[s].status = "gone"
    PROVE  SessOK(s)'
<1>0. SessOK(s)
  BY DEF SessionInv
<1>1. session[s].status # "unused" => user'[session[s].user] = session[s].identity
                                      /\ state'[session[s].from].status = "gone"
  BY <1>0 DEF SessOK, Frame
<1> QED
  BY <1>0, <1>1 DEF SessOK, Frame

(* The step of one request that only moves the request on.                 *)
LEMMA RequestKeeps ==
    ASSUME SessionInv, NEW r \in Requests, NEW step \in Steps, NEW a \in Request,
           Carry(r, step, a), UNCHANGED <<state, session, loggedOut, Database>>,
           ReqOK(r)',
           step \in LoginSteps => pc[r] \in LoginSteps /\ a.state = req[r].state
    PROVE  SessionInv'
<1>0. UNCHANGED <<state, session, loggedOut, user, member, was>>
  BY DEF Database
<1>1. TypeOK'
  BY <1>0 DEF SessionInv, TypeOK, Carry
<1>2. Frame
  BY <1>0 DEF Frame
<1>3. \A q \in Requests : q # r => pc'[q] = pc[q] /\ req'[q] = req[q]
  BY DEF SessionInv, TypeOK, Carry
<1>4. pc'[r] = step /\ req'[r] = a
  BY DEF SessionInv, TypeOK, Carry
<1>5. \A q \in Requests : ReqOK(q)'
  <2> SUFFICES ASSUME NEW q \in Requests, q # r PROVE ReqOK(q)'
    OBVIOUS
  <2>1. pc[q] \in LoginSteps => \A s \in Sids : session'[s].from # req[q].state
    BY <1>0, Zenon DEF SessionInv, ReqOK, LoginReqOK
  <2> QED
    BY <1>2, <1>3, <2>1, ReqKept
<1>6. StatesDistinct'
  BY <1>3, <1>4 DEF SessionInv, StatesDistinct
<1>7. \A s \in Sids : SessOK(s)'
  BY <1>0 DEF SessionInv, SessOK
<1>8. OneSessionPerState' /\ OneRow' /\ (member \subseteq was)'
  BY <1>0 DEF SessionInv, OneSessionPerState, OneRow
<1> QED
  BY <1>1, <1>5, <1>6, <1>7, <1>8 DEF SessionInv

(* A request that is answered carries nothing.                             *)
LEMMA IdleOK == ASSUME NEW r \in Requests, pc'[r] = "idle" PROVE ReqOK(r)'
BY DEF ReqOK, LoginReqOK, CookieReqOK, LoginSteps, IdentitySteps, UserSteps

LEMMA NoRequestTyped == NoRequest \in Request /\ "idle" \in Steps /\ "idle" \notin LoginSteps
BY DEF NoRequest, Request, Steps, LoginSteps

LEMMA CarryFacts ==
    ASSUME TypeOK, NEW r \in Requests, NEW step, NEW a, Carry(r, step, a)
    PROVE  /\ pc'[r] = step /\ req'[r] = a
           /\ \A q \in Requests : q # r => pc'[q] = pc[q] /\ req'[q] = req[q]
BY DEF TypeOK, Carry

LEMMA AnswerKeeps ==
    ASSUME SessionInv, NEW r \in Requests, Answer(r),
           UNCHANGED <<state, session, loggedOut, Database>>
    PROVE  SessionInv'
<1>1. Carry(r, "idle", NoRequest)
  BY DEF Answer
<1>2. ReqOK(r)'
  BY <1>1, CarryFacts, IdleOK DEF SessionInv
<1> QED
  BY <1>1, <1>2, NoRequestTyped, RequestKeeps

(* The step of a request that also writes to the store or the database.    *)
LEMMA WriteKeeps ==
    ASSUME SessionInv, TypeOK', Frame, NEW r \in Requests,
           \A q \in Requests : q # r => pc'[q] = pc[q] /\ req'[q] = req[q],
           \A q \in Requests : q # r /\ pc[q] \in LoginSteps =>
               \A s \in Sids : session'[s].from # req[q].state,
           ReqOK(r)',
           pc'[r] \in LoginSteps => \A q \in Requests : q # r /\ pc[q] \in LoginSteps =>
                                                       req'[r].state # req[q].state,
           \A s \in Sids : SessOK(s)', OneSessionPerState', OneRow', (member \subseteq was)'
    PROVE  SessionInv'
<1>1. \A q \in Requests : ReqOK(q)'
  <2> SUFFICES ASSUME NEW q \in Requests, q # r PROVE ReqOK(q)'
    OBVIOUS
  <2> QED
    BY ReqKept
<1>2. StatesDistinct'
  <2> SUFFICES ASSUME NEW x \in Requests, NEW q \in Requests, x # q,
                      pc'[x] \in LoginSteps, pc'[q] \in LoginSteps
               PROVE  req'[x].state # req'[q].state
    BY DEF StatesDistinct
  <2>1. CASE x # r /\ q # r
    BY <2>1 DEF SessionInv, StatesDistinct
  <2>2. CASE x = r
    BY <2>2
  <2>3. CASE q = r
    BY <2>3
  <2> QED
    BY <2>1, <2>2, <2>3
<1> QED
  BY <1>1, <1>2 DEF SessionInv

(* A step of no request at all.                                            *)
LEMMA OutsideKeeps ==
    ASSUME SessionInv, TypeOK', Frame, UNCHANGED <<pc, req>>,
           \A s \in Sids : session'[s].from = session[s].from,
           \A s \in Sids : SessOK(s)', OneRow', (member \subseteq was)'
    PROVE  SessionInv'
<1>1. \A q \in Requests : ReqOK(q)'
  <2> SUFFICES ASSUME NEW q \in Requests PROVE ReqOK(q)'
    OBVIOUS
  <2>1. pc[q] \in LoginSteps => \A s \in Sids : session'[s].from # req[q].state
    BY Zenon DEF SessionInv, ReqOK, LoginReqOK
  <2> QED
    BY <2>1, ReqKept
<1>2. StatesDistinct' /\ OneSessionPerState'
  BY DEF SessionInv, StatesDistinct, OneSessionPerState
<1> QED
  BY <1>1, <1>2 DEF SessionInv

-----------------------------------------------------------------------------
LEMMA InitKeeps == Init => SessionInv
<1> SUFFICES ASSUME Init PROVE SessionInv
  OBVIOUS
<1>1. TypeOK
  BY NoRequestTyped DEF Init, TypeOK, AuthState, Session, NoSession
<1>2. \A r \in Requests : ReqOK(r)
  BY DEF Init, ReqOK, LoginReqOK, CookieReqOK, LoginSteps, IdentitySteps, UserSteps
<1>3. StatesDistinct
  BY DEF Init, StatesDistinct, LoginSteps
<1>4. \A s \in Sids : session[s] = NoSession
  BY DEF Init
<1>5. \A s \in Sids : SessOK(s)
  BY <1>4 DEF Init, SessOK, NoSession
<1>6. OneSessionPerState
  BY <1>4 DEF OneSessionPerState, NoSession
<1>7. OneRow /\ member \subseteq was
  BY DEF Init, OneRow
<1> QED
  BY <1>1, <1>2, <1>3, <1>5, <1>6, <1>7 DEF SessionInv

LEMMA LoginKeeps == ASSUME SessionInv, NEW t \in States, login(t) PROVE SessionInv'
<1>0. UNCHANGED <<session, loggedOut, pc, req, user, member, was>>
  BY DEF login, Database
<1>1. TypeOK'
  <2>1. [status |-> "live", ttl |-> StateTTL] \in AuthState
    BY DEF AuthState
  <2> QED
    BY <1>0, <2>1 DEF SessionInv, TypeOK, login
<1>2. Frame
  BY <1>0 DEF Frame, login, SessionInv, TypeOK
<1>3. \A s \in Sids : SessOK(s)'
  <2> SUFFICES ASSUME NEW s \in Sids PROVE SessOK(s)'
    OBVIOUS
  <2>1. s \in loggedOut' => session'[s].status = "gone"
    BY <1>0, Zenon DEF SessionInv, SessOK
  <2> QED
    BY <1>0, <1>2, <2>1, SessKept
<1>4. OneRow' /\ (member \subseteq was)'
  BY <1>0 DEF SessionInv, OneRow
<1> QED
  BY <1>0, <1>1, <1>2, <1>3, <1>4, OutsideKeeps

LEMMA ConsumeKeeps == ASSUME SessionInv, NEW r \in Requests, consume_auth_state(r) PROVE SessionInv'
<1>0. TypeOK /\ UNCHANGED <<session, loggedOut, user, member, was, Database>> /\ pc[r] = "consume"
  BY DEF SessionInv, consume_auth_state, Database
<1>a. PICK t \in States : t = req[r].state
  BY <1>0, Zenon DEF SessionInv, ReqOK, LoginReqOK
<1>1. CASE Answer(r) /\ UNCHANGED state
  BY <1>0, <1>1, AnswerKeeps
<1>2. CASE /\ state[t].status = "live"
           /\ state' = [state EXCEPT ![t] = [status |-> "gone", ttl |-> 0]]
           /\ Carry(r, "exchange", req[r]) \/ Answer(r)
  <2>0. req[r].tenant = NoTenant
    BY <1>0, Zenon DEF SessionInv, ReqOK, LoginReqOK, LoginSteps
  <2>1. PICK step \in {"exchange", "idle"}, a \in Request :
              Carry(r, step, a) /\ (step = "exchange" => a = req[r])
    BY <1>0, <1>2, NoRequestTyped DEF Answer, TypeOK
  <2>2. /\ pc'[r] = step /\ req'[r] = a
        /\ \A q \in Requests : q # r => pc'[q] = pc[q] /\ req'[q] = req[q]
    BY <1>0, <2>1, CarryFacts
  <2>3. TypeOK'
    <3>1. [status |-> "gone", ttl |-> 0] \in AuthState
      BY DEF AuthState
    <3>2. step \in Steps
      BY DEF Steps
    <3> QED
      BY <1>0, <1>2, <2>1, <3>1, <3>2 DEF TypeOK, Carry
  <2>4. state'[t].status = "gone" /\ \A x \in States : x # t => state'[x] = state[x]
    BY <1>0, <1>2 DEF TypeOK
  <2>5. Frame
    BY <1>0, <2>4 DEF Frame
  <2>6. \A s \in Sids : session[s].from # t
    <3> SUFFICES ASSUME NEW s \in Sids, session[s].from = t PROVE FALSE
      OBVIOUS
    <3>1. session[s].status # "unused"
      BY Zenon DEF SessionInv, SessOK
    <3> QED
      BY <1>2, <3>1, Zenon DEF SessionInv, SessOK
  <2>7. ReqOK(r)'
    <3>1. CASE step = "idle"
      BY <2>2, <3>1, IdleOK
    <3>2. CASE step = "exchange"
      BY <1>0, <1>a, <2>0, <2>1, <2>2, <2>4, <2>6, <3>2
         DEF ReqOK, LoginReqOK, CookieReqOK, LoginSteps, IdentitySteps, UserSteps
    <3> QED
      BY <3>1, <3>2
  <2>8. \A q \in Requests : q # r /\ pc[q] \in LoginSteps =>
            req[q].state # t /\ \A s \in Sids : session'[s].from # req[q].state
    BY <1>0, <1>2, Zenon DEF SessionInv, ReqOK, LoginReqOK
  <2>9. pc'[r] \in LoginSteps => req'[r].state = t
    BY <1>a, <2>1, <2>2 DEF LoginSteps
  <2>10. \A s \in Sids : SessOK(s)'
    <3> SUFFICES ASSUME NEW s \in Sids PROVE SessOK(s)'
      OBVIOUS
    <3>1. s \in loggedOut' => session'[s].status = "gone"
      BY <1>0, Zenon DEF SessionInv, SessOK
    <3> QED
      BY <1>0, <2>5, <3>1, SessKept
  <2>11. OneSessionPerState' /\ OneRow' /\ (member \subseteq was)'
    BY <1>0 DEF SessionInv, OneSessionPerState, OneRow
  <2> QED
    BY <2>2, <2>3, <2>5, <2>7, <2>8, <2>9, <2>10, <2>11, WriteKeeps
<1> QED
  BY <1>a, <1>1, <1>2 DEF consume_auth_state

LEMMA CallbackKeeps ==
    ASSUME SessionInv, NEW r \in Requests, NEW t \in States, callback(r, t) PROVE SessionInv'
<1> DEFINE a == [NoRequest EXCEPT !.state = t]
<1>1. a \in Request /\ a.state = t /\ a.tenant = NoTenant
  BY DEF NoRequest, Request
<1>2. Carry(r, "consume", a) /\ UNCHANGED <<state, session, loggedOut, Database>>
  BY DEF callback, Start, Carry
<1> HIDE DEF a
<1>3. pc'[r] = "consume" /\ req'[r] = a
  BY <1>2, CarryFacts DEF SessionInv
<1>4. ReqOK(r)'
  BY <1>1, <1>3 DEF ReqOK, LoginReqOK, CookieReqOK, LoginSteps, IdentitySteps, UserSteps
<1>5. "consume" \in Steps /\ "consume" \notin LoginSteps
  BY DEF Steps, LoginSteps
<1> QED
  BY <1>1, <1>2, <1>4, <1>5, RequestKeeps

(* A login goes on with its state: what it carried stays right.            *)
LEMMA ProceedKeeps ==
    ASSUME SessionInv, NEW r \in Requests, pc[r] \in LoginSteps,
           NEW step \in LoginSteps, NEW a \in Request, Carry(r, step, a),
           UNCHANGED <<state, session, loggedOut, Database>>,
           a.state = req[r].state,
           step \in IdentitySteps => a.identity \in Identities,
           step \in UserSteps => a.user \in Users /\ user[a.user] = a.identity,
           step # "create" => a.tenant = NoTenant,
           a.tenant # NoTenant => <<a.user, a.tenant>> \in was
    PROVE  SessionInv'
<1>0. UNCHANGED <<state, session, user, was>>
  BY DEF Database
<1>1. pc'[r] = step /\ req'[r] = a
  BY CarryFacts DEF SessionInv
<1>2. step \in Steps /\ step \notin {"idle", "consume", "check_member", "replace", "destroy"}
  BY DEF LoginSteps, Steps
<1>3. /\ req[r].state \in States /\ state[req[r].state].status = "gone"
      /\ \A s \in Sids : session[s].from # req[r].state
  BY Zenon DEF SessionInv, ReqOK, LoginReqOK
<1>4. LoginReqOK(r)'
  BY <1>0, <1>1, <1>2, <1>3 DEF LoginReqOK
<1>5. CookieReqOK(r)'
  BY <1>1, <1>2 DEF CookieReqOK
<1> QED
  BY <1>2, <1>4, <1>5, RequestKeeps DEF ReqOK

LEMMA LoginReadsKeep ==
    ASSUME SessionInv, NEW r \in Requests,
           exchange_code(r) \/ validate(r) \/ find_user(r) \/ resolve_default_tenant(r)
    PROVE  SessionInv'
<1>0. UNCHANGED <<state, session, loggedOut, Database>> /\ req[r] \in Request
  BY DEF exchange_code, validate, find_user, resolve_default_tenant, SessionInv, TypeOK
<1>1. LoginReqOK(r)
  BY DEF SessionInv, ReqOK
<1>2. CASE Answer(r)
  BY <1>0, <1>2, AnswerKeeps
<1>3. CASE pc[r] = "exchange" /\ Carry(r, "validate", req[r])
  <2>1. pc[r] \in LoginSteps /\ "validate" \in LoginSteps /\ "validate" \notin IdentitySteps
        /\ "validate" \notin UserSteps /\ req[r].tenant = NoTenant
    BY <1>1, <1>3 DEF LoginReqOK, LoginSteps, IdentitySteps, UserSteps
  <2> QED
    BY <1>0, <1>3, <2>1, ProceedKeeps, Zenon
<1>4. CASE pc[r] = "validate" /\ \E i \in Identities : Carry(r, "find_user", [req[r] EXCEPT !.identity = i])
  <2>1. PICK i \in Identities : Carry(r, "find_user", [req[r] EXCEPT !.identity = i])
    BY <1>4
  <2> DEFINE a == [req[r] EXCEPT !.identity = i]
  <2>2. a \in Request /\ a.identity = i /\ a.state = req[r].state /\ a.tenant = req[r].tenant
    BY <1>0 DEF Request
  <2>3. pc[r] \in LoginSteps /\ "find_user" \in LoginSteps /\ "find_user" \notin UserSteps
        /\ req[r].tenant = NoTenant
    BY <1>1, <1>4 DEF LoginReqOK, LoginSteps, UserSteps
  <2>4. Carry(r, "find_user", a)
    BY <2>1
  <2> HIDE DEF a
  <2> QED
    BY <1>0, <2>2, <2>3, <2>4, ProceedKeeps, Zenon
<1>5. CASE pc[r] = "find_user" /\ \E u \in Rows(req[r].identity) :
                                   Carry(r, "default_tenant", [req[r] EXCEPT !.user = u])
  <2>1. PICK u \in Rows(req[r].identity) : Carry(r, "default_tenant", [req[r] EXCEPT !.user = u])
    BY <1>5
  <2> DEFINE a == [req[r] EXCEPT !.user = u]
  <2>0. u \in Users /\ user[u] = req[r].identity
    BY DEF Rows
  <2>2. a \in Request /\ a.user = u /\ a.identity = req[r].identity
        /\ a.state = req[r].state /\ a.tenant = req[r].tenant
    BY <1>0, <2>0 DEF Request
  <2>3. pc[r] \in LoginSteps /\ "default_tenant" \in LoginSteps
        /\ req[r].tenant = NoTenant /\ req[r].identity \in Identities
    BY <1>1, <1>5 DEF LoginReqOK, LoginSteps, IdentitySteps
  <2>4. Carry(r, "default_tenant", a)
    BY <2>1
  <2> HIDE DEF a
  <2> QED
    BY <1>0, <2>0, <2>2, <2>3, <2>4, ProceedKeeps, Zenon
<1>6. CASE pc[r] = "find_user" /\ Carry(r, "insert_user", req[r])
  <2>1. pc[r] \in LoginSteps /\ "insert_user" \in LoginSteps /\ "insert_user" \notin UserSteps
        /\ req[r].tenant = NoTenant /\ req[r].identity \in Identities
    BY <1>1, <1>6, Zenon DEF LoginReqOK, LoginSteps, IdentitySteps, UserSteps
  <2> QED
    BY <1>0, <1>6, <2>1, ProceedKeeps, Zenon
<1>7. CASE pc[r] = "default_tenant" /\ \E t \in TenantsOf(req[r].user) :
                                        Carry(r, "create", [req[r] EXCEPT !.tenant = t])
  <2>1. PICK t \in TenantsOf(req[r].user) : Carry(r, "create", [req[r] EXCEPT !.tenant = t])
    BY <1>7
  <2> DEFINE a == [req[r] EXCEPT !.tenant = t]
  <2>0. t \in Tenants /\ <<req[r].user, t>> \in was
    BY DEF TenantsOf, SessionInv
  <2>2. a \in Request /\ a.user = req[r].user /\ a.identity = req[r].identity
        /\ a.state = req[r].state /\ a.tenant = t
    BY <1>0, <2>0 DEF Request
  <2>3. pc[r] \in LoginSteps /\ "create" \in LoginSteps /\ req[r].identity \in Identities
        /\ req[r].user \in Users /\ user[req[r].user] = req[r].identity
    BY <1>1, <1>7 DEF LoginReqOK, LoginSteps, IdentitySteps, UserSteps
  <2>4. Carry(r, "create", a)
    BY <2>1
  <2> HIDE DEF a
  <2> QED
    BY <1>0, <2>0, <2>2, <2>3, <2>4, ProceedKeeps, Zenon
<1>8. CASE pc[r] = "default_tenant" /\ Carry(r, "create", req[r])
  <2>1. pc[r] \in LoginSteps /\ "create" \in LoginSteps /\ req[r].identity \in Identities
        /\ req[r].user \in Users /\ user[req[r].user] = req[r].identity /\ req[r].tenant = NoTenant
    BY <1>1, <1>8 DEF LoginReqOK, LoginSteps, IdentitySteps, UserSteps
  <2> QED
    BY <1>0, <1>8, <2>1, ProceedKeeps, Zenon
<1> QED
  BY <1>2, <1>3, <1>4, <1>5, <1>6, <1>7, <1>8
     DEF exchange_code, validate, find_user, resolve_default_tenant

(* The insertion takes a fresh row, and only when the identity has none.   *)
LEMMA InsertKeeps == ASSUME SessionInv, NEW r \in Requests, insert_user(r) PROVE SessionInv'
<1>0. /\ TypeOK /\ pc[r] = "insert_user" /\ req[r] \in Request
      /\ UNCHANGED <<state, session, loggedOut, member, was>>
  BY DEF SessionInv, TypeOK, insert_user
<1>1. /\ req[r].state \in States /\ state[req[r].state].status = "gone"
      /\ \A s \in Sids : session[s].from # req[r].state
      /\ req[r].identity \in Identities /\ req[r].tenant = NoTenant
      /\ pc[r] \in LoginSteps
  BY <1>0, Zenon DEF SessionInv, ReqOK, LoginReqOK, LoginSteps, IdentitySteps
<1>2. CASE Answer(r) /\ UNCHANGED user
  BY <1>0, <1>2, AnswerKeeps DEF Database
<1>3. ASSUME NEW u \in Rows(req[r].identity), UNCHANGED user,
             Carry(r, "default_tenant", [req[r] EXCEPT !.user = u])
      PROVE  SessionInv'
  <2> DEFINE a == [req[r] EXCEPT !.user = u]
  <2>0. u \in Users /\ user[u] = req[r].identity
    BY DEF Rows
  <2>1. a \in Request /\ a.user = u /\ a.identity = req[r].identity
        /\ a.state = req[r].state /\ a.tenant = req[r].tenant
    BY <1>0, <2>0 DEF Request
  <2>2. Carry(r, "default_tenant", a) /\ "default_tenant" \in LoginSteps
    BY <1>3 DEF LoginSteps
  <2>3. UNCHANGED <<state, session, loggedOut, Database>>
    BY <1>0, <1>3 DEF Database
  <2> HIDE DEF a
  <2> QED
    BY <1>1, <2>0, <2>1, <2>2, <2>3, ProceedKeeps, Zenon
<1>4. ASSUME NEW u \in Rows(NoId), Rows(req[r].identity) = {},
             user' = [user EXCEPT ![u] = req[r].identity],
             Carry(r, "default_tenant", [req[r] EXCEPT !.user = u])
      PROVE  SessionInv'
  <2> DEFINE a == [req[r] EXCEPT !.user = u]
  <2>0. u \in Users /\ user[u] = NoId /\ \A v \in Users : user[v] # req[r].identity
    BY <1>4 DEF Rows
  <2>1. a \in Request /\ a.user = u /\ a.identity = req[r].identity
        /\ a.state = req[r].state /\ a.tenant = req[r].tenant
    BY <1>0, <2>0 DEF Request
  <2>2. Carry(r, "default_tenant", a)
    BY <1>4
  <2> HIDE DEF a
  <2>3. /\ pc'[r] = "default_tenant" /\ req'[r] = a
        /\ \A q \in Requests : q # r => pc'[q] = pc[q] /\ req'[q] = req[q]
    BY <1>0, <2>2, CarryFacts
  <2>4. user'[u] = req[r].identity /\ \A v \in Users : v # u => user'[v] = user[v]
    BY <1>0, <1>4, <2>0 DEF TypeOK
  <2>5. TypeOK'
    <3>1. user' \in [Users -> Identities \cup {NoId}]
      BY <1>0, <1>1, <1>4, Zenon DEF TypeOK
    <3>2. pc' \in [Requests -> Steps] /\ req' \in [Requests -> Request]
      BY <1>0, <2>1, <2>2 DEF TypeOK, Carry, Steps
    <3> QED
      BY <1>0, <3>1, <3>2 DEF TypeOK
  <2>6. Frame
    BY <1>0, <2>0, <2>4 DEF Frame
  <2>7. ReqOK(r)'
    <3>1. LoginReqOK(r)'
      BY <1>0, <1>1, <2>0, <2>1, <2>3, <2>4 DEF LoginReqOK, LoginSteps, IdentitySteps, UserSteps
    <3>2. CookieReqOK(r)'
      BY <2>3 DEF CookieReqOK
    <3> QED
      BY <3>1, <3>2 DEF ReqOK
  <2>8. \A q \in Requests : q # r /\ pc[q] \in LoginSteps =>
            req'[r].state # req[q].state /\ \A s \in Sids : session'[s].from # req[q].state
    BY <1>0, <1>1, <2>1, <2>3, Zenon DEF SessionInv, StatesDistinct, ReqOK, LoginReqOK
  <2>9. \A s \in Sids : SessOK(s)'
    <3> SUFFICES ASSUME NEW s \in Sids PROVE SessOK(s)'
      OBVIOUS
    <3>1. s \in loggedOut' => session'[s].status = "gone"
      BY <1>0, Zenon DEF SessionInv, SessOK
    <3> QED
      BY <1>0, <2>6, <3>1, SessKept
  <2>10. OneRow'
    BY <2>0, <2>4, Zenon DEF SessionInv, OneRow
  <2>11. OneSessionPerState' /\ (member \subseteq was)'
    BY <1>0 DEF SessionInv, OneSessionPerState
  <2> QED
    BY <2>3, <2>5, <2>6, <2>7, <2>8, <2>9, <2>10, <2>11, WriteKeeps, Zenon
<1> QED
  BY <1>2, <1>3, <1>4, Zenon DEF insert_user

LEMMA NewSession ==
    ASSUME NEW a \in Request
    PROVE  [status |-> "live", ttl |-> SessionTTL, identity |-> a.identity,
            user |-> a.user, tenant |-> a.tenant, from |-> a.state] \in Session
BY DEF Session, Request

(* A session record with the same login, whatever its tenant.              *)
LEMMA CreateKeeps == ASSUME SessionInv, NEW r \in Requests, create_session(r) PROVE SessionInv'
<1>0. /\ TypeOK /\ pc[r] = "create" /\ req[r] \in Request /\ Answer(r)
      /\ UNCHANGED <<state, loggedOut, user, member, was, Database>>
  BY DEF SessionInv, TypeOK, create_session, Database
<1>1. /\ req[r].state \in States /\ state[req[r].state].status = "gone"
      /\ \A s \in Sids : session[s].from # req[r].state
      /\ req[r].identity \in Identities
      /\ req[r].user \in Users /\ user[req[r].user] = req[r].identity
      /\ req[r].tenant # NoTenant => <<req[r].user, req[r].tenant>> \in was
      /\ pc[r] \in LoginSteps
  BY <1>0 DEF SessionInv, ReqOK, LoginReqOK, LoginSteps, IdentitySteps, UserSteps
<1>2. CASE UNCHANGED session
  BY <1>0, <1>2, AnswerKeeps
<1>3. ASSUME NEW n \in Sids, session[n].status = "unused",
             session' = [session EXCEPT ![n] =
                 [status |-> "live", ttl |-> SessionTTL, identity |-> req[r].identity,
                  user |-> req[r].user, tenant |-> req[r].tenant, from |-> req[r].state]]
      PROVE  SessionInv'
  <2> DEFINE new == [status |-> "live", ttl |-> SessionTTL, identity |-> req[r].identity,
                     user |-> req[r].user, tenant |-> req[r].tenant, from |-> req[r].state]
  <2>1. new \in Session
    BY <1>0, NewSession
  <2>2. session'[n] = new /\ \A s \in Sids : s # n => session'[s] = session[s]
    BY <1>0, <1>3 DEF TypeOK
  <2>3. /\ new.status = "live" /\ new.identity = req[r].identity /\ new.user = req[r].user
        /\ new.tenant = req[r].tenant /\ new.from = req[r].state
    OBVIOUS
  <2>4. session' \in [Sids -> Session]
    BY <1>0, <1>3, <2>1 DEF TypeOK
  <2> HIDE DEF new
  <2>5. /\ pc'[r] = "idle"
        /\ \A q \in Requests : q # r => pc'[q] = pc[q] /\ req'[q] = req[q]
        /\ pc' \in [Requests -> Steps] /\ req' \in [Requests -> Request]
    BY <1>0, NoRequestTyped, CarryFacts DEF Answer, TypeOK, Carry
  <2>6. TypeOK'
    BY <1>0, <2>4, <2>5 DEF TypeOK
  <2>7. Frame
    BY <1>0, <1>3, <2>2, Zenon DEF Frame
  <2>8. \A q \in Requests : q # r /\ pc[q] \in LoginSteps =>
            \A s \in Sids : session'[s].from # req[q].state
    <3> SUFFICES ASSUME NEW q \in Requests, q # r, pc[q] \in LoginSteps, NEW s \in Sids
                 PROVE  session'[s].from # req[q].state
      OBVIOUS
    <3>1. session[s].from # req[q].state /\ req[r].state # req[q].state
      BY <1>1, Zenon DEF SessionInv, StatesDistinct, ReqOK, LoginReqOK
    <3> QED
      BY <2>2, <2>3, <3>1, Zenon
  <2>9. ReqOK(r)' /\ pc'[r] \notin LoginSteps
    BY <2>5, IdleOK, NoRequestTyped
  <2>10. \A s \in Sids : SessOK(s)'
    <3> SUFFICES ASSUME NEW s \in Sids PROVE SessOK(s)'
      OBVIOUS
    <3>0. s \in loggedOut => session[s].status = "gone"
      BY Zenon DEF SessionInv, SessOK
    <3>1. CASE s = n
      <4>1. /\ session'[s].status = "live" /\ session'[s].identity = req[r].identity
            /\ session'[s].user = req[r].user /\ session'[s].tenant = req[r].tenant
            /\ session'[s].from = req[r].state
        BY <2>2, <2>3, <3>1
      <4>2. UNCHANGED <<state, user, was>> /\ s \notin loggedOut'
        BY <1>0, <1>3, <3>0, <3>1, Zenon
      <4> QED
        BY <1>1, <4>1, <4>2, Zenon DEF SessOK
    <3>2. CASE s # n
      BY <1>0, <2>2, <2>7, <3>0, <3>2, SessKept, Zenon
    <3> QED
      BY <3>1, <3>2
  <2>11. OneSessionPerState'
    <3> SUFFICES ASSUME NEW s \in Sids, NEW t \in Sids, session'[s].from = session'[t].from,
                        session'[s].from # NoState
                 PROVE  s = t
      BY DEF OneSessionPerState
    <3>1. session'[n].from = req[r].state
      BY <2>2, <2>3
    <3>2. \A x \in Sids : x # n => session'[x].from # req[r].state
      BY <1>1, <2>2
    <3>3. CASE s # n /\ t # n
      BY <2>2, <3>3 DEF SessionInv, OneSessionPerState
    <3> QED
      BY <3>1, <3>2, <3>3
  <2>12. OneRow' /\ (member \subseteq was)'
    BY <1>0 DEF SessionInv, OneRow
  <2> QED
    BY <2>5, <2>6, <2>7, <2>8, <2>9, <2>10, <2>11, <2>12, WriteKeeps, Zenon
<1> QED
  BY <1>2, <1>3 DEF create_session

-----------------------------------------------------------------------------
(* The request to switch the session with key s and value x to tenant t.   *)
SwitchRequest(s, t, x) ==
    [NoRequest EXCEPT !.sid = s, !.tenant = t, !.user = x.user,
                      !.identity = x.identity, !.state = x.from]

LEMMA SwitchRequestTyped ==
    ASSUME NEW s \in Sids, NEW t \in Tenants, NEW x \in Session
    PROVE  /\ SwitchRequest(s, t, x) \in Request /\ SwitchRequest(s, t, x).sid = s
           /\ SwitchRequest(s, t, x).user = x.user
           /\ SwitchRequest(s, t, x).identity = x.identity
           /\ SwitchRequest(s, t, x).state = x.from
BY Zenon DEF SwitchRequest, NoRequest, Request, Session

LEMMA SwitchKeeps ==
    ASSUME SessionInv, NEW r \in Requests, NEW s \in Sids, NEW t \in Tenants,
           switch_active_tenant(r, s, t), session[s].status = "live"
    PROVE  SessionInv'
<1>1. PICK x \in Session : x = session[s]
  BY DEF SessionInv, TypeOK
<1>a. PICK a : a = SwitchRequest(s, t, x)
  OBVIOUS
<1>b. /\ a \in Request /\ a.sid = s /\ a.user = x.user
      /\ a.identity = x.identity /\ a.state = x.from
  BY <1>a, SwitchRequestTyped
<1>2. a \in Request /\ a.sid = s /\ a.user = session[s].user
      /\ a.identity = session[s].identity /\ a.state = session[s].from
  BY <1>1, <1>b
<1>3. Carry(r, "check_member", a) /\ UNCHANGED <<state, session, loggedOut, Database>>
  BY <1>1, <1>a DEF SwitchRequest, switch_active_tenant, Start, Carry
<1>4. pc'[r] = "check_member" /\ req'[r] = a
  BY <1>3, CarryFacts DEF SessionInv
<1>5. LoginReqOK(r)'
  BY <1>4, Zenon DEF LoginReqOK, LoginSteps, IdentitySteps, UserSteps
<1>6. CookieReqOK(r)'
  BY <1>2, <1>3, <1>4 DEF CookieReqOK
<1>7. "check_member" \in Steps /\ "check_member" \notin LoginSteps
  BY DEF Steps, LoginSteps
<1> QED
  BY <1>2, <1>3, <1>5, <1>6, <1>7, RequestKeeps DEF ReqOK

LEMMA ResolveKeeps ==
    ASSUME SessionInv, NEW r \in Requests, resolve_tenant_membership(r) PROVE SessionInv'
<1>0. UNCHANGED <<state, session, loggedOut, Database>> /\ req[r] \in Request
      /\ UNCHANGED <<session, was>>
  BY DEF resolve_tenant_membership, SessionInv, TypeOK, Database
<1>1. CASE Answer(r)
  BY <1>0, <1>1, AnswerKeeps
<1>2. CASE <<req[r].user, req[r].tenant>> \in member /\ Carry(r, "replace", req[r])
  <2>1. pc'[r] = "replace" /\ req'[r] = req[r] /\ pc[r] = "check_member"
    BY <1>2, CarryFacts DEF SessionInv, resolve_tenant_membership
  <2>2. LoginReqOK(r)'
    BY <1>0, <1>2, <2>1 DEF SessionInv, LoginReqOK, LoginSteps, IdentitySteps, UserSteps
  <2>3. CookieReqOK(r)'
    BY <1>0, <2>1 DEF SessionInv, ReqOK, CookieReqOK
  <2>4. "replace" \in Steps /\ "replace" \notin LoginSteps
    BY DEF Steps, LoginSteps
  <2> QED
    BY <1>0, <1>2, <2>2, <2>3, <2>4, RequestKeeps DEF ReqOK
<1> QED
  BY <1>1, <1>2 DEF resolve_tenant_membership

LEMMA LogoutKeeps ==
    ASSUME SessionInv, NEW r \in Requests, NEW s \in Sids, logout(r, s), session[s].status = "live"
    PROVE  SessionInv'
<1> DEFINE a == [NoRequest EXCEPT !.sid = s]
<1>1. a \in Request /\ a.sid = s
  BY DEF NoRequest, Request
<1>2. Carry(r, "destroy", a) /\ UNCHANGED <<state, session, loggedOut, Database>>
  BY DEF logout, Start, Carry
<1> HIDE DEF a
<1>3. pc'[r] = "destroy" /\ req'[r] = a
  BY <1>2, CarryFacts DEF SessionInv
<1>4. ReqOK(r)'
  BY <1>1, <1>2, <1>3 DEF ReqOK, LoginReqOK, CookieReqOK, LoginSteps, IdentitySteps, UserSteps
<1>5. "destroy" \in Steps /\ "destroy" \notin LoginSteps
  BY DEF Steps, LoginSteps
<1> QED
  BY <1>1, <1>2, <1>4, <1>5, RequestKeeps, Zenon

(* What makes a rewritten session a good one.                              *)
LEMMA SessionIs ==
    ASSUME NEW s \in Sids, NEW new, session'[s] = new, new.status # "unused",
           new.from \in States, state'[new.from].status = "gone",
           new.identity \in Identities, new.user \in Users, user'[new.user] = new.identity,
           new.tenant # NoTenant => <<new.user, new.tenant>> \in was',
           s \in loggedOut' => new.status = "gone"
    PROVE  SessOK(s)'
BY DEF SessOK

(* The answer to a request that rewrote one existing session: its login is *)
(* the same, and its tenant is the old one or one of the user's.           *)
LEMMA RewriteKeeps ==
    ASSUME SessionInv, NEW r \in Requests, Answer(r), NEW n \in Sids, NEW new \in Session,
           session[n].status # "unused", new.status # "unused",
           session' = [session EXCEPT ![n] = new],
           new.from = session[n].from, new.identity = session[n].identity, new.user = session[n].user,
           new.tenant # NoTenant => <<new.user, new.tenant>> \in was,
           loggedOut' \subseteq Sids,
           \A s \in loggedOut' : s \in loggedOut \/ s = n,
           n \in loggedOut' => new.status = "gone",
           UNCHANGED <<state, Database>>
    PROVE  SessionInv'
<1>0. TypeOK /\ UNCHANGED <<state, user, member, was>>
  BY DEF SessionInv, Database
<1>1. session'[n] = new /\ \A s \in Sids : s # n => session'[s] = session[s]
  BY <1>0 DEF TypeOK
<1>2. /\ pc'[r] = "idle"
      /\ \A q \in Requests : q # r => pc'[q] = pc[q] /\ req'[q] = req[q]
      /\ pc' \in [Requests -> Steps] /\ req' \in [Requests -> Request]
  BY <1>0, NoRequestTyped, CarryFacts DEF Answer, TypeOK, Carry
<1>3. TypeOK'
  BY <1>0, <1>2 DEF TypeOK
<1>4. Frame
  BY <1>0, <1>1, Zenon DEF Frame
<1>5. \A s \in Sids : session'[s].from = session[s].from
  BY <1>1
<1>6. \A q \in Requests : q # r /\ pc[q] \in LoginSteps =>
          \A s \in Sids : session'[s].from # req[q].state
  <2>1. \A q \in Requests : pc[q] \in LoginSteps =>
            \A s \in Sids : session[s].from # req[q].state
    BY Zenon DEF SessionInv, ReqOK, LoginReqOK
  <2> QED
    BY <1>5, <2>1
<1>7. ReqOK(r)' /\ pc'[r] \notin LoginSteps
  BY <1>2, IdleOK, NoRequestTyped
<1>8. \A s \in Sids : SessOK(s)'
  <2> SUFFICES ASSUME NEW s \in Sids PROVE SessOK(s)'
    OBVIOUS
  <2>0. SessOK(s)
    BY DEF SessionInv
  <2>1. CASE s = n
    <3>1. session'[s] = new
      BY <1>1, <2>1
    <3>a. UNCHANGED <<state, user, was>> /\ (s \in loggedOut' => new.status = "gone")
      BY <1>0, <2>1
    <3>b. /\ session[n].from \in States /\ state[session[n].from].status = "gone"
          /\ session[n].identity \in Identities /\ session[n].user \in Users
          /\ user[session[n].user] = session[n].identity
      BY <2>0, <2>1, Zenon DEF SessOK
    <3>2. /\ new.from \in States /\ state'[new.from].status = "gone"
          /\ new.identity \in Identities /\ new.user \in Users /\ user'[new.user] = new.identity
          /\ new.tenant # NoTenant => <<new.user, new.tenant>> \in was'
      BY <3>a, <3>b, Zenon
    <3> QED
      BY <3>1, <3>a, <3>2, SessionIs
  <2>2. CASE s # n
    <3>1. s \in loggedOut' => session'[s].status = "gone"
      BY <1>1, <2>0, <2>2 DEF SessOK
    <3> QED
      BY <1>1, <1>4, <2>2, <3>1, SessKept
  <2> QED
    BY <2>1, <2>2
<1>9. OneSessionPerState' /\ OneRow' /\ (member \subseteq was)'
  <2>1. OneSessionPerState'
    BY <1>5 DEF SessionInv, OneSessionPerState
  <2>2. OneRow' /\ (member \subseteq was)'
    BY <1>0 DEF SessionInv, OneRow
  <2> QED
    BY <2>1, <2>2
<1> QED
  BY <1>2, <1>3, <1>4, <1>6, <1>7, <1>8, <1>9, WriteKeeps

LEMMA ReplaceKeeps == ASSUME SessionInv, NEW r \in Requests, replace_session(r) PROVE SessionInv'
<1>0. /\ TypeOK /\ pc[r] = "replace" /\ Answer(r) /\ req[r] \in Request
      /\ UNCHANGED <<state, loggedOut, Database>>
  BY DEF SessionInv, TypeOK, replace_session
<1>1. CASE UNCHANGED session
  BY <1>0, <1>1, AnswerKeeps
<1>2. CASE /\ session[req[r].sid].status = "live"
           /\ session' = [session EXCEPT ![req[r].sid] = Replaced(r, @.ttl)]
  <2>1. PICK n \in Sids : n = req[r].sid
    BY <1>0, Zenon DEF SessionInv, ReqOK, CookieReqOK
  <2> DEFINE new == Replaced(r, session[n].ttl)
  <2>2. /\ session[n].from = req[r].state /\ session[n].identity = req[r].identity
        /\ session[n].user = req[r].user /\ session[n] \in Session
        /\ req[r].tenant # NoTenant => <<req[r].user, req[r].tenant>> \in was
    BY <1>0, <2>1, Zenon DEF SessionInv, TypeOK, ReqOK, CookieReqOK, LoginReqOK
  <2>3. /\ new \in Session /\ new.status = "live" /\ new.from = req[r].state
        /\ new.identity = req[r].identity /\ new.user = req[r].user /\ new.tenant = req[r].tenant
    BY <1>0, <2>2, Zenon DEF Replaced, Session, Request
  <2>4. session' = [session EXCEPT ![n] = new]
    BY <1>2, <2>1
  <2> HIDE DEF new
  <2>5. loggedOut' \subseteq Sids /\ n \notin loggedOut'
    BY <1>0, <1>2, <2>1, Zenon DEF TypeOK, SessionInv, SessOK
  <2>6. /\ session[n].status # "unused" /\ new.status # "unused"
        /\ new.from = session[n].from /\ new.identity = session[n].identity
        /\ new.user = session[n].user
        /\ new.tenant # NoTenant => <<new.user, new.tenant>> \in was
    BY <1>2, <2>1, <2>2, <2>3, Zenon
  <2>7. Answer(r) /\ new \in Session /\ UNCHANGED <<state, Database>> /\ UNCHANGED loggedOut
    BY <1>0, <2>3, Zenon
  <2> QED
    BY <2>4, <2>5, <2>6, <2>7, RewriteKeeps, Zenon
<1> QED
  BY <1>1, <1>2 DEF replace_session

(* An ended session remembers its login and its tenant.                    *)
LEMMA EndedFacts ==
    ASSUME NEW s \in Sids, session[s] \in Session
    PROVE  /\ Ended(s) \in Session /\ Ended(s).status = "gone"
           /\ Ended(s).from = session[s].from /\ Ended(s).identity = session[s].identity
           /\ Ended(s).user = session[s].user /\ Ended(s).tenant = session[s].tenant
<1>1. PICK x \in Session : x = session[s]
  OBVIOUS
<1>2. PICK y : y = [x EXCEPT !.status = "gone"]
  BY Zenon
<1>3. y \in Session /\ y.status = "gone" /\ y.from = x.from /\ y.identity = x.identity
      /\ y.user = x.user /\ y.tenant = x.tenant
  BY <1>2 DEF Session
<1>4. PICK z : z = [y EXCEPT !.ttl = 0]
  BY Zenon
<1>5. z \in Session /\ z.status = y.status /\ z.from = y.from /\ z.identity = y.identity
      /\ z.user = y.user /\ z.tenant = y.tenant
  BY <1>3, <1>4 DEF Session
<1>6. Ended(s) = z
  BY <1>1, <1>2, <1>4, Zenon DEF Ended
<1> QED
  BY <1>1, <1>3, <1>5, <1>6

LEMMA DestroyKeeps == ASSUME SessionInv, NEW r \in Requests, destroy_session(r) PROVE SessionInv'
<1>0. TypeOK /\ pc[r] = "destroy" /\ Answer(r) /\ UNCHANGED <<state, Database>>
  BY DEF SessionInv, destroy_session
<1>1. CASE UNCHANGED <<session, loggedOut>>
  BY <1>0, <1>1, AnswerKeeps
<1>2. CASE /\ session' = [session EXCEPT ![req[r].sid] = Ended(req[r].sid)]
           /\ loggedOut' = loggedOut \cup {req[r].sid} \/ UNCHANGED loggedOut
  <2>1. PICK n \in Sids : n = req[r].sid /\ session[n].status # "unused"
    BY <1>0, Zenon DEF SessionInv, ReqOK, CookieReqOK
  <2> DEFINE new == Ended(n)
  <2>2. session[n] \in Session /\ (session[n].tenant # NoTenant => <<session[n].user, session[n].tenant>> \in was)
    BY <1>0, Zenon DEF TypeOK, SessionInv, SessOK
  <2>3. /\ new \in Session /\ new.status = "gone" /\ new.from = session[n].from
        /\ new.identity = session[n].identity /\ new.user = session[n].user
        /\ new.tenant = session[n].tenant
    BY <2>2, EndedFacts
  <2>4. session' = [session EXCEPT ![n] = new]
    BY <1>2, <2>1
  <2> HIDE DEF new
  <2>5. loggedOut' \subseteq Sids /\ \A s \in loggedOut' : s \in loggedOut \/ s = n
    BY <1>0, <1>2, <2>1 DEF TypeOK
  <2> QED
    BY <1>0, <2>1, <2>2, <2>3, <2>4, <2>5, RewriteKeeps, Zenon
<1> QED
  BY <1>1, <1>2 DEF destroy_session

-----------------------------------------------------------------------------
(* A tick changes neither what a session holds nor an ended key.           *)
LEMMA ShorterTTL ==
    ASSUME NEW x \in Session, NEW n \in 0..SessionTTL
    PROVE  /\ [x EXCEPT !.ttl = n] \in Session
           /\ [x EXCEPT !.ttl = n].from = x.from /\ [x EXCEPT !.ttl = n].identity = x.identity
           /\ [x EXCEPT !.ttl = n].user = x.user /\ [x EXCEPT !.ttl = n].tenant = x.tenant
           /\ [x EXCEPT !.ttl = n].status = x.status
BY DEF Session

LEMMA TickFacts ==
    ASSUME SessionInv, Tick, NEW s \in Sids
    PROVE  /\ session'[s] \in Session
           /\ session'[s].from = session[s].from /\ session'[s].identity = session[s].identity
           /\ session'[s].user = session[s].user /\ session'[s].tenant = session[s].tenant
           /\ session'[s].status = "unused" <=> session[s].status = "unused"
           /\ session[s].status = "gone" => session'[s].status = "gone"
<1>1. session[s] \in Session
  BY DEF SessionInv, TypeOK
<1>2. session'[s] = IF session[s].ttl > 1 THEN [session[s] EXCEPT !.ttl = @ - 1]
                    ELSE IF session[s].status = "live" THEN Ended(s) ELSE session[s]
  BY DEF Tick
<1>3. CASE session[s].ttl > 1
  <2>1. PICK n \in 0..SessionTTL : n = session[s].ttl - 1
    BY <1>1, <1>3 DEF Session
  <2>2. PICK x : x = [session[s] EXCEPT !.ttl = n]
    BY Zenon
  <2>3. /\ x \in Session /\ x.from = session[s].from /\ x.identity = session[s].identity
        /\ x.user = session[s].user /\ x.tenant = session[s].tenant /\ x.status = session[s].status
    BY <1>1, <2>2, ShorterTTL
  <2>4. session'[s] = x
    BY <1>2, <1>3, <2>1, <2>2
  <2> QED
    BY <2>3, <2>4
<1>4. CASE ~(session[s].ttl > 1) /\ session[s].status = "live"
  <2>1. session'[s] = Ended(s)
    BY <1>2, <1>4
  <2> QED
    BY <1>1, <1>4, <2>1, EndedFacts
<1>5. CASE ~(session[s].ttl > 1) /\ session[s].status # "live"
  BY <1>1, <1>2, <1>5
<1> QED
  BY <1>3, <1>4, <1>5, Zenon

LEMMA TickStateFacts ==
    ASSUME SessionInv, Tick, NEW t \in States
    PROVE  state'[t] \in AuthState /\ (state[t].status = "gone" => state'[t].status = "gone")
<1>1. state[t] \in AuthState
  BY DEF SessionInv, TypeOK
<1>2. state'[t] = IF state[t].ttl > 1 THEN [state[t] EXCEPT !.ttl = @ - 1]
                  ELSE IF state[t].status = "live" THEN [status |-> "gone", ttl |-> 0] ELSE state[t]
  BY DEF Tick
<1>3. CASE state[t].ttl > 1
  <2>1. state'[t] = [state[t] EXCEPT !.ttl = state[t].ttl - 1]
    BY <1>2, <1>3
  <2>2. state[t].ttl \in 0..StateTTL /\ state[t].ttl - 1 \in 0..StateTTL
    BY <1>1, <1>3 DEF AuthState
  <2> QED
    BY <1>1, <2>1, <2>2 DEF AuthState
<1>4. CASE ~(state[t].ttl > 1)
  BY <1>1, <1>2, <1>4 DEF AuthState
<1> QED
  BY <1>3, <1>4

LEMMA TickKeeps == SessionInv /\ Tick => SessionInv'
<1> SUFFICES ASSUME SessionInv, Tick PROVE SessionInv'
  OBVIOUS
<1>0. UNCHANGED <<loggedOut, pc, req, user, member, was>>
  BY DEF Tick, Database
<1>1. session' \in [Sids -> Session]
  <2>1. session' = [s \in Sids |-> session'[s]]
    BY DEF Tick
  <2> QED
    BY <2>1, TickFacts
<1>2. state' \in [States -> AuthState]
  <2>1. state' = [t \in States |-> state'[t]]
    BY DEF Tick
  <2> QED
    BY <2>1, TickStateFacts
<1>3. TypeOK'
  BY <1>0, <1>1, <1>2 DEF SessionInv, TypeOK
<1>4. Frame
  BY <1>0, TickFacts, TickStateFacts DEF Frame
<1>5. \A s \in Sids : SessOK(s)'
  <2> SUFFICES ASSUME NEW s \in Sids PROVE SessOK(s)'
    OBVIOUS
  <2>1. s \in loggedOut' => session'[s].status = "gone"
    BY <1>0, TickFacts, Zenon DEF SessionInv, SessOK
  <2> QED
    BY <1>4, <2>1, TickFacts, SessKept
<1>6. OneRow' /\ (member \subseteq was)'
  BY <1>0 DEF SessionInv, OneRow
<1> QED
  BY <1>0, <1>3, <1>4, <1>5, <1>6, TickFacts, OutsideKeeps

LEMMA MembershipKeeps ==
    ASSUME SessionInv, NEW u \in Users, NEW t \in Tenants, ChangeMembership(u, t) PROVE SessionInv'
<1>0. UNCHANGED <<state, session, user, loggedOut, pc, req>>
  BY DEF ChangeMembership
<1>1. member' \subseteq was' /\ was \subseteq was'
  BY DEF ChangeMembership
<1>2. TypeOK'
  BY <1>0 DEF SessionInv, TypeOK, ChangeMembership
<1>3. Frame
  BY <1>0, <1>1 DEF Frame
<1>4. \A s \in Sids : SessOK(s)'
  BY <1>0, <1>1, Zenon DEF SessionInv, SessOK
<1>5. OneRow'
  BY <1>0 DEF SessionInv, OneRow
<1> QED
  BY <1>0, <1>1, <1>2, <1>3, <1>4, <1>5, OutsideKeeps

LEMMA CrashKeeps == SessionInv /\ Crash => SessionInv'
<1> SUFFICES ASSUME SessionInv, Crash PROVE SessionInv'
  OBVIOUS
<1>0. UNCHANGED <<state, session, loggedOut, user, member, was>>
  BY DEF Crash, Database
<1>1. \A r \in Requests : pc'[r] = "idle"
  BY DEF Crash
<1>2. TypeOK'
  BY <1>0, NoRequestTyped DEF SessionInv, TypeOK, Crash
<1>3. \A r \in Requests : ReqOK(r)'
  BY <1>1, IdleOK
<1>4. StatesDistinct'
  BY <1>1, NoRequestTyped DEF StatesDistinct
<1>5. \A s \in Sids : SessOK(s)'
  BY <1>0, Zenon DEF SessionInv, SessOK
<1>6. OneSessionPerState' /\ OneRow' /\ (member \subseteq was)'
  BY <1>0 DEF SessionInv, OneSessionPerState, OneRow
<1> QED
  BY <1>2, <1>3, <1>4, <1>5, <1>6 DEF SessionInv

LEMMA StutterKeeps == SessionInv /\ UNCHANGED vars => SessionInv'
<1> SUFFICES ASSUME SessionInv, UNCHANGED vars PROVE SessionInv'
  OBVIOUS
<1>0. UNCHANGED <<state, session, user, member, was, loggedOut, pc, req>>
  BY DEF vars
<1>1. TypeOK' /\ Frame
  BY <1>0 DEF SessionInv, TypeOK, Frame
<1>2. \A s \in Sids : SessOK(s)'
  BY <1>0, Zenon DEF SessionInv, SessOK
<1>3. OneRow' /\ (member \subseteq was)'
  BY <1>0 DEF SessionInv, OneRow
<1> QED
  BY <1>0, <1>1, <1>2, <1>3, OutsideKeeps

LEMMA NextKeeps == SessionInv /\ [Next]_vars => SessionInv'
<1> SUFFICES ASSUME SessionInv, [Next]_vars PROVE SessionInv'
  OBVIOUS
<1>1. CASE UNCHANGED vars
  BY <1>1, StutterKeeps
<1>2. CASE \E t \in States : login(t)
  BY <1>2, LoginKeeps
<1>3. ASSUME NEW r \in Requests, NEW t \in States, callback(r, t) PROVE SessionInv'
  BY <1>3, CallbackKeeps
<1>4. ASSUME NEW r \in Requests, NEW s \in Sids, NEW t \in Tenants, switch_active_tenant(r, s, t)
      PROVE  SessionInv'
  <2>1. CASE session[s].status = "live"
    BY <1>4, <2>1, SwitchKeeps
  <2>2. CASE session[s].status # "live"
    BY <1>1, <1>4, <2>2 DEF switch_active_tenant, vars, Database
  <2> QED
    BY <2>1, <2>2
<1>5. ASSUME NEW r \in Requests, NEW s \in Sids, logout(r, s) PROVE SessionInv'
  <2>1. CASE session[s].status = "live"
    BY <1>5, <2>1, LogoutKeeps
  <2>2. CASE session[s].status # "live"
    BY <1>1, <1>5, <2>2 DEF logout, vars, Database
  <2> QED
    BY <2>1, <2>2
<1>6. ASSUME NEW r \in Requests, Step(r) PROVE SessionInv'
  BY <1>6, ConsumeKeeps, LoginReadsKeep, InsertKeeps, CreateKeeps, ResolveKeeps, ReplaceKeeps,
     DestroyKeeps DEF Step
<1>7. CASE \E u \in Users, t \in Tenants : ChangeMembership(u, t)
  BY <1>7, MembershipKeeps
<1>8. CASE Tick \/ Crash
  BY <1>8, TickKeeps, CrashKeeps
<1> QED
  BY <1>1, <1>2, <1>3, <1>4, <1>5, <1>6, <1>7, <1>8 DEF Next

LEMMA AlwaysInv == Spec => []SessionInv
BY InitKeeps, NextKeeps, PTL DEF Spec

-----------------------------------------------------------------------------
(* Repeated and concurrent callbacks give one session per login state and  *)
(* one user per identity, for any number of them.                          *)
THEOREM AlwaysAgree == Spec => []LoginsAgree
<1>1. SessionInv => LoginsAgree
  <2> SUFFICES ASSUME SessionInv PROVE OneUserPerIdentity
    BY DEF LoginsAgree, SessionInv
  <2> SUFFICES ASSUME NEW s \in Sids, NEW t \in Sids,
                      session[s].identity = session[t].identity, session[s].identity # NoId
               PROVE  session[s].user = session[t].user
    BY DEF OneUserPerIdentity
  <2>1. /\ session[s].user \in Users /\ user[session[s].user] = session[s].identity
        /\ session[t].user \in Users /\ user[session[t].user] = session[t].identity
    BY Zenon DEF SessionInv, SessOK
  <2> QED
    BY <2>1, Zenon DEF SessionInv, OneRow
<1> QED
  BY <1>1, AlwaysInv, PTL

(* The tenant of a session, given at login or by a switch, is one its user *)
(* was an active member of.                                                *)
THEOREM AlwaysMember == Spec => []TenantWasMember
<1>1. SessionInv => TenantWasMember
  BY DEF SessionInv, SessOK, TenantWasMember
<1> QED
  BY <1>1, AlwaysInv, PTL

(* No step brings an ended session back.                                   *)
LEMMA GoneStays ==
    ASSUME SessionInv, [Next]_vars, NEW s \in Sids, session[s].status = "gone"
    PROVE  session'[s].status = "gone"
<1>0. session \in [Sids -> Session]
  BY DEF SessionInv, TypeOK
<1>1. CASE UNCHANGED session
  BY <1>1
<1>2. ASSUME NEW r \in Requests, create_session(r) PROVE session'[s].status = "gone"
  BY <1>0, <1>2, Zenon DEF create_session
<1>3. ASSUME NEW r \in Requests, replace_session(r) PROVE session'[s].status = "gone"
  BY <1>0, <1>3 DEF replace_session
<1>4. ASSUME NEW r \in Requests, destroy_session(r) PROVE session'[s].status = "gone"
  <2>1. CASE s = req[r].sid /\ session' = [session EXCEPT ![req[r].sid] = Ended(req[r].sid)]
    BY <1>0, <2>1, EndedFacts, Zenon
  <2>2. CASE s # req[r].sid
    BY <1>0, <1>4, <2>2, Zenon DEF destroy_session
  <2> QED
    BY <1>1, <1>4, <2>1, <2>2 DEF destroy_session
<1>5. CASE Tick
  BY <1>5, TickFacts
<1>6. ASSUME NEW r \in Requests, Step(r) PROVE session'[s].status = "gone"
  BY <1>1, <1>2, <1>3, <1>4, <1>6
     DEF Step, consume_auth_state, exchange_code, validate, find_user, insert_user,
         resolve_default_tenant, resolve_tenant_membership
<1>7. ASSUME NEW r \in Requests,
             \/ \E t \in States : callback(r, t)
             \/ \E x \in Sids, t \in Tenants : switch_active_tenant(r, x, t)
             \/ \E x \in Sids : logout(r, x)
      PROVE  session'[s].status = "gone"
  BY <1>1, <1>7, Zenon DEF callback, switch_active_tenant, logout
<1>8. CASE \/ UNCHANGED vars
           \/ \E t \in States : login(t)
           \/ \E u \in Users, t \in Tenants : ChangeMembership(u, t)
           \/ Crash
  BY <1>1, <1>8, Zenon DEF vars, login, ChangeMembership, Crash
<1> QED
  BY <1>5, <1>6, <1>7, <1>8, Zenon DEF Next

(* A destroyed or expired session never comes back, whichever requests     *)
(* read it before, and a logout answered with success has left none.       *)
THEOREM NeverRevived == Spec => NoRevival
<1>1. SessionInv /\ SessionInv' /\ [Next]_vars =>
        [\A s \in Sids : session[s].status = "gone" \/ s \in loggedOut'
                          => session'[s].status = "gone"]_vars
  BY GoneStays, Zenon DEF SessionInv, SessOK
<1> QED
  BY <1>1, AlwaysInv, PTL DEF Spec, NoRevival

=============================================================================
