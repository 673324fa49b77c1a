------------------------------- MODULE Sessions -------------------------------
(***************************************************************************)
(* Login, workforce sessions and tenant switching: auth/router.py over the *)
(* Valkey session store, with the workforce user upsert and the choice of  *)
(* the default tenant.                                                     *)
(*                                                                         *)
(* Valkey commands are atomic; a request awaits between them.  A key that  *)
(* has a time to live is its number of remaining ticks, and a Tick takes   *)
(* one from every key.  A command can fail before it takes effect or lose  *)
(* its answer after it did; both raise SessionUnavailableError.  State and *)
(* session ids are random and each is issued once.  The state cookie, the  *)
(* CSRF token and redirect checks refuse a request before it changes       *)
(* anything and are left out.  No code disables a user.                    *)
(***************************************************************************)
EXTENDS Naturals, FiniteSets

CONSTANTS
    States,        \* OAuth state ids
    Sids,          \* session ids
    Identities,    \* verified (issuer, subject) pairs
    Users,         \* user row ids
    Tenants,
    Requests,      \* concurrently served requests
    StateTTL,      \* AUTH_STATE_TTL_SECONDS in ticks
    SessionTTL     \* SESSION_TTL_SECONDS in ticks

ASSUME SessionsAssumption == StateTTL \in Nat \ {0} /\ SessionTTL \in Nat \ {0}

VARIABLES
    state,      \* serviq:auth:state keys: unused, ticks left, or gone
    session,    \* serviq:session keys
    user,       \* users rows: the identity of each
    member,     \* <<user, tenant>> pairs with an active membership
    was,        \* every pair that ever was in member (history)
    loggedOut,  \* sessions whose logout was answered with 204 (history)
    pc, req     \* next step of each request and what it carries

vars == <<state, session, user, member, was, loggedOut, pc, req>>

NoState == "no state"
NoSid == "no session"
NoId == "no identity"
NoUser == "no user"
NoTenant == "no tenant"

ASSUME AbsentAssumption == NoState \notin States /\ NoId \notin Identities

Session == [status : {"unused", "live", "gone"}, ttl : 0..SessionTTL,
            identity : Identities \cup {NoId}, user : Users \cup {NoUser},
            tenant : Tenants \cup {NoTenant}, from : States \cup {NoState}]

AuthState == [status : {"unused", "live", "gone"}, ttl : 0..StateTTL]

Steps == {"idle", "consume", "exchange", "validate", "find_user", "insert_user", "default_tenant",
          "create", "check_member", "replace", "destroy"}

Request == [state : States \cup {NoState}, identity : Identities \cup {NoId},
            user : Users \cup {NoUser}, tenant : Tenants \cup {NoTenant}, sid : Sids \cup {NoSid}]

TypeOK ==
    /\ state \in [States -> AuthState]
    /\ session \in [Sids -> Session]
    /\ user \in [Users -> Identities \cup {NoId}]
    /\ member \in SUBSET (Users \X Tenants)
    /\ was \in SUBSET (Users \X Tenants)
    /\ loggedOut \in SUBSET Sids
    /\ pc \in [Requests -> Steps]
    /\ req \in [Requests -> Request]

NoRequest == [state |-> NoState, identity |-> NoId, user |-> NoUser, tenant |-> NoTenant, sid |-> NoSid]

NoSession == [status |-> "unused", ttl |-> 0, identity |-> NoId, user |-> NoUser,
              tenant |-> NoTenant, from |-> NoState]

(* A key that is gone; what it held is remembered for the properties.      *)
Ended(s) == [session[s] EXCEPT !.status = "gone", !.ttl = 0]

Init ==
    /\ state = [t \in States |-> [status |-> "unused", ttl |-> 0]]
    /\ session = [s \in Sids |-> NoSession]
    /\ user = [u \in Users |-> NoId]
    /\ member = {} /\ was = {} /\ loggedOut = {}
    /\ pc = [r \in Requests |-> "idle"]
    /\ req = [r \in Requests |-> NoRequest]

-----------------------------------------------------------------------------

Start(r, step, a) ==
    /\ pc[r] = "idle"
    /\ pc' = [pc EXCEPT ![r] = step]
    /\ req' = [req EXCEPT ![r] = a]

Carry(r, step, a) ==
    /\ pc' = [pc EXCEPT ![r] = step]
    /\ req' = [req EXCEPT ![r] = a]

Answer(r) == Carry(r, "idle", NoRequest)

Database == <<user, member, was>>

(* login: save_auth_state, SETEX with the state's time to live.            *)
login(t) ==
    /\ state[t].status = "unused"
    /\ state' = [state EXCEPT ![t] = [status |-> "live", ttl |-> StateTTL]]
    /\ UNCHANGED <<session, loggedOut, pc, req, Database>>

(* callback, up to its first command.  It may come twice, or too late.     *)
callback(r, t) ==
    /\ Start(r, "consume", [NoRequest EXCEPT !.state = t])
    /\ UNCHANGED <<state, session, loggedOut, Database>>

(* Mutant: GET instead of GETDEL.                                          *)
ReadsState(r) ==
    /\ pc[r] = "consume"
    /\ IF state[req[r].state].status = "live" THEN Carry(r, "exchange", req[r]) ELSE Answer(r)
    /\ UNCHANGED <<state, session, loggedOut, Database>>

consume_auth_state(r) ==
    /\ pc[r] = "consume"
    /\ LET t == req[r].state IN
       \/ /\ state[t].status = "live"
          /\ state' = [state EXCEPT ![t] = [status |-> "gone", ttl |-> 0]]
          /\ Carry(r, "exchange", req[r]) \/ Answer(r)
       \/ Answer(r) /\ UNCHANGED state
    /\ UNCHANGED <<session, loggedOut, Database>>

(* The code is exchanged for an access token.                              *)
exchange_code(r) ==
    /\ pc[r] = "exchange"
    /\ Carry(r, "validate", req[r]) \/ Answer(r)
    /\ UNCHANGED <<state, session, loggedOut, Database>>

(* The token, checked against the issuer's keys and claims, names a user.  *)
validate(r) ==
    /\ pc[r] = "validate"
    /\ \/ \E i \in Identities : Carry(r, "find_user", [req[r] EXCEPT !.identity = i])
       \/ Answer(r)
    /\ UNCHANGED <<state, session, loggedOut, Database>>

-----------------------------------------------------------------------------
(* upsert_verified_workforce_user: the lookup, and for a first login the   *)
(* insertion in a savepoint.  The insertion waits for a concurrent one of  *)
(* the same identity; if that one committed, its row is loaded instead.    *)
Rows(i) == {u \in Users : user[u] = i}

find_user(r) ==
    /\ pc[r] = "find_user"
    /\ LET rows == Rows(req[r].identity) IN
       \/ \E u \in rows : Carry(r, "default_tenant", [req[r] EXCEPT !.user = u])
       \/ rows = {} /\ Carry(r, "insert_user", req[r])
       \/ Answer(r)
    /\ UNCHANGED <<state, session, loggedOut, Database>>

(* Mutant: no unique constraint on (oidc_issuer, oidc_subject).            *)
InsertsTwice(r) ==
    /\ pc[r] = "insert_user"
    /\ \E u \in Rows(NoId) :
         /\ user' = [user EXCEPT ![u] = req[r].identity]
         /\ Carry(r, "default_tenant", [req[r] EXCEPT !.user = u])
    /\ UNCHANGED <<state, session, loggedOut, member, was>>

insert_user(r) ==
    /\ pc[r] = "insert_user"
    /\ LET i == req[r].identity IN
       \/ \E u \in Rows(NoId) :
            /\ Rows(i) = {}
            /\ user' = [user EXCEPT ![u] = i]
            /\ Carry(r, "default_tenant", [req[r] EXCEPT !.user = u])
       \/ \E u \in Rows(i) :
            /\ Carry(r, "default_tenant", [req[r] EXCEPT !.user = u])
            /\ UNCHANGED user
       \/ Answer(r) /\ UNCHANGED user
    /\ UNCHANGED <<state, session, loggedOut, member, was>>

(* resolve_default_active_tenant_id: only an unambiguous membership.       *)
TenantsOf(u) == {t \in Tenants : <<u, t>> \in member}

resolve_default_tenant(r) ==
    /\ pc[r] = "default_tenant"
    /\ LET ts == TenantsOf(req[r].user) IN
       \/ Cardinality(ts) = 1 /\ \E t \in ts : Carry(r, "create", [req[r] EXCEPT !.tenant = t])
       \/ Cardinality(ts) # 1 /\ Carry(r, "create", req[r])
    /\ UNCHANGED <<state, session, loggedOut, Database>>

(* create_session: SETEX under a new id.  Without an answer the browser    *)
(* never learns the id.                                                    *)
create_session(r) ==
    /\ pc[r] = "create"
    /\ \/ \E s \in Sids :
            /\ session[s].status = "unused"
            /\ session' = [session EXCEPT ![s] =
                 [status |-> "live", ttl |-> SessionTTL, identity |-> req[r].identity,
                  user |-> req[r].user, tenant |-> req[r].tenant, from |-> req[r].state]]
       \/ UNCHANGED session
    /\ Answer(r)
    /\ UNCHANGED <<state, loggedOut, Database>>

-----------------------------------------------------------------------------
(* Requests that carry a session cookie: the middleware restores the       *)
(* session first; what it read is what the handler uses.                   *)
switch_active_tenant(r, s, t) ==
    /\ IF session[s].status = "live"
       THEN Start(r, "check_member", [NoRequest EXCEPT !.sid = s, !.tenant = t, !.user = session[s].user,
                                      !.identity = session[s].identity, !.state = session[s].from])
       ELSE pc[r] = "idle" /\ UNCHANGED <<pc, req>>
    /\ UNCHANGED <<state, session, loggedOut, Database>>

(* Mutant: the membership's status is not looked at.                       *)
NotResolved(r) ==
    /\ pc[r] = "check_member"
    /\ Carry(r, "replace", req[r])
    /\ UNCHANGED <<state, session, loggedOut, Database>>

resolve_tenant_membership(r) ==
    /\ pc[r] = "check_member"
    /\ IF <<req[r].user, req[r].tenant>> \in member THEN Carry(r, "replace", req[r]) ELSE Answer(r)
    /\ UNCHANGED <<state, session, loggedOut, Database>>

(* The session written back: what the request read, with the new tenant.   *)
Replaced(r, ttl) ==
    [status |-> "live", ttl |-> ttl, identity |-> req[r].identity, user |-> req[r].user,
     tenant |-> req[r].tenant, from |-> req[r].state]

(* Mutants: SET without XX, and SETEX.                                     *)
WithoutXX(r) ==
    /\ pc[r] = "replace"
    /\ session' = [session EXCEPT ![req[r].sid] = Replaced(r, IF @.status = "live" THEN @.ttl ELSE SessionTTL)]
    /\ Answer(r)
    /\ UNCHANGED <<state, loggedOut, Database>>

RestartsTTL(r) ==
    /\ pc[r] = "replace"
    /\ LET s == req[r].sid IN
       IF session[s].status = "live"
       THEN session' = [session EXCEPT ![s] = Replaced(r, SessionTTL)] ELSE UNCHANGED session
    /\ Answer(r)
    /\ UNCHANGED <<state, loggedOut, Database>>

(* replace_session: SET XX KEEPTTL.                                        *)
replace_session(r) ==
    /\ pc[r] = "replace"
    /\ LET s == req[r].sid IN
       \/ /\ session[s].status = "live"
          /\ session' = [session EXCEPT ![s] = Replaced(r, @.ttl)]
       \/ UNCHANGED session
    /\ Answer(r)
    /\ UNCHANGED <<state, loggedOut, Database>>

logout(r, s) ==
    /\ IF session[s].status = "live" THEN Start(r, "destroy", [NoRequest EXCEPT !.sid = s])
       ELSE pc[r] = "idle" /\ UNCHANGED <<pc, req>>
    /\ UNCHANGED <<state, session, loggedOut, Database>>

(* Mutant: a failing store still answers 204.                              *)
FailsOpen(r) ==
    /\ pc[r] = "destroy"
    /\ session' = [session EXCEPT ![req[r].sid] = Ended(req[r].sid)] \/ UNCHANGED session
    /\ loggedOut' = loggedOut \cup {req[r].sid}
    /\ Answer(r)
    /\ UNCHANGED <<state, Database>>

destroy_session(r) ==
    /\ pc[r] = "destroy"
    /\ \/ /\ session' = [session EXCEPT ![req[r].sid] = Ended(req[r].sid)]
          /\ loggedOut' = loggedOut \cup {req[r].sid} \/ UNCHANGED loggedOut
       \/ UNCHANGED <<session, loggedOut>>
    /\ Answer(r)
    /\ UNCHANGED <<state, Database>>

-----------------------------------------------------------------------------
(* Time passes in Valkey: keys at their last tick expire.                  *)
Tick ==
    /\ \/ \E t \in States : state[t].status = "live"
       \/ \E s \in Sids : session[s].status = "live"
    /\ state' = [t \in States |->
          IF state[t].ttl > 1 THEN [state[t] EXCEPT !.ttl = @ - 1]
          ELSE IF state[t].status = "live" THEN [status |-> "gone", ttl |-> 0] ELSE state[t]]
    /\ session' = [s \in Sids |->
          IF session[s].ttl > 1 THEN [session[s] EXCEPT !.ttl = @ - 1]
          ELSE IF session[s].status = "live" THEN Ended(s) ELSE session[s]]
    /\ UNCHANGED <<loggedOut, pc, req, Database>>

(* Memberships change meanwhile.                                           *)
ChangeMembership(u, t) ==
    /\ user[u] # NoId
    /\ member' = IF <<u, t>> \in member THEN member \ {<<u, t>>} ELSE member \cup {<<u, t>>}
    /\ was' = was \cup member'
    /\ UNCHANGED <<state, session, user, loggedOut, pc, req>>

(* The API process stops: its requests are never answered.                 *)
Crash ==
    /\ \E r \in Requests : pc[r] # "idle"
    /\ pc' = [r \in Requests |-> "idle"]
    /\ req' = [r \in Requests |-> NoRequest]
    /\ UNCHANGED <<state, session, loggedOut, Database>>

Step(r) ==
    \/ consume_auth_state(r) \/ exchange_code(r) \/ validate(r) \/ find_user(r)
    \/ insert_user(r) \/ resolve_default_tenant(r) \/ create_session(r)
    \/ resolve_tenant_membership(r) \/ replace_session(r) \/ destroy_session(r)

Next ==
    \/ \E t \in States : login(t)
    \/ \E r \in Requests :
         \/ \E t \in States : callback(r, t)
         \/ \E s \in Sids, t \in Tenants : switch_active_tenant(r, s, t)
         \/ \E s \in Sids : logout(r, s)
         \/ Step(r)
    \/ \E u \in Users, t \in Tenants : ChangeMembership(u, t)
    \/ Tick \/ Crash

Spec == Init /\ [][Next]_vars

(* Fairness: time passes.                                                  *)
FairSpec == Spec /\ WF_vars(Tick)

-----------------------------------------------------------------------------
(* One login state starts one session at most, however often the callback  *)
(* is repeated (consume_auth_state).                                       *)
OneSessionPerState ==
    \A s, t \in Sids : session[s].from = session[t].from /\ session[s].from # NoState => s = t

(* Two logins of one identity, also two first logins at once, get the same *)
(* user (upsert_verified_workforce_user).                                  *)
OneUserPerIdentity ==
    \A s, t \in Sids : session[s].identity = session[t].identity /\ session[s].identity # NoId
                       => session[s].user = session[t].user

(* Repeated and concurrent logins agree: one session for a state, one user  *)
(* for an identity (consume_auth_state, upsert_verified_workforce_user).    *)
LoginsAgree == OneSessionPerState /\ OneUserPerIdentity

(* A session's tenant is one its user really was an active member of.      *)
TenantWasMember ==
    \A s \in Sids : session[s].tenant # NoTenant => <<session[s].user, session[s].tenant>> \in was

(* A session that was destroyed or has expired never comes back, although  *)
(* a tenant switch that read it earlier still writes it (replace_session),  *)
(* and a logout answered with success has left none: a failing store is     *)
(* never reported as a logout (destroy_session).                            *)
NoRevival ==
    [][\A s \in Sids : session[s].status = "gone" \/ s \in loggedOut'
                         => session'[s].status = "gone"]_vars

(* Every session ends, however often its tenant is switched: switching     *)
(* does not extend the 24 hours.                                           *)
SessionEnds == \A s \in Sids : session[s].status = "live" ~> session[s].status = "gone"

=============================================================================
