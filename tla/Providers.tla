------------------------------ MODULE Providers ------------------------------
(***************************************************************************)
(* Provider connections, their secrets and the model configurations of one *)
(* tenant: providers/service.py over PostgreSQL and the secret store.      *)
(*                                                                         *)
(* A request runs short transactions with secret-store calls between them; *)
(* pc names the next one.  A transaction that locks a connection row is    *)
(* two steps (the locked read, then write and commit); the locks held      *)
(* follow from pc.  A secret-store call is synchronous inside the API      *)
(* process and so is one step.  The permission check refuses a request     *)
(* before it changes anything and is left out, as are lists and views.  No *)
(* code writes the status 'disabled', so its two early returns are not     *)
(* taken; no code inserts model_configuration_references, so delete_model  *)
(* counts none.  A key is the reference that stores it; the last error and *)
(* test time are written with the status and left out.                     *)
(***************************************************************************)
EXTENDS Naturals, FiniteSets

CONSTANTS
    Conns,      \* provider connection ids, each used once
    Refs,       \* secret references, each generated once
    Names,      \* display names
    Models,     \* model configuration ids, each used once
    Upstreams,  \* upstream models
    Requests,   \* concurrently served requests
    LostAcks    \* whether a COMMIT can take effect and its answer be lost

ASSUME ProvidersAssumption == LostAcks \in BOOLEAN

VARIABLES
    conn,      \* committed provider_connections rows
    model,     \* committed model_configurations rows
    store,     \* the records of the secret store
    pc,        \* next step of each request
    req,       \* its arguments and what it has read
    evidence,  \* outcomes the gateway returned for each key (history)
    excused,   \* secrets given up by a crash or a reported error (history)
    unacked    \* secrets committed to a row without an answer (history)

vars == <<conn, model, store, pc, req, evidence, excused, unacked>>

NoRef == "no secret"
NoConn == "no connection"
NoModel == "no model"
NoUpstream == "no upstream model"
NoName == "no name"

ASSUME AbsentAssumption == NoRef \notin Refs /\ NoConn \notin Conns

Statuses == {"absent", "untested", "active", "invalid", "deleted"}

Connection == [status : Statuses, secret : Refs \cup {NoRef},
               name : Names \cup {NoName}]

Steps == {"idle", "c_insert", "u_lock", "u_write", "d_lock", "d_write", "undo", "remove",
          "t_limit", "t_call", "t_lock", "t_write", "m_insert_lock", "m_insert",
          "m_find", "m_lock", "m_write"}

Request == [conn : Conns \cup {NoConn}, name : Names \cup {NoName}, new : Refs \cup {NoRef},
            seen : Refs \cup {NoRef}, outcome : {"none", "ok", "auth", "other"},
            model : Models \cup {NoModel}, upstream : Upstreams \cup {NoUpstream},
            enabled : {"keep", "on", "off"}]

Model == [status : {"absent", "live", "deleted"}, conn : Conns \cup {NoConn},
          upstream : Upstreams \cup {NoUpstream}, enabled : BOOLEAN]

TypeOK ==
    /\ conn \in [Conns -> Connection]
    /\ model \in [Models -> Model]
    /\ store \in [Refs -> {"unused", "stored", "deleted"}]
    /\ pc \in [Requests -> Steps]
    /\ req \in [Requests -> Request]
    /\ evidence \in [Refs -> SUBSET {"ok", "auth"}]
    /\ excused \in SUBSET Refs /\ unacked \in SUBSET Refs

NoConnection == [status |-> "absent", secret |-> NoRef, name |-> NoName]
NoConfiguration == [status |-> "absent", conn |-> NoConn, upstream |-> NoUpstream, enabled |-> FALSE]
NoRequest == [conn |-> NoConn, name |-> NoName, new |-> NoRef, seen |-> NoRef,
              outcome |-> "none", model |-> NoModel, upstream |-> NoUpstream, enabled |-> "keep"]

Init ==
    /\ conn = [c \in Conns |-> NoConnection]
    /\ model = [m \in Models |-> NoConfiguration]
    /\ store = [s \in Refs |-> "unused"]
    /\ pc = [r \in Requests |-> "idle"]
    /\ req = [r \in Requests |-> NoRequest]
    /\ evidence = [s \in Refs |-> {}]
    /\ excused = {} /\ unacked = {}

-----------------------------------------------------------------------------

Live(c) == conn[c].status \in {"untested", "active", "invalid"}

(* Mutant: create_model and update_model read the connection without       *)
(* FOR UPDATE.                                                             *)
NotLocked(r, c) == pc[r] \in {"u_write", "d_write", "t_write"} /\ req[r].conn = c

(* The connection row r has locked, and the model row.                     *)
Holds(r, c) == pc[r] \in {"u_write", "d_write", "t_write", "m_insert", "m_write"} /\ req[r].conn = c
HoldsModel(r, m) == pc[r] \in {"m_lock", "m_write"} /\ req[r].model = m

Free(r, c) == \A q \in Requests \ {r} : ~Holds(q, c)

Start(r, step, a) ==
    /\ pc[r] = "idle"
    /\ pc' = [pc EXCEPT ![r] = step]
    /\ req' = [req EXCEPT ![r] = a]

Goto(r, step) == pc' = [pc EXCEPT ![r] = step] /\ UNCHANGED req

Answer(r) == pc' = [pc EXCEPT ![r] = "idle"] /\ req' = [req EXCEPT ![r] = NoRequest]

-----------------------------------------------------------------------------
(* The secret store.                                                       *)
put_secret(s) == store[s] = "unused" /\ store' = [store EXCEPT ![s] = "stored"]

(* delete_secret, _cleanup_new_secret and their callers' handlers: a       *)
(* missing record is success, any other failure is reported as a clean-up  *)
(* failure.                                                                *)
delete_secret(s) ==
    \/ /\ store' = [store EXCEPT ![s] = IF @ = "stored" THEN "deleted" ELSE @]
       /\ UNCHANGED excused
    \/ /\ store[s] = "stored"
       /\ excused' = excused \cup {s}
       /\ UNCHANGED store

(* Mutant: the failed rotation removes the predecessor, not the new key.   *)
RemovesPredecessor(r) ==
    /\ pc[r] = "undo"
    /\ delete_secret(IF req[r].seen = NoRef THEN req[r].new ELSE req[r].seen)
    /\ Answer(r)
    /\ UNCHANGED <<conn, model, evidence, unacked>>

cleanup_new_secret(r) ==
    /\ pc[r] = "undo"
    /\ delete_secret(req[r].new)
    /\ Answer(r)
    /\ UNCHANGED <<conn, model, evidence, unacked>>

(* The predecessor of a committed rotation, or a deleted row's secret.     *)
remove_old_secret(r) ==
    /\ pc[r] = "remove"
    /\ delete_secret(req[r].seen)
    /\ Answer(r)
    /\ UNCHANGED <<conn, model, evidence, unacked>>

Abort(r) ==
    /\ IF req[r].new = NoRef THEN Answer(r) ELSE Goto(r, "undo")
    /\ UNCHANGED <<conn, model, store, evidence, excused, unacked>>

-----------------------------------------------------------------------------
(* create_provider: the secret is written first, then the row.             *)
create_provider(r, n, s) ==
    /\ put_secret(s)
    /\ Start(r, "c_insert", [NoRequest EXCEPT !.name = n, !.new = s])
    /\ UNCHANGED <<conn, model, evidence, excused, unacked>>

NameTaken(c, n) == \E d \in Conns \ {c} : Live(d) /\ conn[d].name = n

insert_provider(r) ==
    /\ pc[r] = "c_insert"
    /\ \/ Abort(r)
       \/ /\ \E c \in Conns :
             /\ conn[c].status = "absent"
             /\ ~NameTaken(c, req[r].name)
             /\ conn' = [conn EXCEPT ![c] = [status |-> "untested", secret |-> req[r].new,
                                             name |-> req[r].name]]
          /\ \/ Answer(r) /\ UNCHANGED unacked
             \/ LostAcks /\ Goto(r, "undo") /\ unacked' = unacked \cup {req[r].new}
          /\ UNCHANGED <<model, store, evidence, excused>>

(* update_provider: existence, the new secret if a key is given, and the   *)
(* locked transaction.                                                     *)
update_provider(r, c, n, s) ==
    /\ Live(c)
    /\ IF s = NoRef THEN UNCHANGED store ELSE put_secret(s)
    /\ Start(r, "u_lock", [NoRequest EXCEPT !.conn = c, !.name = n, !.new = s, !.seen = conn[c].secret])
    /\ UNCHANGED <<conn, model, evidence, excused, unacked>>

(* Mutant: the predecessor is the reference the preflight read.            *)
PredecessorFromPreflight(r) ==
    /\ pc[r] = "u_lock"
    /\ LET c == req[r].conn IN
       \/ ~Live(c) /\ Abort(r)
       \/ /\ Live(c) /\ Free(r, c)
          /\ Goto(r, "u_write")
          /\ UNCHANGED <<conn, model, store, evidence, excused, unacked>>

lock_for_update(r) ==
    /\ pc[r] = "u_lock"
    /\ LET c == req[r].conn IN
       \/ ~Live(c) /\ Abort(r)
       \/ /\ Live(c) /\ Free(r, c)
          /\ pc' = [pc EXCEPT ![r] = "u_write"]
          /\ req' = [req EXCEPT ![r].seen = conn[c].secret]
          /\ UNCHANGED <<conn, model, store, evidence, excused, unacked>>

(* A replacement key resets the status and the test result.                *)
Updated(row, q) ==
    LET name == IF q.name = NoName THEN row.name ELSE q.name IN
    IF q.new = NoRef THEN [row EXCEPT !.name = name]
    ELSE [status |-> "untested", secret |-> q.new, name |-> name]

write_update(r) ==
    /\ pc[r] = "u_write"
    /\ LET c == req[r].conn IN
       \/ Abort(r)
       \/ /\ ~NameTaken(c, req[r].name)
          /\ conn' = [conn EXCEPT ![c] = Updated(@, req[r])]
          /\ \/ /\ IF req[r].new = NoRef THEN Answer(r) ELSE Goto(r, "remove")
                /\ UNCHANGED <<excused, unacked>>
             \/ /\ LostAcks /\ req[r].new # NoRef /\ Goto(r, "undo")
                /\ excused' = excused \cup {req[r].seen}
                /\ unacked' = unacked \cup {req[r].new}
          /\ UNCHANGED <<model, store, evidence>>

(* delete_provider: refused while a model references the row; the secret   *)
(* goes after the row.  When the answer to the COMMIT is lost the request  *)
(* ends without removing the secret.                                       *)
delete_provider(r, c) ==
    /\ Start(r, "d_lock", [NoRequest EXCEPT !.conn = c])
    /\ UNCHANGED <<conn, model, store, evidence, excused, unacked>>

Referenced(c) == \E m \in Models : model[m].status = "live" /\ model[m].conn = c

lock_for_delete(r) ==
    /\ pc[r] = "d_lock"
    /\ LET c == req[r].conn IN
       \/ ~Live(c) /\ Answer(r)
       \/ /\ Live(c) /\ Free(r, c)
          /\ IF Referenced(c) THEN Answer(r)
             ELSE /\ pc' = [pc EXCEPT ![r] = "d_write"]
                  /\ req' = [req EXCEPT ![r].seen = conn[c].secret]
    /\ UNCHANGED <<conn, model, store, evidence, excused, unacked>>

write_delete(r) ==
    /\ pc[r] = "d_write"
    /\ LET c == req[r].conn IN
       \/ Answer(r) /\ UNCHANGED <<conn, excused>>
       \/ /\ ~Referenced(c)                                \* foreign key
          /\ conn' = [conn EXCEPT ![c] = [NoConnection EXCEPT !.status = "deleted"]]
          /\ \/ Goto(r, "remove") /\ UNCHANGED excused
             \/ LostAcks /\ Answer(r) /\ excused' = excused \cup {req[r].seen}
    /\ UNCHANGED <<model, store, evidence, unacked>>

-----------------------------------------------------------------------------
(* test_provider_connectivity: the first transaction reads the reference,  *)
(* the gateway is called outside any transaction, the second one locks the *)
(* row again.                                                              *)
test_provider(r, c) ==
    /\ IF Live(c) THEN Start(r, "t_limit", [NoRequest EXCEPT !.conn = c, !.seen = conn[c].secret])
                  ELSE pc[r] = "idle" /\ UNCHANGED <<pc, req>>
    /\ UNCHANGED <<conn, model, store, evidence, excused, unacked>>

(* The rate limiter allows the test, refuses it or is unavailable.         *)
check_and_consume(r) ==
    /\ pc[r] = "t_limit"
    /\ Goto(r, "t_call") \/ Answer(r)
    /\ UNCHANGED <<conn, model, store, evidence, excused, unacked>>

(* get_secret, then the gateway's answer: the key works, the provider      *)
(* refuses it, or anything else failed.                                    *)
call_gateway(r) ==
    /\ pc[r] = "t_call"
    /\ LET s == req[r].seen IN
       IF store[s] # "stored" THEN Answer(r) /\ UNCHANGED evidence
       ELSE \E o \in {"ok", "auth", "other"} :
              /\ evidence' = [evidence EXCEPT ![s] = @ \cup ({o} \cap {"ok", "auth"})]
              /\ pc' = [pc EXCEPT ![r] = "t_lock"]
              /\ req' = [req EXCEPT ![r].outcome = o]
    /\ UNCHANGED <<conn, model, store, excused, unacked>>

(* Mutant: the second transaction does not compare the reference.          *)
WritesStaleResult(r) ==
    /\ pc[r] = "t_lock"
    /\ LET c == req[r].conn IN
       \/ ~Live(c) /\ Answer(r)
       \/ /\ Live(c) /\ Free(r, c)
          /\ Goto(r, "t_write")
    /\ UNCHANGED <<conn, model, store, evidence, excused, unacked>>

lock_for_result(r) ==
    /\ pc[r] = "t_lock"
    /\ LET c == req[r].conn IN
       \/ ~Live(c) /\ Answer(r)
       \/ /\ Live(c) /\ Free(r, c)
          /\ IF conn[c].secret # req[r].seen THEN Answer(r) ELSE Goto(r, "t_write")
    /\ UNCHANGED <<conn, model, store, evidence, excused, unacked>>

TestedStatus(status, outcome) ==
    CASE outcome = "ok" -> "active"
      [] outcome = "auth" -> "invalid"
      [] OTHER -> status

write_result(r) ==
    /\ pc[r] = "t_write"
    /\ LET c == req[r].conn o == req[r].outcome IN
       \/ UNCHANGED conn
       \/ conn' = [conn EXCEPT ![c].status = TestedStatus(@, o)]
    /\ Answer(r)
    /\ UNCHANGED <<model, store, evidence, excused, unacked>>

-----------------------------------------------------------------------------
(* create_model: the provider is locked and must be active.  An alias in   *)
(* use or a failed commit leaves nothing behind.                           *)
create_model(r, c, m, u, e) ==
    /\ model[m].status = "absent"
    /\ Start(r, "m_insert_lock", [NoRequest EXCEPT !.conn = c, !.model = m, !.upstream = u, !.enabled = e])
    /\ UNCHANGED <<conn, model, store, evidence, excused, unacked>>

Eligible(c) == Live(c) /\ conn[c].status = "active"

lock_for_model(r) ==
    /\ pc[r] \in {"m_insert_lock", "m_lock"}
    /\ LET c == req[r].conn IN
       \/ ~Live(c) /\ Answer(r)
       \/ /\ Live(c) /\ Free(r, c)
          /\ IF ~Eligible(c) THEN Answer(r)
             ELSE Goto(r, IF pc[r] = "m_lock" THEN "m_write" ELSE "m_insert")
    /\ UNCHANGED <<conn, model, store, evidence, excused, unacked>>

insert_model(r) ==
    /\ pc[r] = "m_insert"
    /\ \/ UNCHANGED model
       \/ /\ model[req[r].model].status = "absent"
          /\ Live(req[r].conn)                             \* foreign key
          /\ model' = [model EXCEPT ![req[r].model] =
                [status |-> "live", conn |-> req[r].conn, upstream |-> req[r].upstream,
                 enabled |-> req[r].enabled = "on"]]
    /\ Answer(r)
    /\ UNCHANGED <<conn, store, evidence, excused, unacked>>

(* update_model: the model row is locked, then the provider it will use,   *)
(* unless the request only disables the model.                             *)
update_model(r, c, m, u, e) ==
    /\ c # NoConn \/ u # NoUpstream \/ e # "keep"
    /\ Start(r, "m_find", [NoRequest EXCEPT !.conn = c, !.model = m, !.upstream = u, !.enabled = e])
    /\ UNCHANGED <<conn, model, store, evidence, excused, unacked>>

requires_active_provider(q) == q.conn # NoConn \/ q.upstream # NoUpstream \/ q.enabled = "on"

find_model(r) ==
    /\ pc[r] = "m_find"
    /\ LET m == req[r].model IN
       \/ model[m].status # "live" /\ Answer(r)
       \/ /\ model[m].status = "live"
          /\ \A q \in Requests \ {r} : ~HoldsModel(q, m)
          /\ IF requires_active_provider(req[r])
             THEN /\ pc' = [pc EXCEPT ![r] = "m_lock"]
                  /\ req' = [req EXCEPT ![r].conn = IF @ = NoConn THEN model[m].conn ELSE @]
             ELSE Goto(r, "m_write")
    /\ UNCHANGED <<conn, model, store, evidence, excused, unacked>>

Changed(row, q) ==
    [row EXCEPT !.conn = IF q.conn = NoConn THEN row.conn ELSE q.conn,
                !.upstream = IF q.upstream = NoUpstream THEN row.upstream ELSE q.upstream,
                !.enabled = IF q.enabled = "keep" THEN row.enabled ELSE q.enabled = "on"]

write_model(r) ==
    /\ pc[r] = "m_write"
    /\ LET q == req[r] IN
       \/ UNCHANGED model
       \/ /\ q.conn # NoConn => Live(q.conn)                \* foreign key
          /\ model' = [model EXCEPT ![q.model] = Changed(@, q)]
    /\ Answer(r)
    /\ UNCHANGED <<conn, store, evidence, excused, unacked>>

(* delete_model is one locked transaction.                                 *)
delete_model(r, m) ==
    /\ pc[r] = "idle"
    /\ model[m].status = "live"
    /\ \A q \in Requests : ~HoldsModel(q, m)
    /\ model' = [model EXCEPT ![m] = [NoConfiguration EXCEPT !.status = "deleted"]]
    /\ UNCHANGED <<conn, store, pc, req, evidence, excused, unacked>>

(* Secrets that a running request has stored and not attached to a row, or *)
(* has detached and not removed.                                           *)
InFlight(r) ==
    (IF pc[r] \in {"c_insert", "u_lock", "u_write", "undo"} THEN {req[r].new}
     ELSE IF pc[r] = "remove" THEN {req[r].seen} ELSE {}) \cap Refs

(* The process stops, or the request is cancelled, between two steps.      *)
(* The secrets it was handling stay.                                       *)
Crash(r) ==
    /\ pc[r] # "idle"
    /\ excused' = excused \cup InFlight(r)
    /\ Answer(r)
    /\ UNCHANGED <<conn, model, store, evidence, unacked>>

Step(r) ==
    \/ cleanup_new_secret(r) \/ remove_old_secret(r)
    \/ insert_provider(r) \/ lock_for_update(r) \/ write_update(r)
    \/ lock_for_delete(r) \/ write_delete(r)
    \/ check_and_consume(r) \/ call_gateway(r) \/ lock_for_result(r) \/ write_result(r)
    \/ lock_for_model(r) \/ insert_model(r) \/ find_model(r) \/ write_model(r)

(* The routes of providers/router.py and of model_router.py.               *)
CallProvider(r) ==
    \/ \E n \in Names, s \in Refs : create_provider(r, n, s)
    \/ \E c \in Conns :
         \/ \E n \in Names \cup {NoName}, s \in Refs \cup {NoRef} :
                <<n, s>> # <<NoName, NoRef>> /\ update_provider(r, c, n, s)
         \/ delete_provider(r, c)
         \/ test_provider(r, c)

CallModel(r) ==
    \E m \in Models :
         \/ \E c \in Conns, u \in Upstreams, e \in {"on", "off"} : create_model(r, c, m, u, e)
         \/ \E c \in Conns \cup {NoConn}, u \in Upstreams \cup {NoUpstream}, e \in {"keep", "on", "off"} :
               update_model(r, c, m, u, e)
         \/ delete_model(r, m)

Next == \E r \in Requests : CallProvider(r) \/ CallModel(r) \/ Step(r) \/ Crash(r)

Spec == Init /\ [][Next]_vars

-----------------------------------------------------------------------------
(* A committed connection names a secret the store still has, whatever     *)
(* rotations, failures, deletions and crashes happened: secrets are        *)
(* written before rows and removed after them (create_provider,            *)
(* update_provider, delete_provider).  The one exception is a row whose    *)
(* COMMIT took effect without an answer: the handler then removes the key  *)
(* it has just attached.                                                   *)
SecretOfLiveRow ==
    \A c \in Conns : Live(c) =>
        store[conn[c].secret] = "stored" \/ conn[c].secret \in unacked

(* No secret is left behind silently.  A stored secret belongs to a row,   *)
(* or a running request will still attach or remove it, or its removal     *)
(* failed with a reported error or was cut off by a crash.                 *)
NoHiddenOrphan ==
    \A s \in Refs : store[s] = "stored" =>
        \/ \E c \in Conns : Live(c) /\ conn[c].secret = s
        \/ \E r \in Requests : s \in InFlight(r)
        \/ s \in excused

(* Rows and secrets match, although they change in separate steps.         *)
SecretsMatchRows == SecretOfLiveRow /\ NoHiddenOrphan

(* The status describes the key the row holds now:                         *)
(* test_provider_connectivity never records a result for a key that was    *)
(* replaced while the test was running.                                    *)
StatusOfOwnKey ==
    \A c \in Conns : Live(c) =>
        /\ conn[c].status = "active" => "ok" \in evidence[conn[c].secret]
        /\ conn[c].status = "invalid" => "auth" \in evidence[conn[c].secret]

(* A model is created, moved, pointed at another upstream model or enabled *)
(* only in a step in which its provider is active (create_model and        *)
(* update_model hold the provider's row until they commit).                *)
ModelNeedsActiveProvider ==
    [][\A m \in Models :
         LET old == model[m] new == model'[m] IN
         /\ new.status = "live"
         /\ \/ old.conn # new.conn \/ old.upstream # new.upstream
            \/ new.enabled /\ ~old.enabled
         => conn[new.conn].status = "active"]_vars

=============================================================================
