---------------------------- MODULE ProvidersProofs ----------------------------
(***************************************************************************)
(* Proofs about Providers for any number of connections, keys, models and  *)
(* concurrent requests, crashes and unanswered commits included.           *)
(* ProviderInv is the inductive invariant.                                 *)
(***************************************************************************)
EXTENDS Providers, TLAPS

AttachSteps == {"c_insert", "u_lock", "u_write"}
ConnSteps == {"u_lock", "u_write", "d_lock", "d_write", "t_limit", "t_call", "t_lock", "t_write",
              "m_insert_lock", "m_insert", "m_lock"}
TestSteps == {"t_limit", "t_call", "t_lock", "t_write"}
ModelSteps == {"m_insert_lock", "m_insert", "m_find", "m_lock", "m_write"}

(* A secret that r has stored and may still commit to a row.               *)
Attaching(r) == IF pc[r] \in AttachSteps THEN {req[r].new} \cap Refs ELSE {}

(* No row, live or not, names the secret s.                                *)
Detached(s) == \A c \in Conns : conn[c].secret # s

(* What a request may rely on of the secrets it handles, ...               *)
SecretsOK(r) ==
    /\ pc[r] = "c_insert" => req[r].new \in Refs
    /\ \A s \in Attaching(r) : store[s] = "stored" /\ Detached(s)
    /\ pc[r] = "undo" => /\ req[r].new \in Refs /\ store[req[r].new] # "unused"
                         /\ req[r].new \in unacked \/ Detached(req[r].new)
    /\ pc[r] = "remove" => /\ req[r].seen \in Refs /\ store[req[r].seen] # "unused"
                           /\ Detached(req[r].seen)

(* ... of the test result it carries, ...                                  *)
ResultOK(r) ==
    /\ pc[r] \in TestSteps => req[r].seen \in Refs
    /\ pc[r] \in {"t_lock", "t_write"} => {req[r].outcome} \cap {"ok", "auth"} \subseteq evidence[req[r].seen]

(* ... and of the row it has locked.                                       *)
LockedOK(r) ==
    /\ pc[r] \in ConnSteps => req[r].conn \in Conns
    /\ pc[r] \in ModelSteps => req[r].model \in Models
    /\ pc[r] \in {"u_write", "d_write", "t_write"} =>
          Live(req[r].conn) /\ conn[req[r].conn].secret = req[r].seen
    /\ pc[r] = "m_insert" => conn[req[r].conn].status = "active"
    /\ pc[r] = "m_write" =>
          \/ req[r].conn \in Conns /\ conn[req[r].conn].status = "active"
          \/ req[r].conn = NoConn /\ req[r].upstream = NoUpstream /\ req[r].enabled # "on"

ReqOK(r) == SecretsOK(r) /\ ResultOK(r) /\ LockedOK(r)

(* A live row names a secret of its own, which is stored unless its commit *)
(* was not answered, and its status was earned by that secret.             *)
RowOK(c) ==
    /\ ~Live(c) => conn[c].secret = NoRef
    /\ Live(c) => /\ conn[c].secret \in Refs /\ store[conn[c].secret] # "unused"
                  /\ store[conn[c].secret] = "stored" \/ conn[c].secret \in unacked
                  /\ conn[c].status = "active" => "ok" \in evidence[conn[c].secret]
                  /\ conn[c].status = "invalid" => "auth" \in evidence[conn[c].secret]

RowsDistinct == \A c, d \in Conns : conn[c].secret = conn[d].secret /\ conn[c].secret # NoRef => c = d

(* A secret to be attached is in nobody else's hands.                      *)
OneHand == \A r, q \in Requests : r # q => Attaching(r) \cap InFlight(q) = {}

(* FOR UPDATE: one request at a time holds a connection row.               *)
LocksExclusive == \A c \in Conns : \A r, q \in Requests : Holds(r, c) /\ Holds(q, c) => r = q

ModelsHaveRows == \A m \in Models : model[m].status = "live" => model[m].conn \in Conns

ProviderInv ==
    /\ TypeOK
    /\ \A r \in Requests : ReqOK(r)
    /\ \A c \in Conns : RowOK(c)
    /\ RowsDistinct
    /\ OneHand
    /\ LocksExclusive
    /\ NoHiddenOrphan
    /\ ModelsHaveRows

USE AbsentAssumption

-----------------------------------------------------------------------------
(* Request r goes on to step with the arguments a.                         *)
Moved(r, step, a) ==
    /\ pc'[r] = step /\ req'[r] = a
    /\ \A q \in Requests : q # r => pc'[q] = pc[q] /\ req'[q] = req[q]
    /\ pc' \in [Requests -> Steps] /\ req' \in [Requests -> Request]

(* What a step of r leaves the other requests.                             *)
Frame(r) ==
    /\ \A q \in Requests : q # r => pc'[q] = pc[q] /\ req'[q] = req[q]
    /\ \A c \in Conns, q \in Requests : q # r =>
          /\ Holds(q, c) => conn'[c] = conn[c]
          /\ conn'[c].secret \in InFlight(q) => conn'[c].secret = conn[c].secret
    /\ \A q \in Requests : q # r => \A s \in Attaching(q) : store'[s] = "stored"
    /\ \A s \in Refs : store[s] # "unused" => store'[s] # "unused"
    /\ unacked \subseteq unacked'
    /\ \A s \in Refs : evidence[s] \subseteq evidence'[s]

(* r takes nothing into its hands that another request holds, secret or    *)
(* lock.                                                                   *)
NotTaken(r) ==
    \A q \in Requests : q # r => /\ Attaching(r)' \cap InFlight(q) = {}
                                 /\ InFlight(r)' \cap Attaching(q) = {}
LockKept(r) == \A c \in Conns : Holds(r, c)' => Free(r, c)

LEMMA AttachingInFlight == ASSUME NEW r \in Requests PROVE Attaching(r) \subseteq InFlight(r)
BY DEF Attaching, AttachSteps, InFlight

LEMMA SecretsKept ==
    ASSUME ProviderInv, NEW r \in Requests, Frame(r), NEW q \in Requests, q # r
    PROVE  SecretsOK(q)'
<1>1. SecretsOK(q) /\ pc'[q] = pc[q] /\ req'[q] = req[q]
  BY DEF ProviderInv, ReqOK, Frame
<1>2. Attaching(q)' = Attaching(q)
  BY <1>1 DEF Attaching
<1>3. ASSUME NEW s \in InFlight(q), Detached(s) PROVE Detached(s)'
  BY <1>3 DEF Detached, Frame
<1>4. ASSUME NEW s \in Attaching(q) PROVE store'[s] = "stored" /\ Detached(s)'
  BY <1>1, <1>3, <1>4, AttachingInFlight DEF SecretsOK, Frame
<1>5. CASE pc[q] = "undo"
  <2>1. req[q].new \in Refs /\ store[req[q].new] # "unused" /\ req[q].new \in InFlight(q)
        /\ (req[q].new \in unacked \/ Detached(req[q].new))
    BY <1>1, <1>5 DEF SecretsOK, InFlight
  <2>2. store'[req[q].new] # "unused" /\ (req[q].new \in unacked' \/ Detached(req[q].new)')
    BY <1>3, <2>1 DEF Frame
  <2> QED
    BY <1>1, <1>2, <1>4, <1>5, <2>1, <2>2 DEF SecretsOK, Detached
<1>6. CASE pc[q] = "remove"
  <2>1. req[q].seen \in Refs /\ store[req[q].seen] # "unused" /\ req[q].seen \in InFlight(q)
        /\ Detached(req[q].seen)
    BY <1>1, <1>6 DEF SecretsOK, InFlight
  <2>2. store'[req[q].seen] # "unused" /\ Detached(req[q].seen)'
    BY <1>3, <2>1 DEF Frame
  <2> QED
    BY <1>1, <1>2, <1>4, <1>6, <2>1, <2>2 DEF SecretsOK, Detached
<1>7. CASE pc[q] \notin {"undo", "remove"}
  BY <1>1, <1>2, <1>4, <1>7 DEF SecretsOK
<1> QED
  BY <1>5, <1>6, <1>7

LEMMA OthersKept ==
    ASSUME ProviderInv, NEW r \in Requests, Frame(r), NEW q \in Requests, q # r
    PROVE  ReqOK(q)'
<1>1. ResultOK(q) /\ LockedOK(q) /\ pc'[q] = pc[q] /\ req'[q] = req[q]
  BY DEF ProviderInv, ReqOK, Frame
<1>2. ResultOK(q)'
  <2>1. req[q].seen \in Refs => evidence[req[q].seen] \subseteq evidence'[req[q].seen]
    BY DEF Frame
  <2> QED
    BY <1>1, <2>1 DEF ResultOK, TestSteps
<1>3. LockedOK(q)'
  <2>1. req[q].conn \in Conns /\ Holds(q, req[q].conn) => conn'[req[q].conn] = conn[req[q].conn]
    BY DEF Frame
  <2> QED
    BY <1>1, <2>1, Zenon DEF LockedOK, Holds, Live, ConnSteps
<1> QED
  BY <1>2, <1>3, SecretsKept DEF ReqOK

(* A step keeps the invariant if it keeps it for the request, the rows and *)
(* the secrets it is about.                                                *)
LEMMA StepKeeps ==
    ASSUME ProviderInv, NEW r \in Requests, Frame(r), NotTaken(r), LockKept(r),
           TypeOK', ReqOK(r)', \A c \in Conns : RowOK(c)', RowsDistinct',
           NoHiddenOrphan', ModelsHaveRows'
    PROVE  ProviderInv'
<1>1. \A q \in Requests : ReqOK(q)'
  BY OthersKept
<1>2. \A q \in Requests : q # r => pc'[q] = pc[q] /\ req'[q] = req[q]
  BY DEF Frame
<1>3. \A q \in Requests : q # r => Attaching(q)' = Attaching(q) /\ InFlight(q)' = InFlight(q)
  BY <1>2 DEF Attaching, InFlight
<1>4. OneHand'
  <2> SUFFICES ASSUME NEW p \in Requests, NEW q \in Requests, p # q
               PROVE  Attaching(p)' \cap InFlight(q)' = {}
    BY DEF OneHand
  <2>1. CASE p # r /\ q # r
    BY <1>3, <2>1 DEF ProviderInv, OneHand
  <2> QED
    BY <1>3, <2>1 DEF NotTaken
<1>5. LocksExclusive'
  <2> SUFFICES ASSUME NEW c \in Conns, NEW p \in Requests, NEW q \in Requests,
                      Holds(p, c)', Holds(q, c)'
               PROVE  p = q
    BY DEF LocksExclusive
  <2>1. \A t \in Requests : t # r /\ Holds(t, c)' => Holds(t, c)
    BY <1>2 DEF Holds
  <2>2. Holds(r, c)' => \A t \in Requests : t # r => ~Holds(t, c)
    BY DEF LockKept, Free
  <2> QED
    BY <2>1, <2>2 DEF ProviderInv, LocksExclusive
<1> QED
  BY <1>1, <1>4, <1>5 DEF ProviderInv

-----------------------------------------------------------------------------
(* How a request goes on.                                                  *)
LEMMA NoRequestTyped == NoRequest \in Request /\ "idle" \in Steps
BY DEF NoRequest, Request, Steps

LEMMA StartMoves ==
    ASSUME TypeOK, NEW r \in Requests, NEW step \in Steps, NEW a \in Request, Start(r, step, a)
    PROVE  Moved(r, step, a) /\ pc[r] = "idle"
BY DEF Moved, Start, TypeOK

LEMMA GotoMoves ==
    ASSUME TypeOK, NEW r \in Requests, NEW step \in Steps, Goto(r, step)
    PROVE  Moved(r, step, req[r])
BY DEF Moved, Goto, TypeOK

LEMMA AnswerMoves ==
    ASSUME TypeOK, NEW r \in Requests, Answer(r)
    PROVE  Moved(r, "idle", NoRequest)
BY NoRequestTyped DEF Moved, Answer, TypeOK

LEMMA SeenUpdate ==
    ASSUME NEW a \in Request, NEW s \in Refs \cup {NoRef}, NEW b, b = [a EXCEPT !.seen = s]
    PROVE  b \in Request /\ b.seen = s /\ b.new = a.new /\ b.conn = a.conn
BY DEF Request

LEMMA OutcomeUpdate ==
    ASSUME NEW a \in Request, NEW o \in {"ok", "auth", "other"}, NEW b, b = [a EXCEPT !.outcome = o]
    PROVE  b \in Request /\ b.outcome = o /\ b.seen = a.seen /\ b.conn = a.conn
BY DEF Request

LEMMA ConnUpdate ==
    ASSUME NEW a \in Request, NEW c \in Conns, NEW b, b = [a EXCEPT !.conn = c]
    PROVE  b \in Request /\ b.conn = c /\ b.model = a.model
BY DEF Request

(* The steps with a secret in hand.                                        *)
HandSteps == AttachSteps \cup {"undo", "remove"}

LEMMA EmptyHands ==
    ASSUME NEW r \in Requests, pc[r] \notin HandSteps
    PROVE  InFlight(r) = {} /\ Attaching(r) = {}
BY DEF InFlight, Attaching, HandSteps, AttachSteps

LEMMA EmptyHandsNext ==
    ASSUME NEW r \in Requests, pc'[r] \notin HandSteps
    PROVE  InFlight(r)' = {} /\ Attaching(r)' = {} /\ SecretsOK(r)'
BY DEF InFlight, Attaching, HandSteps, AttachSteps, SecretsOK

LEMMA IdleOK ==
    ASSUME NEW r \in Requests, pc'[r] = "idle"
    PROVE  ReqOK(r)' /\ LockKept(r) /\ InFlight(r)' = {} /\ Attaching(r)' = {}
BY EmptyHandsNext
   DEF ReqOK, LockKept, Holds, ResultOK, LockedOK, TestSteps, ConnSteps, ModelSteps, HandSteps,
       AttachSteps

(* A secret in hand is in the store's books.                               *)
LEMMA InFlightUsed ==
    ASSUME ProviderInv, NEW r \in Requests, NEW s \in InFlight(r)
    PROVE  s \in Refs /\ store[s] # "unused"
<1>1. SecretsOK(r) /\ s \in Refs
  BY DEF ProviderInv, ReqOK, InFlight
<1>2. CASE pc[r] \in AttachSteps
  BY <1>1, <1>2 DEF SecretsOK, InFlight, Attaching, AttachSteps
<1>3. CASE pc[r] \notin AttachSteps
  BY <1>1, <1>3 DEF SecretsOK, InFlight, AttachSteps
<1> QED
  BY <1>2, <1>3

(* No stored secret drops out of sight in a step of r.                     *)
LEMMA OrphansKept ==
    ASSUME ProviderInv, NEW r \in Requests,
           \A q \in Requests : q # r => pc'[q] = pc[q] /\ req'[q] = req[q],
           excused \subseteq excused',
           \A s \in InFlight(r) : store'[s] = "stored" =>
                \/ s \in InFlight(r)' \/ s \in excused'
                \/ \E c \in Conns : Live(c)' /\ conn'[c].secret = s,
           \A c \in Conns : Live(c) /\ store'[conn[c].secret] = "stored" =>
                \/ conn[c].secret \in InFlight(r)' \/ conn[c].secret \in excused'
                \/ \E d \in Conns : Live(d)' /\ conn'[d].secret = conn[c].secret,
           \A s \in Refs : store'[s] = "stored" => store[s] = "stored" \/ s \in InFlight(r)'
    PROVE  NoHiddenOrphan'
<1> SUFFICES ASSUME NEW s \in Refs, store'[s] = "stored",
                    ~\E c \in Conns : Live(c)' /\ conn'[c].secret = s,
                    s \notin excused'
             PROVE  \E q \in Requests : s \in InFlight(q)'
  BY DEF NoHiddenOrphan
<1>1. \A q \in Requests : q # r => InFlight(q)' = InFlight(q)
  BY DEF InFlight
<1>2. CASE s \in InFlight(r)'
  BY <1>2
<1>3. CASE s \notin InFlight(r)'
  <2>1. store[s] = "stored" /\ s \notin excused /\ s \notin InFlight(r)
    BY <1>3
  <2>2. ~\E c \in Conns : Live(c) /\ conn[c].secret = s
    BY <1>3
  <2>3. PICK q \in Requests : s \in InFlight(q)
    BY <2>1, <2>2 DEF ProviderInv, NoHiddenOrphan
  <2> QED
    BY <1>1, <2>1, <2>3
<1> QED
  BY <1>2, <1>3

-----------------------------------------------------------------------------
(* Steps that write neither connections nor the secret store.              *)
Quiet ==
    /\ UNCHANGED <<conn, store, unacked>>
    /\ excused \subseteq excused' /\ excused' \in SUBSET Refs
    /\ evidence' \in [Refs -> SUBSET {"ok", "auth"}]
    /\ \A s \in Refs : evidence[s] \subseteq evidence'[s]
    /\ model' \in [Models -> Model] /\ ModelsHaveRows'

(* r lets go of no secret, unless it is excused, and takes none.           *)
SameHands(r) ==
    /\ Attaching(r)' \subseteq Attaching(r) /\ InFlight(r)' \subseteq InFlight(r)
    /\ InFlight(r) \subseteq InFlight(r)' \cup excused'

LEMMA UnchangedQuiet ==
    ASSUME ProviderInv, UNCHANGED <<conn, model, store, evidence, excused, unacked>>
    PROVE  Quiet
BY DEF ProviderInv, TypeOK, Quiet, ModelsHaveRows

LEMMA QuietKeeps ==
    ASSUME ProviderInv, NEW r \in Requests, NEW step, NEW a, Moved(r, step, a),
           Quiet, SameHands(r), ReqOK(r)', LockKept(r)
    PROVE  ProviderInv'
<1>1. TypeOK'
  BY DEF Moved, Quiet, ProviderInv, TypeOK
<1>2. \A q \in Requests : q # r => pc'[q] = pc[q] /\ req'[q] = req[q]
  BY DEF Moved
<1>3. Frame(r)
  <2>1. \A q \in Requests : \A s \in Attaching(q) : store[s] = "stored"
    BY DEF ProviderInv, ReqOK, SecretsOK
  <2> QED
    BY <1>2, <2>1 DEF Frame, Quiet
<1>4. NotTaken(r)
  BY DEF NotTaken, SameHands, ProviderInv, OneHand
<1>5. \A c \in Conns : RowOK(c)'
  <2> SUFFICES ASSUME NEW c \in Conns PROVE RowOK(c)'
    OBVIOUS
  <2>1. RowOK(c) /\ conn'[c] = conn[c] /\ UNCHANGED <<store, unacked>>
    BY DEF ProviderInv, Quiet
  <2>2. conn[c].secret \in Refs => evidence[conn[c].secret] \subseteq evidence'[conn[c].secret]
    BY DEF Quiet
  <2> QED
    BY <2>1, <2>2 DEF RowOK, Live
<1>6. RowsDistinct'
  BY DEF ProviderInv, RowsDistinct, Quiet
<1>7. NoHiddenOrphan'
  <2>1. \A c \in Conns : Live(c)' <=> Live(c)
    BY DEF Quiet, Live
  <2>2. UNCHANGED <<conn, store>> /\ excused \subseteq excused'
        /\ InFlight(r) \subseteq InFlight(r)' \cup excused'
    BY DEF Quiet, SameHands
  <2> QED
    BY <1>2, <2>1, <2>2, OrphansKept
<1> QED
  BY <1>1, <1>3, <1>4, <1>5, <1>6, <1>7, StepKeeps DEF Quiet

(* A request that ends and leaves no secret behind.                        *)
LEMMA AnswerKeeps ==
    ASSUME ProviderInv, NEW r \in Requests, Answer(r), Quiet, InFlight(r) \subseteq excused'
    PROVE  ProviderInv'
<1>1. Moved(r, "idle", NoRequest)
  BY AnswerMoves DEF ProviderInv
<1>2. pc'[r] = "idle"
  BY <1>1 DEF Moved
<1> QED
  BY <1>1, <1>2, IdleOK, QuietKeeps DEF SameHands

(* A request that goes on without a secret in hand.                        *)
LEMMA GoesOnKeeps ==
    ASSUME ProviderInv, NEW r \in Requests, NEW step, NEW a, Moved(r, step, a), Quiet,
           pc[r] \notin HandSteps, step \notin HandSteps,
           ResultOK(r)', LockedOK(r)', LockKept(r)
    PROVE  ProviderInv'
<1>1. pc'[r] \notin HandSteps
  BY DEF Moved
<1>2. SecretsOK(r)' /\ SameHands(r)
  BY <1>1, EmptyHands, EmptyHandsNext DEF SameHands
<1> QED
  BY <1>2, QuietKeeps DEF ReqOK

-----------------------------------------------------------------------------
(* A request stores a new secret, which no row and no request has yet.     *)
LEMMA PutKeeps ==
    ASSUME ProviderInv, NEW r \in Requests, NEW s \in Refs, put_secret(s),
           NEW step \in {"c_insert", "u_lock"}, NEW a, Moved(r, step, a),
           a.new = s, pc[r] = "idle", step = "u_lock" => a.conn \in Conns,
           UNCHANGED <<conn, model, evidence, excused, unacked>>
    PROVE  ProviderInv'
<1>0. store[s] = "unused" /\ store'[s] = "stored" /\ \A t \in Refs : t # s => store'[t] = store[t]
  BY DEF put_secret, ProviderInv, TypeOK
<1>1. TypeOK'
  BY DEF Moved, put_secret, ProviderInv, TypeOK
<1>2. \A q \in Requests : q # r => pc'[q] = pc[q] /\ req'[q] = req[q]
  BY DEF Moved
<1>3. pc'[r] = step /\ req'[r].new = s /\ (step = "u_lock" => req'[r].conn \in Conns)
  BY DEF Moved
<1>4. Detached(s)
  BY <1>0 DEF ProviderInv, RowOK, Detached
<1>5. \A q \in Requests : s \notin InFlight(q)
  BY <1>0, InFlightUsed
<1>6. Attaching(r)' = {s} /\ InFlight(r)' = {s}
  BY <1>3 DEF Attaching, AttachSteps, InFlight
<1>7. Frame(r)
  <2>1. \A q \in Requests : \A t \in Attaching(q) : t \in Refs /\ store[t] = "stored"
    BY DEF ProviderInv, ReqOK, SecretsOK, Attaching
  <2> QED
    BY <1>0, <1>2, <2>1 DEF Frame
<1>8. NotTaken(r)
  BY <1>5, <1>6, AttachingInFlight DEF NotTaken
<1>9. LockKept(r)
  BY <1>3 DEF LockKept, Holds
<1>10. ReqOK(r)'
  <2>1. SecretsOK(r)'
    BY <1>0, <1>3, <1>4, <1>6 DEF SecretsOK, Detached
  <2>2. ResultOK(r)' /\ LockedOK(r)'
    BY <1>3 DEF ResultOK, LockedOK, TestSteps, ConnSteps, ModelSteps
  <2> QED
    BY <2>1, <2>2 DEF ReqOK
<1>11. \A c \in Conns : RowOK(c)'
  BY <1>0 DEF ProviderInv, RowOK, Live
<1>12. RowsDistinct' /\ ModelsHaveRows'
  BY DEF ProviderInv, RowsDistinct, ModelsHaveRows
<1>13. NoHiddenOrphan'
  <2>1. InFlight(r) = {}
    BY EmptyHands DEF HandSteps, AttachSteps
  <2>2. \A c \in Conns : Live(c)' <=> Live(c)
    BY DEF Live
  <2> QED
    BY <1>0, <1>2, <1>6, <2>1, <2>2, OrphansKept
<1> QED
  BY <1>1, <1>7, <1>8, <1>9, <1>10, <1>11, <1>12, <1>13, StepKeeps

(* A request removes the secret in its hand and ends.                      *)
LEMMA DeleteKeeps ==
    ASSUME ProviderInv, NEW r \in Requests, NEW s \in Refs, InFlight(r) = {s},
           s \in unacked \/ Detached(s), delete_secret(s), Answer(r),
           UNCHANGED <<conn, model, evidence, unacked>>
    PROVE  ProviderInv'
<1>1. CASE excused' = excused \cup {s} /\ UNCHANGED store
  <2>1. Quiet
    BY <1>1 DEF Quiet, ProviderInv, TypeOK, ModelsHaveRows
  <2> QED
    BY <1>1, <2>1, AnswerKeeps
<1>2. CASE store' = [store EXCEPT ![s] = IF @ = "stored" THEN "deleted" ELSE @] /\ UNCHANGED excused
  <2>0. /\ store'[s] = IF store[s] = "stored" THEN "deleted" ELSE store[s]
        /\ \A t \in Refs : t # s => store'[t] = store[t]
        /\ store' \in [Refs -> {"unused", "stored", "deleted"}]
    BY <1>2 DEF ProviderInv, TypeOK
  <2>1. Moved(r, "idle", NoRequest)
    BY AnswerMoves DEF ProviderInv
  <2>2. \A q \in Requests : q # r => pc'[q] = pc[q] /\ req'[q] = req[q]
    BY <2>1 DEF Moved
  <2>3. TypeOK'
    BY <1>2, <2>0, <2>1 DEF Moved, ProviderInv, TypeOK
  <2>4. ReqOK(r)' /\ LockKept(r) /\ NotTaken(r)
    BY <2>1, IdleOK DEF NotTaken, Moved
  <2>5. Frame(r)
    <3>1. \A q \in Requests : q # r => \A t \in Attaching(q) :
              t \in Refs /\ t # s /\ store[t] = "stored"
      BY Zenon DEF ProviderInv, ReqOK, SecretsOK, Attaching, OneHand
    <3> QED
      BY <2>0, <2>2, <3>1 DEF Frame
  <2>6. \A c \in Conns : RowOK(c)'
    <3> SUFFICES ASSUME NEW c \in Conns PROVE RowOK(c)'
      OBVIOUS
    <3>1. RowOK(c) /\ (conn[c].secret = s => s \in unacked)
      BY DEF ProviderInv, Detached
    <3> QED
      BY <2>0, <3>1, Zenon DEF RowOK, Live
  <2>7. RowsDistinct' /\ ModelsHaveRows'
    BY DEF ProviderInv, RowsDistinct, ModelsHaveRows
  <2>8. NoHiddenOrphan'
    <3>1. \A c \in Conns : Live(c)' <=> Live(c)
      BY DEF Live
    <3> QED
      BY <1>2, <2>0, <2>2, <3>1, OrphansKept, Zenon
  <2> QED
    BY <2>3, <2>4, <2>5, <2>6, <2>7, <2>8, StepKeeps
<1> QED
  BY <1>1, <1>2 DEF delete_secret

-----------------------------------------------------------------------------
(* A request commits row c, which no other request has locked.  The row    *)
(* keeps its secret, loses it, or gets the one the request has stored.     *)
RowWritten(r, c, row) ==
    /\ conn' \in [Conns -> Connection]
    /\ conn'[c] = row /\ \A d \in Conns : d # c => conn'[d] = conn[d]
    /\ Free(r, c)
    /\ UNCHANGED <<model, store, evidence>>
    /\ excused \subseteq excused' /\ excused' \in SUBSET Refs
    /\ unacked \subseteq unacked' /\ unacked' \in SUBSET Refs
    /\ row.secret \in {conn[c].secret, NoRef} \cup Attaching(r)

(* Neither the old secret of the row nor the one in hand is dropped.       *)
NothingDropped(r, c, row) ==
    /\ conn[c].secret \in {row.secret, NoRef} \cup InFlight(r)' \cup excused'
    /\ InFlight(r) \subseteq {row.secret} \cup InFlight(r)' \cup excused'
    /\ InFlight(r)' \subseteq InFlight(r) \cup {conn[c].secret}

LEMMA RowKeeps ==
    ASSUME ProviderInv, NEW r \in Requests, NEW c \in Conns, NEW row, RowWritten(r, c, row),
           NEW step \in {"idle", "undo", "remove"}, NEW a, Moved(r, step, a),
           ReqOK(r)', RowOK(c)', NothingDropped(r, c, row)
    PROVE  ProviderInv'
<1>0. /\ conn'[c] = row /\ \A d \in Conns : d # c => conn'[d] = conn[d]
      /\ UNCHANGED <<model, store, evidence>>
      /\ excused \subseteq excused' /\ unacked \subseteq unacked'
      /\ row.secret \in {conn[c].secret, NoRef} \cup Attaching(r)
  BY DEF RowWritten
<1>1. TypeOK'
  BY Zenon DEF Moved, RowWritten, ProviderInv, TypeOK
<1>2. \A q \in Requests : q # r => pc'[q] = pc[q] /\ req'[q] = req[q]
  BY DEF Moved
<1>3. Attaching(r)' = {} /\ LockKept(r)
  BY DEF Moved, Attaching, AttachSteps, LockKept, Holds
<1>4. Frame(r)
  <2>1. \A q \in Requests : \A s \in Attaching(q) : store[s] = "stored"
    BY DEF ProviderInv, ReqOK, SecretsOK
  <2>2. ASSUME NEW d \in Conns, NEW q \in Requests, q # r, Holds(q, d) PROVE conn'[d] = conn[d]
    BY <1>0, <2>2 DEF RowWritten, Free
  <2>3. ASSUME NEW d \in Conns, NEW q \in Requests, q # r, conn'[d].secret \in InFlight(q)
        PROVE  conn'[d].secret = conn[d].secret
    <3>1. conn'[d].secret \in Refs /\ conn'[d].secret \notin Attaching(r)
      BY <2>3 DEF InFlight, ProviderInv, OneHand
    <3> QED
      BY <1>0, <3>1, Zenon
  <2> QED
    BY <1>0, <1>2, <2>1, <2>2, <2>3 DEF Frame
<1>5. NotTaken(r)
  <2>1. \A q \in Requests : conn[c].secret \notin Attaching(q)
    BY Zenon DEF ProviderInv, ReqOK, SecretsOK, Detached
  <2> QED
    BY <1>3, <2>1 DEF NotTaken, NothingDropped, ProviderInv, OneHand
<1>6. \A d \in Conns : RowOK(d)'
  <2> SUFFICES ASSUME NEW d \in Conns, d # c PROVE RowOK(d)'
    OBVIOUS
  <2>1. RowOK(d) /\ conn'[d] = conn[d]
    BY <1>0, Zenon DEF ProviderInv
  <2> QED
    BY <1>0, <2>1, Zenon DEF RowOK, Live
<1>7. RowsDistinct'
  <2> SUFFICES ASSUME NEW d \in Conns, d # c, row.secret = conn[d].secret PROVE row.secret = NoRef
    BY <1>0 DEF ProviderInv, RowsDistinct
  <2>1. row.secret \notin Attaching(r)
    BY Zenon DEF ProviderInv, ReqOK, SecretsOK, Detached
  <2> QED
    BY <1>0, <2>1, Zenon DEF ProviderInv, RowsDistinct
<1>8. NoHiddenOrphan'
  <2>1. row.secret # NoRef => Live(c)'
    BY <1>0, Zenon DEF RowOK
  <2>2. \A d \in Conns : d # c => (Live(d)' <=> Live(d))
    BY <1>0, Zenon DEF Live
  <2>3. \A d \in Conns : Live(d) => conn[d].secret \in Refs
    BY Zenon DEF ProviderInv, RowOK
  <2>4. InFlight(r) \subseteq Refs
    BY DEF InFlight
  <2>5. \A s \in InFlight(r) :
            s \in InFlight(r)' \/ s \in excused' \/ \E d \in Conns : Live(d)' /\ conn'[d].secret = s
    BY <1>0, <2>1, <2>4, Zenon DEF NothingDropped
  <2>6. ASSUME NEW d \in Conns, Live(d)
        PROVE  \/ conn[d].secret \in InFlight(r)' \/ conn[d].secret \in excused'
               \/ \E e \in Conns : Live(e)' /\ conn'[e].secret = conn[d].secret
    <3>1. CASE d = c
      BY <1>0, <2>1, <2>3, <2>6, <3>1, Zenon DEF NothingDropped
    <3>2. CASE d # c
      BY <1>0, <2>2, <2>6, <3>2, Zenon
    <3> QED
      BY <3>1, <3>2
  <2> QED
    BY <1>0, <1>2, <2>5, <2>6, OrphansKept, Zenon
<1>9. ModelsHaveRows'
  BY <1>0, Zenon DEF ProviderInv, ModelsHaveRows
<1> QED
  BY <1>1, <1>3, <1>4, <1>5, <1>6, <1>7, <1>8, <1>9, StepKeeps

-----------------------------------------------------------------------------
(* The secret store's steps, and the way to them.                          *)
LEMMA CleanupKeeps ==
    ASSUME ProviderInv, NEW r \in Requests, cleanup_new_secret(r) \/ remove_old_secret(r)
    PROVE  ProviderInv'
<1>1. SecretsOK(r)
  BY DEF ProviderInv, ReqOK
<1>2. CASE cleanup_new_secret(r)
  <2>1. req[r].new \in Refs /\ InFlight(r) = {req[r].new}
        /\ (req[r].new \in unacked \/ Detached(req[r].new))
    BY <1>1, <1>2 DEF cleanup_new_secret, SecretsOK, InFlight
  <2>2. delete_secret(req[r].new) /\ Answer(r) /\ UNCHANGED <<conn, model, evidence, unacked>>
    BY <1>2 DEF cleanup_new_secret
  <2> QED
    BY <2>1, <2>2, DeleteKeeps
<1>3. CASE remove_old_secret(r)
  <2>1. req[r].seen \in Refs /\ InFlight(r) = {req[r].seen} /\ Detached(req[r].seen)
    BY <1>1, <1>3 DEF remove_old_secret, SecretsOK, InFlight
  <2>2. delete_secret(req[r].seen) /\ Answer(r) /\ UNCHANGED <<conn, model, evidence, unacked>>
    BY <1>3 DEF remove_old_secret
  <2> QED
    BY <2>1, <2>2, DeleteKeeps
<1> QED
  BY <1>2, <1>3

LEMMA AbortKeeps ==
    ASSUME ProviderInv, NEW r \in Requests, pc[r] \in AttachSteps, Abort(r) PROVE ProviderInv'
<1>0. Quiet /\ SecretsOK(r)
  BY UnchangedQuiet DEF Abort, ProviderInv, ReqOK
<1>1. CASE req[r].new = NoRef
  <2>1. InFlight(r) = {}
    BY <1>1 DEF InFlight, AttachSteps
  <2> QED
    BY <1>0, <1>1, <2>1, AnswerKeeps DEF Abort
<1>2. CASE req[r].new # NoRef
  <2>1. req[r].new \in Refs
    BY <1>2 DEF ProviderInv, TypeOK, Request
  <2>2. Moved(r, "undo", req[r])
    BY <1>2, GotoMoves, Zenon DEF Abort, Steps, ProviderInv
  <2>3. pc'[r] = "undo" /\ req'[r] = req[r]
    BY <2>2 DEF Moved
  <2>4. Attaching(r) = {req[r].new} /\ InFlight(r) = {req[r].new}
    BY <2>1 DEF Attaching, InFlight, AttachSteps
  <2>5. Attaching(r)' = {} /\ InFlight(r)' = {req[r].new}
    BY <2>1, <2>3 DEF Attaching, InFlight, AttachSteps
  <2>6. SameHands(r)
    BY <2>4, <2>5 DEF SameHands
  <2>7. store[req[r].new] = "stored" /\ Detached(req[r].new)
    BY <1>0, <2>4 DEF SecretsOK
  <2>8. ReqOK(r)'
    BY <1>0, <2>1, <2>3, <2>5, <2>7, Zenon
       DEF ReqOK, SecretsOK, ResultOK, LockedOK, Detached, Quiet, TestSteps, ConnSteps, ModelSteps
  <2>9. LockKept(r)
    BY <2>3, Zenon DEF LockKept, Holds
  <2> QED
    BY <1>0, <2>2, <2>6, <2>8, <2>9, QuietKeeps
<1> QED
  BY <1>1, <1>2

-----------------------------------------------------------------------------
(* create_provider and update_provider.                                    *)
LEMMA HeldLive ==
    ASSUME ProviderInv, NEW q \in Requests, NEW c \in Conns, Holds(q, c) PROVE Live(c)
BY DEF ProviderInv, ReqOK, LockedOK, Holds, Live

LEMMA HolderFree ==
    ASSUME ProviderInv, NEW r \in Requests, NEW c \in Conns, Holds(r, c) PROVE Free(r, c)
BY DEF ProviderInv, LocksExclusive, Free

LEMMA CreateKeeps ==
    ASSUME ProviderInv, NEW r \in Requests, NEW n \in Names, NEW s \in Refs, create_provider(r, n, s)
    PROVE  ProviderInv'
<1>1. PICK a : a = [NoRequest EXCEPT !.name = n, !.new = s]
  OBVIOUS
<1>2. a \in Request /\ a.new = s
  BY <1>1, Zenon DEF NoRequest, Request
<1>3. put_secret(s) /\ Start(r, "c_insert", a) /\ UNCHANGED <<conn, model, evidence, excused, unacked>>
  BY <1>1 DEF create_provider
<1>4. Moved(r, "c_insert", a) /\ pc[r] = "idle"
  BY <1>2, <1>3, StartMoves DEF Steps, ProviderInv
<1> QED
  BY <1>2, <1>3, <1>4, PutKeeps

LEMMA UpdateKeeps ==
    ASSUME ProviderInv, NEW r \in Requests, NEW c \in Conns, NEW n \in Names \cup {NoName},
           NEW s \in Refs \cup {NoRef}, update_provider(r, c, n, s)
    PROVE  ProviderInv'
<1>1. PICK a : a = [NoRequest EXCEPT !.conn = c, !.name = n, !.new = s, !.seen = conn[c].secret]
  OBVIOUS
<1>2. a \in Request /\ a.new = s /\ a.conn = c
  <2>1. conn[c].secret \in Refs \cup {NoRef}
    BY DEF ProviderInv, TypeOK, Connection
  <2> QED
    BY <1>1, <2>1, Zenon DEF NoRequest, Request
<1>3. Start(r, "u_lock", a) /\ UNCHANGED <<conn, model, evidence, excused, unacked>>
  BY <1>1 DEF update_provider
<1>4. Moved(r, "u_lock", a) /\ pc[r] = "idle"
  BY <1>2, <1>3, StartMoves, Zenon DEF Steps, ProviderInv
<1>5. CASE s = NoRef
  <2>1. Quiet
    BY <1>3, <1>5, UnchangedQuiet DEF update_provider
  <2>2. pc'[r] = "u_lock" /\ req'[r].new = NoRef /\ req'[r].conn \in Conns
    BY <1>2, <1>4, <1>5 DEF Moved
  <2>3. InFlight(r)' = {} /\ Attaching(r)' = {} /\ InFlight(r) = {}
    BY <1>4, <2>2 DEF InFlight, Attaching
  <2>4. ReqOK(r)'
    BY <2>2, <2>3, Zenon DEF ReqOK, SecretsOK, ResultOK, LockedOK, TestSteps, ModelSteps
  <2>5. LockKept(r) /\ SameHands(r)
    BY <2>2, <2>3 DEF LockKept, Holds, SameHands
  <2> QED
    BY <1>4, <2>1, <2>4, <2>5, QuietKeeps
<1>6. CASE s # NoRef
  <2>1. s \in Refs /\ put_secret(s)
    BY <1>6 DEF update_provider
  <2> QED
    BY <1>2, <1>3, <1>4, <2>1, PutKeeps, Zenon
<1> QED
  BY <1>5, <1>6

LEMMA InsertKeeps ==
    ASSUME ProviderInv, NEW r \in Requests, insert_provider(r) PROVE ProviderInv'
<1>0. pc[r] = "c_insert" /\ req[r] \in Request
  BY DEF insert_provider, ProviderInv, TypeOK
<1>1. CASE Abort(r)
  BY <1>0, <1>1, AbortKeeps DEF AttachSteps
<1>2. CASE ~Abort(r)
  <2>0. PICK s \in Refs : s = req[r].new
    BY <1>0 DEF ProviderInv, ReqOK, SecretsOK
  <2>1. PICK c \in Conns :
           /\ conn[c].status = "absent"
           /\ conn' = [conn EXCEPT ![c] = [status |-> "untested", secret |-> req[r].new,
                                           name |-> req[r].name]]
    BY <1>2, Zenon DEF insert_provider
  <2>2. PICK row : row = [status |-> "untested", secret |-> s, name |-> req[r].name]
    BY Zenon
  <2>3. row \in Connection /\ row.secret = s /\ row.status = "untested"
    BY <1>0, <2>2, Zenon DEF Connection, Statuses, Request
  <2>4. /\ conn' \in [Conns -> Connection] /\ conn'[c] = row
        /\ \A d \in Conns : d # c => conn'[d] = conn[d]
    BY <2>0, <2>1, <2>2, <2>3 DEF ProviderInv, TypeOK
  <2>5. Attaching(r) = {s} /\ InFlight(r) = {s}
    BY <1>0, <2>0, Zenon DEF Attaching, AttachSteps, InFlight
  <2>6. store[s] = "stored"
    BY <2>5, Zenon DEF ProviderInv, ReqOK, SecretsOK
  <2>7. Free(r, c) /\ conn[c].secret = NoRef
    <3>1. ~Live(c)
      BY <2>1 DEF Live
    <3> QED
      BY <3>1, HeldLive, Zenon DEF Free, ProviderInv, RowOK
  <2>8. UNCHANGED <<model, store, evidence, excused>>
    BY <1>2, Zenon DEF insert_provider
  <2>9. RowOK(c)'
    BY <2>3, <2>4, <2>6, <2>8 DEF RowOK, Live
  <2>10. CASE Answer(r) /\ UNCHANGED unacked
    <3>1. Moved(r, "idle", NoRequest)
      BY <2>10, AnswerMoves DEF ProviderInv
    <3>2. ReqOK(r)' /\ InFlight(r)' = {}
      BY <3>1, IdleOK DEF Moved
    <3>3. RowWritten(r, c, row)
      BY <2>3, <2>4, <2>5, <2>7, <2>8, <2>10 DEF RowWritten, ProviderInv, TypeOK
    <3>4. NothingDropped(r, c, row)
      BY <2>3, <2>5, <2>7, <3>2, Zenon DEF NothingDropped
    <3> QED
      BY <2>9, <3>1, <3>2, <3>3, <3>4, RowKeeps
  <2>11. CASE Goto(r, "undo") /\ unacked' = unacked \cup {req[r].new}
    <3>1. Moved(r, "undo", req[r])
      BY <2>11, GotoMoves DEF ProviderInv, Steps
    <3>2. pc'[r] = "undo" /\ req'[r].new = s /\ s \in unacked'
      BY <2>0, <2>11, <3>1 DEF Moved
    <3>3. InFlight(r)' = {s} /\ Attaching(r)' = {}
      BY <3>2 DEF InFlight, Attaching, AttachSteps
    <3>4. ReqOK(r)'
      BY <2>6, <2>8, <3>2, <3>3, Zenon
         DEF ReqOK, SecretsOK, ResultOK, LockedOK, TestSteps, ConnSteps, ModelSteps
    <3>5. RowWritten(r, c, row)
      BY <2>0, <2>3, <2>4, <2>5, <2>7, <2>8, <2>11, Zenon DEF RowWritten, ProviderInv, TypeOK
    <3>6. NothingDropped(r, c, row)
      BY <2>3, <2>5, <2>7, <3>3, Zenon DEF NothingDropped
    <3> QED
      BY <2>9, <3>1, <3>4, <3>5, <3>6, RowKeeps
  <2> QED
    BY <1>2, <2>10, <2>11 DEF insert_provider
<1> QED
  BY <1>1, <1>2

LEMMA LockUpdateKeeps ==
    ASSUME ProviderInv, NEW r \in Requests, lock_for_update(r) PROVE ProviderInv'
<1>0. pc[r] = "u_lock" /\ req[r] \in Request /\ req[r].conn \in Conns
  BY DEF lock_for_update, ProviderInv, TypeOK, ReqOK, LockedOK, ConnSteps
<1>1. CASE Abort(r)
  BY <1>0, <1>1, AbortKeeps, Zenon DEF AttachSteps
<1>2. CASE ~Abort(r)
  <2>0. PICK c \in Conns : c = req[r].conn
    BY <1>0
  <2>1. /\ Live(c) /\ Free(r, c)
        /\ pc' = [pc EXCEPT ![r] = "u_write"] /\ req' = [req EXCEPT ![r].seen = conn[c].secret]
        /\ UNCHANGED <<conn, model, store, evidence, excused, unacked>>
    BY <1>2, <2>0 DEF lock_for_update
  <2>2. PICK a : a = [req[r] EXCEPT !.seen = conn[c].secret]
    BY Zenon
  <2>3. conn[c].secret \in Refs \cup {NoRef}
    BY DEF ProviderInv, TypeOK, Connection
  <2>4. a \in Request /\ a.seen = conn[c].secret /\ a.new = req[r].new /\ a.conn = c
    BY <1>0, <2>0, <2>2, <2>3, SeenUpdate
  <2>5. Moved(r, "u_write", a)
    BY <2>1, <2>2, <2>4 DEF Moved, ProviderInv, TypeOK, Steps
  <2>6. pc'[r] = "u_write" /\ req'[r] = a
    BY <2>5 DEF Moved
  <2>7. Attaching(r)' = Attaching(r) /\ InFlight(r)' = InFlight(r)
    BY <1>0, <2>4, <2>6 DEF Attaching, AttachSteps, InFlight
  <2>8. SecretsOK(r)'
    <3>1. \A s \in Attaching(r) : store[s] = "stored" /\ Detached(s)
      BY Zenon DEF ProviderInv, ReqOK, SecretsOK
    <3> QED
      BY <2>1, <2>6, <2>7, <3>1 DEF SecretsOK, Detached
  <2>9. ResultOK(r)' /\ LockedOK(r)'
    BY <2>1, <2>4, <2>6, Zenon DEF ResultOK, LockedOK, TestSteps, ModelSteps, Live
  <2>10. LockKept(r) /\ SameHands(r)
    BY <2>1, <2>4, <2>6, <2>7, Zenon DEF LockKept, Holds, SameHands
  <2> QED
    BY <2>1, <2>5, <2>8, <2>9, <2>10, UnchangedQuiet, QuietKeeps DEF ReqOK
<1> QED
  BY <1>1, <1>2

LEMMA UpdatedRow ==
    ASSUME NEW row \in Connection, NEW q \in Request
    PROVE  /\ Updated(row, q) \in Connection
           /\ q.new = NoRef => /\ Updated(row, q).secret = row.secret
                               /\ Updated(row, q).status = row.status
           /\ q.new # NoRef => /\ Updated(row, q).secret = q.new
                               /\ Updated(row, q).status = "untested"
BY DEF Updated, Connection, Statuses, Request

(* The row that r has locked for writing.                                  *)
LEMMA LockedRow ==
    ASSUME ProviderInv, NEW r \in Requests, pc[r] \in {"u_write", "d_write", "t_write"}
    PROVE  /\ req[r].conn \in Conns /\ Live(req[r].conn) /\ Free(r, req[r].conn)
           /\ conn[req[r].conn] \in Connection /\ conn[req[r].conn].secret = req[r].seen
           /\ req[r].seen \in Refs /\ store[req[r].seen] # "unused" /\ req[r] \in Request
<1>1. req[r].conn \in Conns /\ Live(req[r].conn) /\ conn[req[r].conn].secret = req[r].seen
  BY Zenon DEF ProviderInv, ReqOK, LockedOK, ConnSteps
<1>2. Free(r, req[r].conn)
  BY <1>1, HolderFree DEF Holds
<1>3. conn[req[r].conn] \in Connection /\ req[r] \in Request
  BY <1>1 DEF ProviderInv, TypeOK
<1>4. req[r].seen \in Refs /\ store[req[r].seen] # "unused"
  BY <1>1 DEF ProviderInv, RowOK
<1> QED
  BY <1>1, <1>2, <1>3, <1>4

(* Once a row has let go of its secret no row names it.                    *)
LEMMA LetGo ==
    ASSUME ProviderInv, NEW c \in Conns, NEW s \in Refs, conn[c].secret = s, conn'[c].secret # s,
           \A d \in Conns : d # c => conn'[d] = conn[d]
    PROVE  Detached(s)'
BY DEF ProviderInv, RowsDistinct, Detached

LEMMA WriteUpdateKeeps ==
    ASSUME ProviderInv, NEW r \in Requests, write_update(r) PROVE ProviderInv'
<1>0. pc[r] = "u_write"
  BY Zenon DEF write_update
<1>1. CASE Abort(r)
  BY <1>0, <1>1, AbortKeeps DEF AttachSteps
<1>2. CASE ~Abort(r)
  <2>0. PICK c \in Conns, old \in Refs :
           /\ c = req[r].conn /\ old = req[r].seen /\ Live(c) /\ Free(r, c)
           /\ conn[c] \in Connection /\ conn[c].secret = old /\ store[old] # "unused"
    BY <1>0, LockedRow
  <2>1. PICK row : row = Updated(conn[c], req[r])
    OBVIOUS
  <2>2. req[r] \in Request
    BY DEF ProviderInv, TypeOK
  <2>3. /\ row \in Connection
        /\ req[r].new = NoRef => row.secret = old /\ row.status = conn[c].status
        /\ req[r].new # NoRef => row.secret = req[r].new /\ row.status = "untested"
    BY <2>0, <2>1, <2>2, UpdatedRow, Zenon
  <2>4. conn' = [conn EXCEPT ![c] = row] /\ UNCHANGED <<model, store, evidence>>
    BY <1>2, <2>0, <2>1, Zenon DEF write_update
  <2>5. /\ conn' \in [Conns -> Connection] /\ conn'[c] = row
        /\ \A d \in Conns : d # c => conn'[d] = conn[d]
    BY <2>3, <2>4 DEF ProviderInv, TypeOK
  <2>6. CASE req[r].new = NoRef
    <3>1. Answer(r) /\ UNCHANGED <<excused, unacked>>
      BY <1>2, <2>6 DEF write_update
    <3>2. Moved(r, "idle", NoRequest)
      BY <3>1, AnswerMoves DEF ProviderInv
    <3>3. ReqOK(r)' /\ InFlight(r)' = {}
      BY <3>2, IdleOK, Zenon DEF Moved
    <3>4. InFlight(r) = {}
      BY <1>0, <2>6 DEF InFlight
    <3>5. RowWritten(r, c, row)
      BY <2>0, <2>3, <2>4, <2>5, <2>6, <3>1, Zenon DEF RowWritten, ProviderInv, TypeOK
    <3>6. NothingDropped(r, c, row)
      BY <2>0, <2>3, <2>6, <3>3, <3>4 DEF NothingDropped
    <3>7. RowOK(c)'
      <4>1. RowOK(c) /\ row.secret = conn[c].secret /\ row.status = conn[c].status
        BY <2>0, <2>3, <2>6, Zenon DEF ProviderInv
      <4> QED
        BY <2>4, <2>5, <3>1, <4>1, Zenon DEF RowOK, Live
    <3> QED
      BY <3>2, <3>3, <3>5, <3>6, <3>7, RowKeeps
  <2>7. CASE req[r].new # NoRef
    <3>0. PICK s \in Refs : s = req[r].new
      BY <2>2, <2>7 DEF Request
    <3>1. Attaching(r) = {s} /\ InFlight(r) = {s}
      BY <1>0, <3>0, Zenon DEF Attaching, AttachSteps, InFlight
    <3>2. store[s] = "stored" /\ Detached(s)
      BY <3>1, Zenon DEF ProviderInv, ReqOK, SecretsOK
    <3>3. row.secret = s /\ row.status = "untested" /\ s # old
      BY <2>0, <2>3, <2>7, <3>0, <3>2 DEF Detached
    <3>4. Detached(old)'
      BY <2>0, <2>5, <3>3, LetGo
    <3>5. RowOK(c)'
      BY <2>4, <2>5, <3>2, <3>3, Zenon DEF RowOK, Live
    <3>6. CASE Goto(r, "remove") /\ UNCHANGED <<excused, unacked>>
      <4>1. Moved(r, "remove", req[r])
        BY <3>6, GotoMoves DEF ProviderInv, Steps
      <4>2. pc'[r] = "remove" /\ req'[r] = req[r]
        BY <4>1, Zenon DEF Moved
      <4>3. InFlight(r)' = {old} /\ Attaching(r)' = {}
        BY <2>0, <4>2, Zenon DEF InFlight, Attaching, AttachSteps
      <4>4. ReqOK(r)'
        BY <2>0, <2>4, <3>4, <4>2, <4>3, Zenon
           DEF ReqOK, SecretsOK, ResultOK, LockedOK, Detached, TestSteps, ConnSteps, ModelSteps
      <4>5. RowWritten(r, c, row)
        BY <2>0, <2>4, <2>5, <3>1, <3>3, <3>6, Zenon DEF RowWritten, ProviderInv, TypeOK
      <4>6. NothingDropped(r, c, row)
        BY <2>0, <3>1, <3>3, <4>3, Zenon DEF NothingDropped
      <4> QED
        BY <3>5, <4>1, <4>4, <4>5, <4>6, RowKeeps
    <3>7. CASE Goto(r, "undo") /\ excused' = excused \cup {old} /\ unacked' = unacked \cup {s}
      <4>1. Moved(r, "undo", req[r])
        BY <3>7, GotoMoves DEF ProviderInv, Steps
      <4>2. pc'[r] = "undo" /\ req'[r].new = s
        BY <3>0, <4>1 DEF Moved
      <4>3. InFlight(r)' = {s} /\ Attaching(r)' = {}
        BY <4>2 DEF InFlight, Attaching, AttachSteps
      <4>4. ReqOK(r)'
        BY <2>4, <3>2, <3>7, <4>2, <4>3, Zenon
           DEF ReqOK, SecretsOK, ResultOK, LockedOK, TestSteps, ConnSteps, ModelSteps
      <4>5. RowWritten(r, c, row)
        BY <2>0, <2>4, <2>5, <3>1, <3>3, <3>7, Zenon DEF RowWritten, ProviderInv, TypeOK
      <4>6. NothingDropped(r, c, row)
        BY <2>0, <3>1, <3>3, <3>7, <4>3, Zenon DEF NothingDropped
      <4> QED
        BY <3>5, <4>1, <4>4, <4>5, <4>6, RowKeeps
    <3> QED
      BY <1>2, <2>0, <2>7, <3>0, <3>6, <3>7, Zenon DEF write_update
  <2> QED
    BY <2>6, <2>7
<1> QED
  BY <1>1, <1>2

-----------------------------------------------------------------------------
(* delete_provider.                                                        *)
LEMMA DeleteStartKeeps ==
    ASSUME ProviderInv, NEW r \in Requests, NEW c \in Conns, delete_provider(r, c) PROVE ProviderInv'
<1>1. PICK a : a = [NoRequest EXCEPT !.conn = c]
  BY Zenon
<1>2. a \in Request /\ a.conn = c
  BY <1>1, NoRequestTyped, ConnUpdate
<1>3. Moved(r, "d_lock", a) /\ pc[r] = "idle"
  BY <1>1, <1>2, StartMoves DEF delete_provider, Steps, ProviderInv
<1>4. pc'[r] = "d_lock" /\ req'[r] = a
  BY <1>3 DEF Moved
<1>5. ResultOK(r)' /\ LockedOK(r)' /\ LockKept(r)
  BY <1>2, <1>4, Zenon DEF ResultOK, LockedOK, LockKept, Holds, TestSteps, ModelSteps
<1>6. Quiet
  BY UnchangedQuiet DEF delete_provider
<1> QED
  BY <1>3, <1>5, <1>6, GoesOnKeeps DEF HandSteps, AttachSteps

LEMMA LockDeleteKeeps ==
    ASSUME ProviderInv, NEW r \in Requests, lock_for_delete(r) PROVE ProviderInv'
<1>0. pc[r] = "d_lock" /\ req[r] \in Request /\ Quiet
  BY UnchangedQuiet DEF lock_for_delete, ProviderInv, TypeOK
<1>1. PICK c \in Conns : c = req[r].conn
  BY <1>0, Zenon DEF ProviderInv, ReqOK, LockedOK, ConnSteps
<1>2. CASE Answer(r)
  BY <1>0, <1>2, EmptyHands, AnswerKeeps DEF HandSteps, AttachSteps
<1>3. CASE ~Answer(r)
  <2>1. /\ Live(c) /\ Free(r, c) /\ UNCHANGED conn
        /\ pc' = [pc EXCEPT ![r] = "d_write"] /\ req' = [req EXCEPT ![r].seen = conn[c].secret]
    BY <1>1, <1>3 DEF lock_for_delete
  <2>2. PICK a : a = [req[r] EXCEPT !.seen = conn[c].secret]
    BY Zenon
  <2>3. conn[c].secret \in Refs \cup {NoRef}
    BY DEF ProviderInv, TypeOK, Connection
  <2>4. a \in Request /\ a.seen = conn[c].secret /\ a.conn = c
    BY <1>0, <1>1, <2>2, <2>3, SeenUpdate
  <2>5. Moved(r, "d_write", a)
    BY <2>1, <2>2, <2>4 DEF Moved, ProviderInv, TypeOK, Steps
  <2>6. pc'[r] = "d_write" /\ req'[r] = a
    BY <2>5 DEF Moved
  <2>7. ResultOK(r)' /\ LockedOK(r)' /\ LockKept(r)
    BY <2>1, <2>4, <2>6, Zenon DEF ResultOK, LockedOK, LockKept, Holds, TestSteps, ModelSteps, Live
  <2> QED
    BY <1>0, <2>5, <2>7, GoesOnKeeps DEF HandSteps, AttachSteps
<1> QED
  BY <1>2, <1>3

LEMMA WriteDeleteKeeps ==
    ASSUME ProviderInv, NEW r \in Requests, write_delete(r) PROVE ProviderInv'
<1>0. pc[r] = "d_write" /\ InFlight(r) = {} /\ UNCHANGED <<model, store, evidence, unacked>>
  BY EmptyHands DEF write_delete, HandSteps, AttachSteps
<1>1. CASE Answer(r) /\ UNCHANGED <<conn, excused>>
  BY <1>0, <1>1, UnchangedQuiet, AnswerKeeps
<1>2. CASE ~(Answer(r) /\ UNCHANGED <<conn, excused>>)
  <2>0. PICK c \in Conns, old \in Refs :
           /\ c = req[r].conn /\ old = req[r].seen /\ Live(c) /\ Free(r, c)
           /\ conn[c].secret = old /\ store[old] # "unused"
    BY <1>0, LockedRow
  <2>1. PICK row : row = [NoConnection EXCEPT !.status = "deleted"]
    BY Zenon
  <2>2. row \in Connection /\ row.secret = NoRef /\ row.status = "deleted"
    BY <2>1 DEF NoConnection, Connection, Statuses
  <2>3. conn' = [conn EXCEPT ![c] = row]
    BY <1>2, <2>0, <2>1 DEF write_delete
  <2>4. /\ conn' \in [Conns -> Connection] /\ conn'[c] = row
        /\ \A d \in Conns : d # c => conn'[d] = conn[d]
    BY <2>2, <2>3 DEF ProviderInv, TypeOK
  <2>5. RowOK(c)'
    BY <2>2, <2>4 DEF RowOK, Live
  <2>6. Detached(old)'
    BY <2>0, <2>2, <2>4, LetGo
  <2>7. CASE Goto(r, "remove") /\ UNCHANGED excused
    <3>1. Moved(r, "remove", req[r])
      BY <2>7, GotoMoves DEF ProviderInv, Steps
    <3>2. pc'[r] = "remove" /\ req'[r] = req[r]
      BY <3>1 DEF Moved
    <3>3. InFlight(r)' = {old} /\ Attaching(r)' = {}
      BY <2>0, <3>2 DEF InFlight, Attaching, AttachSteps
    <3>4. ReqOK(r)'
      BY <1>0, <2>0, <2>6, <3>2, <3>3, Zenon
         DEF ReqOK, SecretsOK, ResultOK, LockedOK, Detached, TestSteps, ConnSteps, ModelSteps
    <3>5. RowWritten(r, c, row)
      BY <1>0, <2>0, <2>2, <2>4, <2>7, Zenon DEF RowWritten, ProviderInv, TypeOK
    <3>6. NothingDropped(r, c, row)
      BY <1>0, <2>0, <2>2, <3>3, Zenon DEF NothingDropped
    <3> QED
      BY <2>5, <3>1, <3>4, <3>5, <3>6, RowKeeps
  <2>8. CASE Answer(r) /\ excused' = excused \cup {old}
    <3>1. Moved(r, "idle", NoRequest)
      BY <2>8, AnswerMoves DEF ProviderInv
    <3>2. ReqOK(r)' /\ InFlight(r)' = {}
      BY <3>1, IdleOK DEF Moved
    <3>3. RowWritten(r, c, row)
      BY <1>0, <2>0, <2>2, <2>4, <2>8, Zenon DEF RowWritten, ProviderInv, TypeOK
    <3>4. NothingDropped(r, c, row)
      BY <1>0, <2>0, <2>2, <2>8, <3>2, Zenon DEF NothingDropped
    <3> QED
      BY <2>5, <3>1, <3>2, <3>3, <3>4, RowKeeps
  <2> QED
    BY <1>2, <2>0, <2>7, <2>8 DEF write_delete
<1> QED
  BY <1>1, <1>2

-----------------------------------------------------------------------------
(* test_provider_connectivity.                                             *)
LEMMA TestStartKeeps ==
    ASSUME ProviderInv, NEW r \in Requests, NEW c \in Conns, test_provider(r, c), pc' # pc \/ req' # req
    PROVE  ProviderInv'
<1>1. PICK a : a = [NoRequest EXCEPT !.conn = c, !.seen = conn[c].secret]
  OBVIOUS
<1>2. Live(c) /\ Start(r, "t_limit", a)
  BY <1>1 DEF test_provider
<1>3. PICK s \in Refs : s = conn[c].secret
  BY <1>2, Zenon DEF ProviderInv, RowOK
<1>4. a \in Request /\ a.conn = c /\ a.seen = s
  BY <1>1, <1>3, Zenon DEF NoRequest, Request
<1>5. Moved(r, "t_limit", a) /\ pc[r] = "idle"
  BY <1>2, <1>4, StartMoves DEF Steps, ProviderInv
<1>6. pc'[r] = "t_limit" /\ req'[r] = a
  BY <1>5 DEF Moved
<1>7. ResultOK(r)' /\ LockedOK(r)' /\ LockKept(r)
  BY <1>4, <1>6, Zenon DEF ResultOK, LockedOK, LockKept, Holds, ModelSteps
<1>8. Quiet
  BY UnchangedQuiet DEF test_provider
<1> QED
  BY <1>5, <1>7, <1>8, GoesOnKeeps DEF HandSteps, AttachSteps

LEMMA LimitKeeps ==
    ASSUME ProviderInv, NEW r \in Requests, check_and_consume(r) PROVE ProviderInv'
<1>0. pc[r] = "t_limit" /\ Quiet
  BY UnchangedQuiet DEF check_and_consume
<1>1. CASE Answer(r)
  BY <1>0, <1>1, EmptyHands, AnswerKeeps DEF HandSteps, AttachSteps
<1>2. CASE Goto(r, "t_call")
  <2>1. Moved(r, "t_call", req[r])
    BY <1>2, GotoMoves DEF ProviderInv, Steps
  <2>2. pc'[r] = "t_call" /\ req'[r] = req[r]
    BY <2>1 DEF Moved
  <2>3. req[r].conn \in Conns /\ req[r].seen \in Refs
    BY <1>0, Zenon DEF ProviderInv, ReqOK, ResultOK, LockedOK, TestSteps, ConnSteps
  <2>4. ResultOK(r)' /\ LockedOK(r)' /\ LockKept(r)
    BY <2>2, <2>3, Zenon DEF ResultOK, LockedOK, LockKept, Holds, ModelSteps
  <2> QED
    BY <1>0, <2>1, <2>4, GoesOnKeeps DEF HandSteps, AttachSteps
<1> QED
  BY <1>1, <1>2 DEF check_and_consume

LEMMA CallKeeps ==
    ASSUME ProviderInv, NEW r \in Requests, call_gateway(r) PROVE ProviderInv'
<1>0. /\ pc[r] = "t_call" /\ req[r] \in Request /\ req[r].conn \in Conns
      /\ UNCHANGED <<conn, model, store, excused, unacked>>
  BY DEF call_gateway, ProviderInv, TypeOK, ReqOK, LockedOK, ConnSteps
<1>1. CASE Answer(r) /\ UNCHANGED evidence
  BY <1>0, <1>1, UnchangedQuiet, EmptyHands, AnswerKeeps, Zenon DEF HandSteps, AttachSteps
<1>2. CASE ~(Answer(r) /\ UNCHANGED evidence)
  <2>0. PICK s \in Refs : s = req[r].seen
    BY <1>0, Zenon DEF ProviderInv, ReqOK, ResultOK, TestSteps
  <2>1. PICK o \in {"ok", "auth", "other"} :
           /\ evidence' = [evidence EXCEPT ![s] = @ \cup ({o} \cap {"ok", "auth"})]
           /\ pc' = [pc EXCEPT ![r] = "t_lock"] /\ req' = [req EXCEPT ![r].outcome = o]
    BY <1>2, <2>0 DEF call_gateway
  <2>2. /\ evidence' \in [Refs -> SUBSET {"ok", "auth"}]
        /\ \A t \in Refs : evidence[t] \subseteq evidence'[t]
        /\ {o} \cap {"ok", "auth"} \subseteq evidence'[s]
    BY <2>1 DEF ProviderInv, TypeOK
  <2>3. Quiet
    BY <1>0, <2>2, Zenon DEF Quiet, ProviderInv, TypeOK, ModelsHaveRows
  <2>4. PICK a : a = [req[r] EXCEPT !.outcome = o]
    BY Zenon
  <2>5. a \in Request /\ a.outcome = o /\ a.seen = s /\ a.conn \in Conns
    BY <1>0, <2>0, <2>4, OutcomeUpdate
  <2>6. Moved(r, "t_lock", a)
    BY <2>1, <2>4, <2>5 DEF Moved, ProviderInv, TypeOK, Steps
  <2>7. pc'[r] = "t_lock" /\ req'[r] = a
    BY <2>6 DEF Moved
  <2>8. ResultOK(r)' /\ LockedOK(r)' /\ LockKept(r)
    BY <2>2, <2>5, <2>7, Zenon DEF ResultOK, LockedOK, LockKept, Holds, ModelSteps
  <2> QED
    BY <1>0, <2>3, <2>6, <2>8, GoesOnKeeps DEF HandSteps, AttachSteps
<1> QED
  BY <1>1, <1>2

LEMMA LockResultKeeps ==
    ASSUME ProviderInv, NEW r \in Requests, lock_for_result(r) PROVE ProviderInv'
<1>0. pc[r] = "t_lock" /\ Quiet
  BY UnchangedQuiet DEF lock_for_result
<1>1. CASE Answer(r)
  BY <1>0, <1>1, EmptyHands, AnswerKeeps DEF HandSteps, AttachSteps
<1>2. CASE ~Answer(r)
  <2>0. PICK c \in Conns : c = req[r].conn
    BY <1>0, Zenon DEF ProviderInv, ReqOK, LockedOK, ConnSteps
  <2>1. /\ Live(c) /\ Free(r, c) /\ conn[c].secret = req[r].seen /\ Goto(r, "t_write")
        /\ UNCHANGED <<conn, evidence>>
    BY <1>2, <2>0 DEF lock_for_result
  <2>2. Moved(r, "t_write", req[r])
    BY <2>1, GotoMoves, Zenon DEF ProviderInv, Steps
  <2>3. pc'[r] = "t_write" /\ req'[r] = req[r]
    BY <2>2 DEF Moved
  <2>4. ResultOK(r)
    BY DEF ProviderInv, ReqOK
  <2>5. ResultOK(r)' /\ LockedOK(r)' /\ LockKept(r)
    BY <1>0, <2>0, <2>1, <2>3, <2>4, Zenon
       DEF ResultOK, LockedOK, LockKept, Holds, TestSteps, ModelSteps, Live
  <2> QED
    BY <1>0, <2>2, <2>5, GoesOnKeeps DEF HandSteps, AttachSteps
<1> QED
  BY <1>1, <1>2

LEMMA StatusUpdate ==
    ASSUME NEW row \in Connection, NEW t \in Statuses, NEW new, new = [row EXCEPT !.status = t]
    PROVE  new \in Connection /\ new.secret = row.secret /\ new.status = t
BY DEF Connection

LEMMA WriteResultKeeps ==
    ASSUME ProviderInv, NEW r \in Requests, write_result(r) PROVE ProviderInv'
<1>0. pc[r] = "t_write" /\ Answer(r) /\ InFlight(r) = {}
      /\ UNCHANGED <<model, store, evidence, excused, unacked>>
  BY EmptyHands DEF write_result, HandSteps, AttachSteps
<1>1. CASE UNCHANGED conn
  BY <1>0, <1>1, UnchangedQuiet, AnswerKeeps
<1>2. CASE ~UNCHANGED conn
  <2>0. PICK c \in Conns, s \in Refs :
           /\ c = req[r].conn /\ s = req[r].seen /\ Live(c) /\ Free(r, c)
           /\ conn[c] \in Connection /\ conn[c].secret = s
    BY <1>0, LockedRow, Zenon
  <2>1. PICK o : o = req[r].outcome
    OBVIOUS
  <2>a. PICK t : t = TestedStatus(conn[c].status, o)
    OBVIOUS
  <2>b. /\ o = "ok" => t = "active"
        /\ o = "auth" => t = "invalid"
        /\ o \notin {"ok", "auth"} => t = conn[c].status
    BY <2>a DEF TestedStatus
  <2>c. t \in Statuses
    BY <2>0, <2>b, Zenon DEF Connection, Statuses
  <2>2. PICK row : row = [conn[c] EXCEPT !.status = t]
    BY Zenon
  <2>3. row \in Connection /\ row.secret = s /\ row.status = t
    BY <2>0, <2>c, <2>2, StatusUpdate
  <2>4. conn' = [conn EXCEPT ![c] = row]
    BY <1>2, <2>0, <2>1, <2>a, <2>2 DEF write_result
  <2>5. /\ conn' \in [Conns -> Connection] /\ conn'[c] = row
        /\ \A d \in Conns : d # c => conn'[d] = conn[d]
    BY <2>3, <2>4 DEF ProviderInv, TypeOK
  <2>6. {o} \cap {"ok", "auth"} \subseteq evidence[s]
    BY <1>0, <2>0, <2>1, Zenon DEF ProviderInv, ReqOK, ResultOK
  <2>7. RowOK(c)'
    <3>1. RowOK(c)
      BY DEF ProviderInv
    <3> QED
      BY <1>0, <2>0, <2>b, <2>3, <2>5, <2>6, <3>1, Zenon DEF RowOK, Live
  <2>8. Moved(r, "idle", NoRequest)
    BY <1>0, AnswerMoves DEF ProviderInv
  <2>9. ReqOK(r)' /\ InFlight(r)' = {}
    BY <2>8, IdleOK DEF Moved
  <2>10. RowWritten(r, c, row)
    BY <1>0, <2>0, <2>3, <2>5, Zenon DEF RowWritten, ProviderInv, TypeOK
  <2>11. NothingDropped(r, c, row)
    BY <1>0, <2>0, <2>3, <2>9, Zenon DEF NothingDropped
  <2> QED
    BY <2>7, <2>8, <2>9, <2>10, <2>11, RowKeeps
<1> QED
  BY <1>1, <1>2

-----------------------------------------------------------------------------
(* Model configurations.                                                   *)
LEMMA ModelStartKeeps ==
    ASSUME ProviderInv, NEW r \in Requests, NEW step \in {"m_insert_lock", "m_find"}, NEW m \in Models,
           NEW a \in Request, a.model = m, step = "m_insert_lock" => a.conn \in Conns,
           Start(r, step, a), UNCHANGED <<conn, model, store, evidence, excused, unacked>>
    PROVE  ProviderInv'
<1>1. Moved(r, step, a) /\ pc[r] = "idle"
  BY StartMoves DEF Steps, ProviderInv
<1>2. pc'[r] = step /\ req'[r] = a
  BY <1>1, Zenon DEF Moved
<1>3. ResultOK(r)' /\ LockedOK(r)' /\ LockKept(r)
  BY <1>2, Zenon DEF ResultOK, LockedOK, LockKept, Holds, TestSteps, ConnSteps
<1> QED
  BY <1>1, <1>3, UnchangedQuiet, GoesOnKeeps, Zenon DEF HandSteps, AttachSteps

LEMMA CreateModelKeeps ==
    ASSUME ProviderInv, NEW r \in Requests, NEW c \in Conns, NEW m \in Models, NEW u \in Upstreams,
           NEW e \in {"on", "off"}, create_model(r, c, m, u, e)
    PROVE  ProviderInv'
<1>1. PICK a : a = [NoRequest EXCEPT !.conn = c, !.model = m, !.upstream = u, !.enabled = e]
  OBVIOUS
<1>2. a \in Request /\ a.conn = c /\ a.model = m
  BY <1>1, Zenon DEF NoRequest, Request
<1>3. Start(r, "m_insert_lock", a) /\ UNCHANGED <<conn, model, store, evidence, excused, unacked>>
  BY <1>1 DEF create_model
<1> QED
  BY <1>2, <1>3, ModelStartKeeps

LEMMA UpdateModelKeeps ==
    ASSUME ProviderInv, NEW r \in Requests, NEW c \in Conns \cup {NoConn}, NEW m \in Models,
           NEW u \in Upstreams \cup {NoUpstream}, NEW e \in {"keep", "on", "off"},
           update_model(r, c, m, u, e)
    PROVE  ProviderInv'
<1>1. PICK a : a = [NoRequest EXCEPT !.conn = c, !.model = m, !.upstream = u, !.enabled = e]
  OBVIOUS
<1>2. a \in Request /\ a.model = m
  BY <1>1, Zenon DEF NoRequest, Request
<1>3. Start(r, "m_find", a) /\ UNCHANGED <<conn, model, store, evidence, excused, unacked>>
  BY <1>1 DEF update_model
<1> QED
  BY <1>2, <1>3, ModelStartKeeps

LEMMA LockModelKeeps ==
    ASSUME ProviderInv, NEW r \in Requests, lock_for_model(r) PROVE ProviderInv'
<1>0. pc[r] \in {"m_insert_lock", "m_lock"} /\ Quiet
  BY UnchangedQuiet DEF lock_for_model
<1>1. CASE Answer(r)
  BY <1>0, <1>1, EmptyHands, AnswerKeeps DEF HandSteps, AttachSteps
<1>2. CASE ~Answer(r)
  <2>0. req[r].conn \in Conns /\ req[r].model \in Models
    BY <1>0, Zenon DEF ProviderInv, ReqOK, LockedOK, ConnSteps, ModelSteps
  <2>1. PICK step \in {"m_write", "m_insert"} : Goto(r, step)
    BY <1>2, Zenon DEF lock_for_model
  <2>2. Free(r, req[r].conn) /\ conn[req[r].conn].status = "active" /\ UNCHANGED conn
    BY <1>2 DEF lock_for_model, Eligible
  <2>3. Moved(r, step, req[r])
    BY <2>1, GotoMoves DEF ProviderInv, Steps
  <2>4. pc'[r] = step /\ req'[r] = req[r]
    BY <2>3 DEF Moved
  <2>5. ResultOK(r)' /\ LockedOK(r)' /\ LockKept(r)
    BY <2>0, <2>2, <2>4, Zenon DEF ResultOK, LockedOK, LockKept, Holds, TestSteps
  <2> QED
    BY <1>0, <2>3, <2>5, GoesOnKeeps DEF HandSteps, AttachSteps
<1> QED
  BY <1>1, <1>2

LEMMA FindModelKeeps ==
    ASSUME ProviderInv, NEW r \in Requests, find_model(r) PROVE ProviderInv'
<1>0. pc[r] = "m_find" /\ Quiet /\ req[r] \in Request
  BY UnchangedQuiet DEF find_model, ProviderInv, TypeOK
<1>1. CASE Answer(r)
  BY <1>0, <1>1, EmptyHands, AnswerKeeps DEF HandSteps, AttachSteps
<1>2. CASE ~Answer(r)
  <2>0. PICK m \in Models : m = req[r].model
    BY <1>0, Zenon DEF ProviderInv, ReqOK, LockedOK, ModelSteps
  <2>1. model[m].conn \in Conns
    BY <1>2, <2>0 DEF find_model, ProviderInv, ModelsHaveRows
  <2>2. CASE requires_active_provider(req[r])
    <3>1. PICK c \in Conns : c = IF req[r].conn = NoConn THEN model[m].conn ELSE req[r].conn
      BY <1>0, <2>1 DEF Request
    <3>2. pc' = [pc EXCEPT ![r] = "m_lock"] /\ req' = [req EXCEPT ![r].conn = c]
      <4>1. req' = [req EXCEPT ![r].conn = IF @ = NoConn THEN model[m].conn ELSE @]
        BY <1>2, <2>0, <2>2 DEF find_model
      <4>2. pc' = [pc EXCEPT ![r] = "m_lock"]
        BY <1>2, <2>2 DEF find_model
      <4> QED
        BY <3>1, <4>1, <4>2
    <3>3. PICK a : a = [req[r] EXCEPT !.conn = c]
      BY Zenon
    <3>4. a \in Request /\ a.conn = c /\ a.model = m
      BY <1>0, <2>0, <3>3, ConnUpdate
    <3>5. Moved(r, "m_lock", a)
      BY <3>2, <3>3, <3>4 DEF Moved, ProviderInv, TypeOK, Steps
    <3>6. pc'[r] = "m_lock" /\ req'[r] = a
      BY <3>5 DEF Moved
    <3>7. ResultOK(r)' /\ LockedOK(r)' /\ LockKept(r)
      BY <3>4, <3>6, Zenon DEF ResultOK, LockedOK, LockKept, Holds, TestSteps
    <3> QED
      BY <1>0, <3>5, <3>7, GoesOnKeeps DEF HandSteps, AttachSteps
  <2>3. CASE ~requires_active_provider(req[r])
    <3>1. Goto(r, "m_write")
      BY <1>2, <2>3 DEF find_model
    <3>2. Moved(r, "m_write", req[r])
      BY <3>1, GotoMoves DEF ProviderInv, Steps
    <3>3. pc'[r] = "m_write" /\ req'[r] = req[r]
      BY <3>2, Zenon DEF Moved
    <3>4. req[r].conn = NoConn /\ req[r].upstream = NoUpstream /\ req[r].enabled # "on"
      BY <2>3 DEF requires_active_provider
    <3>5. ResultOK(r)' /\ LockedOK(r)' /\ LockKept(r)
      <4>1. ResultOK(r)'
        BY <3>3 DEF ResultOK, TestSteps
      <4>2. LockedOK(r)'
        BY <2>0, <3>3, <3>4 DEF LockedOK, ConnSteps
      <4>3. LockKept(r)
        BY <3>3, <3>4 DEF LockKept, Holds
      <4> QED
        BY <4>1, <4>2, <4>3
    <3> QED
      BY <1>0, <3>2, <3>5, GoesOnKeeps, Zenon DEF HandSteps, AttachSteps
  <2> QED
    BY <2>2, <2>3
<1> QED
  BY <1>1, <1>2

(* A committed model row, new or changed.                                  *)
LEMMA ModelWriteQuiet ==
    ASSUME ProviderInv, NEW m \in Models, NEW row \in Model, model' = [model EXCEPT ![m] = row],
           row.status = "live" => row.conn \in Conns,
           UNCHANGED <<conn, store, evidence, excused, unacked>>
    PROVE  Quiet
<1>1. model' \in [Models -> Model] /\ model'[m] = row /\ \A n \in Models : n # m => model'[n] = model[n]
  BY DEF ProviderInv, TypeOK
<1>2. ModelsHaveRows'
  BY <1>1 DEF ProviderInv, ModelsHaveRows
<1> QED
  BY <1>1, <1>2 DEF Quiet, ProviderInv, TypeOK

LEMMA InsertModelKeeps ==
    ASSUME ProviderInv, NEW r \in Requests, insert_model(r) PROVE ProviderInv'
<1>0. /\ pc[r] = "m_insert" /\ Answer(r) /\ InFlight(r) = {}
      /\ UNCHANGED <<conn, store, evidence, excused, unacked>>
  BY EmptyHands, Zenon DEF insert_model, HandSteps, AttachSteps
<1>1. CASE UNCHANGED model
  BY <1>0, <1>1, UnchangedQuiet, AnswerKeeps
<1>2. CASE ~UNCHANGED model
  <2>0. req[r].conn \in Conns /\ req[r].model \in Models /\ req[r] \in Request
    BY <1>0, Zenon DEF ProviderInv, ReqOK, LockedOK, ConnSteps, ModelSteps, TypeOK
  <2>1. PICK row : row = [status |-> "live", conn |-> req[r].conn, upstream |-> req[r].upstream,
                          enabled |-> req[r].enabled = "on"]
    BY Zenon
  <2>2. row \in Model /\ row.conn \in Conns
    <3>1. req[r].upstream \in Upstreams \cup {NoUpstream} /\ (req[r].enabled = "on") \in BOOLEAN
      BY <2>0 DEF Request
    <3> QED
      BY <2>0, <2>1, <3>1 DEF Model
  <2>3. model' = [model EXCEPT ![req[r].model] = row]
    BY <1>2, <2>1, Zenon DEF insert_model
  <2> QED
    BY <1>0, <2>0, <2>2, <2>3, ModelWriteQuiet, AnswerKeeps, Zenon
<1> QED
  BY <1>1, <1>2

LEMMA ChangedRow ==
    ASSUME NEW row \in Model, NEW q \in Request
    PROVE  /\ Changed(row, q) \in Model /\ Changed(row, q).status = row.status
           /\ Changed(row, q).conn = IF q.conn = NoConn THEN row.conn ELSE q.conn
           /\ q.upstream = NoUpstream => Changed(row, q).upstream = row.upstream
           /\ q.enabled # "on" => (Changed(row, q).enabled => row.enabled)
<1>1. PICK c \in Conns \cup {NoConn} : c = IF q.conn = NoConn THEN row.conn ELSE q.conn
  BY DEF Model, Request
<1>2. PICK u \in Upstreams \cup {NoUpstream} :
         u = IF q.upstream = NoUpstream THEN row.upstream ELSE q.upstream
  BY DEF Model, Request
<1>3. PICK e \in BOOLEAN : e = IF q.enabled = "keep" THEN row.enabled ELSE q.enabled = "on"
  BY Zenon DEF Model
<1>4. Changed(row, q) = [row EXCEPT !.conn = c, !.upstream = u, !.enabled = e]
  BY <1>1, <1>2, <1>3 DEF Changed, Model
<1>5. q.enabled # "on" => (e => row.enabled)
  BY <1>3, Zenon
<1> QED
  BY <1>1, <1>2, <1>4, <1>5, Zenon DEF Model

LEMMA WriteModelKeeps ==
    ASSUME ProviderInv, NEW r \in Requests, write_model(r) PROVE ProviderInv'
<1>0. /\ pc[r] = "m_write" /\ Answer(r) /\ InFlight(r) = {}
      /\ UNCHANGED <<conn, store, evidence, excused, unacked>>
  BY EmptyHands, Zenon DEF write_model, HandSteps, AttachSteps
<1>1. CASE UNCHANGED model
  BY <1>0, <1>1, UnchangedQuiet, AnswerKeeps
<1>2. CASE ~UNCHANGED model
  <2>0. /\ req[r].model \in Models /\ req[r] \in Request
        /\ req[r].conn # NoConn => req[r].conn \in Conns
    BY <1>0, Zenon DEF ProviderInv, ReqOK, LockedOK, ModelSteps, TypeOK
  <2>1. PICK m \in Models : m = req[r].model
    BY <2>0
  <2>2. model[m] \in Model /\ (model[m].status = "live" => model[m].conn \in Conns)
    BY DEF ProviderInv, TypeOK, ModelsHaveRows
  <2>3. PICK row : row = Changed(model[m], req[r])
    OBVIOUS
  <2>4. row \in Model /\ (row.status = "live" => row.conn \in Conns)
    BY <2>0, <2>2, <2>3, ChangedRow
  <2>5. model' = [model EXCEPT ![m] = row]
    BY <1>2, <2>1, <2>3, Zenon DEF write_model
  <2> QED
    BY <1>0, <2>4, <2>5, ModelWriteQuiet, AnswerKeeps, Zenon
<1> QED
  BY <1>1, <1>2

LEMMA DeleteModelKeeps ==
    ASSUME ProviderInv, NEW r \in Requests, NEW m \in Models, delete_model(r, m) PROVE ProviderInv'
<1>1. PICK row : row = [NoConfiguration EXCEPT !.status = "deleted"]
  BY Zenon
<1>2. row \in Model /\ row.status = "deleted"
  BY <1>1, Zenon DEF NoConfiguration, Model
<1>3. Quiet
  BY <1>1, <1>2, ModelWriteQuiet, Zenon DEF delete_model
<1>4. Moved(r, "idle", req[r])
  BY DEF Moved, delete_model, ProviderInv, TypeOK
<1>5. pc[r] = "idle" /\ pc'[r] = "idle"
  BY <1>4 DEF Moved, delete_model
<1>6. SameHands(r)
  BY <1>5, IdleOK, EmptyHands, Zenon DEF SameHands, HandSteps, AttachSteps
<1> QED
  BY <1>3, <1>4, <1>5, <1>6, IdleOK, QuietKeeps, Zenon

-----------------------------------------------------------------------------
LEMMA CrashKeeps == ASSUME ProviderInv, NEW r \in Requests, Crash(r) PROVE ProviderInv'
<1>1. InFlight(r) \subseteq Refs /\ excused' = excused \cup InFlight(r)
  BY Zenon DEF Crash, InFlight
<1>2. Quiet
  BY <1>1 DEF Crash, Quiet, ProviderInv, TypeOK, ModelsHaveRows
<1> QED
  BY <1>1, <1>2, AnswerKeeps DEF Crash

LEMMA InitKeeps == Init => ProviderInv
<1> SUFFICES ASSUME Init PROVE ProviderInv
  OBVIOUS
<1>1. NoConnection \in Connection /\ NoConnection.status = "absent" /\ NoConnection.secret = NoRef
  BY DEF NoConnection, Connection, Statuses
<1>2. NoConfiguration \in Model /\ NoConfiguration.status = "absent"
  BY DEF NoConfiguration, Model
<1>3. TypeOK
  BY <1>1, <1>2, NoRequestTyped DEF Init, TypeOK
<1>4. \A r \in Requests : pc[r] = "idle"
  BY DEF Init
<1>5. \A r \in Requests : InFlight(r) = {} /\ Attaching(r) = {}
  BY <1>4, EmptyHands DEF HandSteps, AttachSteps
<1>6. \A r \in Requests : ReqOK(r)
  BY <1>4, <1>5, Zenon DEF ReqOK, SecretsOK, ResultOK, LockedOK, TestSteps, ConnSteps, ModelSteps
<1>7. \A c \in Conns : conn[c] = NoConnection
  BY DEF Init
<1>8. (\A c \in Conns : RowOK(c)) /\ RowsDistinct
  BY <1>1, <1>7 DEF RowOK, Live, RowsDistinct
<1>9. OneHand /\ LocksExclusive
  BY <1>4, <1>5 DEF OneHand, LocksExclusive, Holds
<1>10. NoHiddenOrphan /\ ModelsHaveRows
  BY <1>2 DEF Init, NoHiddenOrphan, ModelsHaveRows
<1> QED
  BY <1>3, <1>6, <1>8, <1>9, <1>10 DEF ProviderInv

LEMMA StutterKeeps == ProviderInv /\ UNCHANGED vars => ProviderInv'
<1> SUFFICES ASSUME ProviderInv, UNCHANGED vars PROVE ProviderInv'
  OBVIOUS
<1>1. UNCHANGED <<conn, model, store, pc, req, evidence, excused, unacked>>
  BY DEF vars
<1>2. \A r \in Requests : InFlight(r)' = InFlight(r) /\ Attaching(r)' = Attaching(r)
  BY <1>1, Zenon DEF InFlight, Attaching
<1>3. \A c \in Conns : Live(c)' <=> Live(c)
  BY <1>1, Zenon DEF Live
<1>4. \A r \in Requests : SecretsOK(r)'
  BY <1>1, <1>2 DEF ProviderInv, ReqOK, SecretsOK, Detached
<1>5. \A r \in Requests : ReqOK(r)'
  BY <1>1, <1>4, Zenon DEF ProviderInv, ReqOK, ResultOK, LockedOK, Live
<1>6. (\A c \in Conns : RowOK(c)') /\ RowsDistinct'
  BY <1>1, <1>3 DEF ProviderInv, RowOK, RowsDistinct
<1>7. OneHand' /\ LocksExclusive'
  BY <1>1, <1>2 DEF ProviderInv, OneHand, LocksExclusive, Holds
<1>8. NoHiddenOrphan' /\ ModelsHaveRows' /\ TypeOK'
  BY <1>1, <1>2, <1>3 DEF ProviderInv, NoHiddenOrphan, ModelsHaveRows, TypeOK
<1> QED
  BY <1>5, <1>6, <1>7, <1>8 DEF ProviderInv

LEMMA RequestStepKeeps == ASSUME ProviderInv, NEW r \in Requests, Step(r) PROVE ProviderInv'
<1>1. CASE \/ cleanup_new_secret(r) \/ remove_old_secret(r) \/ insert_provider(r)
           \/ lock_for_update(r) \/ write_update(r) \/ lock_for_delete(r) \/ write_delete(r)
  BY <1>1, CleanupKeeps, InsertKeeps, LockUpdateKeeps, WriteUpdateKeeps, LockDeleteKeeps,
     WriteDeleteKeeps
<1>2. CASE \/ check_and_consume(r) \/ call_gateway(r) \/ lock_for_result(r) \/ write_result(r)
  BY <1>2, LimitKeeps, CallKeeps, LockResultKeeps, WriteResultKeeps
<1>3. CASE \/ lock_for_model(r) \/ insert_model(r) \/ find_model(r) \/ write_model(r)
  BY <1>3, LockModelKeeps, InsertModelKeeps, FindModelKeeps, WriteModelKeeps
<1> QED
  BY <1>1, <1>2, <1>3 DEF Step

LEMMA CallProviderKeeps == ASSUME ProviderInv, NEW r \in Requests, CallProvider(r) PROVE ProviderInv'
<1>1. ASSUME NEW c \in Conns, test_provider(r, c) PROVE ProviderInv'
  <2>1. CASE UNCHANGED <<pc, req>>
    BY <1>1, <2>1, StutterKeeps DEF test_provider, vars
  <2>2. CASE ~UNCHANGED <<pc, req>>
    BY <1>1, <2>2, TestStartKeeps
  <2> QED
    BY <2>1, <2>2
<1>2. ASSUME NEW n \in Names, NEW s \in Refs, create_provider(r, n, s) PROVE ProviderInv'
  BY <1>2, CreateKeeps
<1>3. ASSUME NEW c \in Conns, NEW n \in Names \cup {NoName}, NEW s \in Refs \cup {NoRef},
             update_provider(r, c, n, s)
      PROVE  ProviderInv'
  BY <1>3, UpdateKeeps
<1>4. ASSUME NEW c \in Conns, delete_provider(r, c) PROVE ProviderInv'
  BY <1>4, DeleteStartKeeps
<1> QED
  BY <1>1, <1>2, <1>3, <1>4 DEF CallProvider

LEMMA CallModelKeeps == ASSUME ProviderInv, NEW r \in Requests, CallModel(r) PROVE ProviderInv'
<1>1. ASSUME NEW m \in Models, NEW c \in Conns, NEW u \in Upstreams, NEW e \in {"on", "off"},
             create_model(r, c, m, u, e)
      PROVE  ProviderInv'
  BY <1>1, CreateModelKeeps
<1>2. ASSUME NEW m \in Models, NEW c \in Conns \cup {NoConn}, NEW u \in Upstreams \cup {NoUpstream},
             NEW e \in {"keep", "on", "off"}, update_model(r, c, m, u, e)
      PROVE  ProviderInv'
  BY <1>2, UpdateModelKeeps
<1>3. ASSUME NEW m \in Models, delete_model(r, m) PROVE ProviderInv'
  BY <1>3, DeleteModelKeeps
<1> QED
  BY <1>1, <1>2, <1>3 DEF CallModel

(* Every reachable state satisfies the inductive invariant.                *)
THEOREM InvariantHolds == Spec => []ProviderInv
<1>1. ProviderInv /\ [Next]_vars => ProviderInv'
  <2> SUFFICES ASSUME ProviderInv, [Next]_vars PROVE ProviderInv'
    OBVIOUS
  <2>1. CASE UNCHANGED vars
    BY <2>1, StutterKeeps
  <2>2. CASE Next
    BY <2>2, CallProviderKeeps, CallModelKeeps, RequestStepKeeps, CrashKeeps DEF Next
  <2> QED
    BY <2>1, <2>2
<1> QED
  BY <1>1, InitKeeps, PTL DEF Spec

(* A live row's secret is in the store unless its commit was not answered, *)
(* and no secret is left behind silently, whatever create_provider,        *)
(* update_provider and delete_provider interleave or fail at.              *)
THEOREM SecretsMatch == Spec => []SecretsMatchRows
<1>1. ProviderInv => SecretsMatchRows
  BY Zenon DEF ProviderInv, RowOK, SecretsMatchRows, SecretOfLiveRow
<1> QED
  BY <1>1, InvariantHolds, PTL

(* test_provider_connectivity records a status only for the key that was   *)
(* tested, however often the key is replaced meanwhile.                    *)
THEOREM StatusesEarned == Spec => []StatusOfOwnKey
<1>1. ProviderInv => StatusOfOwnKey
  BY Zenon DEF ProviderInv, RowOK, StatusOfOwnKey
<1> QED
  BY <1>1, InvariantHolds, PTL

(* A step that makes model m live, moves it or enables it does so while    *)
(* its provider is active.                                                 *)
LEMMA ModelStep ==
    ASSUME ProviderInv, NEW r \in Requests, insert_model(r) \/ write_model(r), NEW m \in Models,
           model'[m].status = "live",
           \/ model[m].conn # model'[m].conn \/ model[m].upstream # model'[m].upstream
           \/ model'[m].enabled /\ ~model[m].enabled
    PROVE  conn[model'[m].conn].status = "active"
<1>0. model \in [Models -> Model] /\ req[r] \in Request /\ LockedOK(r)
  BY Zenon DEF ProviderInv, TypeOK, ReqOK
<1>1. CASE insert_model(r)
  <2>0. pc[r] = "m_insert"
    BY <1>1, Zenon DEF insert_model
  <2>1. model'[m] = [status |-> "live", conn |-> req[r].conn, upstream |-> req[r].upstream,
                     enabled |-> req[r].enabled = "on"]
    BY <1>0, <1>1, Zenon DEF insert_model
  <2>2. model'[m].conn = req[r].conn
    BY <2>1
  <2>3. conn[req[r].conn].status = "active"
    BY <1>0, <2>0, Zenon DEF LockedOK
  <2> QED
    BY <2>2, <2>3, Zenon
<1>2. CASE write_model(r)
  <2>0. pc[r] = "m_write"
    BY <1>2, Zenon DEF write_model
  <2>1. PICK old, new, q : old = model[m] /\ new = model'[m] /\ q = req[r]
    BY Zenon
  <2>2. old \in Model /\ q \in Request
    BY <1>0, <2>1, Zenon
  <2>3. new = Changed(old, q)
    BY <1>0, <1>2, <2>1, Zenon DEF write_model
  <2>4. /\ new.conn = IF q.conn = NoConn THEN old.conn ELSE q.conn
        /\ q.upstream = NoUpstream => new.upstream = old.upstream
        /\ q.enabled # "on" => (new.enabled => old.enabled)
    BY <2>2, <2>3, ChangedRow
  <2>5. \/ q.conn \in Conns /\ conn[q.conn].status = "active"
        \/ q.conn = NoConn /\ q.upstream = NoUpstream /\ q.enabled # "on"
    BY <1>0, <2>0, <2>1, Zenon DEF LockedOK
  <2>6. \/ old.conn # new.conn \/ old.upstream # new.upstream
        \/ new.enabled /\ ~old.enabled
    BY <2>1, Zenon
  <2>7. CASE q.conn \in Conns /\ conn[q.conn].status = "active"
    <3>1. q.conn # NoConn
      BY <2>7, AbsentAssumption, Zenon
    <3>2. new.conn = q.conn
      BY <2>4, <3>1
    <3> QED
      BY <2>1, <2>7, <3>2
  <2>8. ~(q.conn = NoConn /\ q.upstream = NoUpstream /\ q.enabled # "on")
    BY <2>4, <2>6
  <2> QED
    BY <2>5, <2>7, <2>8
<1> QED
  BY <1>1, <1>2

(* Only these two steps write a model that is live afterwards.             *)
LEMMA ModelWriters ==
    ASSUME ProviderInv, [Next]_vars, NEW m \in Models, model'[m].status = "live", model'[m] # model[m]
    PROVE  \E r \in Requests : insert_model(r) \/ write_model(r)
<1>0. model \in [Models -> Model]
  BY Zenon DEF ProviderInv, TypeOK
<1>1. model' # model /\ Next
  BY DEF vars
<1>2. PICK r \in Requests : CallProvider(r) \/ CallModel(r) \/ Step(r) \/ Crash(r)
  BY <1>1, Zenon DEF Next
<1>3. ~CallProvider(r) /\ ~Crash(r)
  BY <1>1, Zenon DEF CallProvider, create_provider, update_provider, delete_provider, test_provider, Crash
<1>4. ~CallModel(r)
  <2>1. ASSUME NEW n \in Models, delete_model(r, n) PROVE FALSE
    BY <1>0, <2>1 DEF delete_model, NoConfiguration
  <2> QED
    BY <1>1, <2>1, Zenon DEF CallModel, create_model, update_model
<1>5. /\ ~cleanup_new_secret(r) /\ ~remove_old_secret(r) /\ ~insert_provider(r)
      /\ ~lock_for_update(r) /\ ~write_update(r) /\ ~lock_for_delete(r) /\ ~write_delete(r)
  BY <1>1 DEF cleanup_new_secret, remove_old_secret, insert_provider, Abort, lock_for_update,
              write_update, lock_for_delete, write_delete
<1>6. /\ ~check_and_consume(r) /\ ~call_gateway(r) /\ ~lock_for_result(r) /\ ~write_result(r)
      /\ ~lock_for_model(r) /\ ~find_model(r)
  BY <1>1 DEF check_and_consume, call_gateway, lock_for_result, write_result, lock_for_model,
              find_model
<1> QED
  BY <1>2, <1>3, <1>4, <1>5, <1>6, Zenon DEF Step

(* create_model and update_model make a model live, move it or enable it   *)
(* only in a step in which its provider is active.                         *)
THEOREM ModelsNeedActive == Spec => ModelNeedsActiveProvider
<1>1. ASSUME ProviderInv, [Next]_vars, NEW m \in Models, model'[m].status = "live",
             \/ model[m].conn # model'[m].conn \/ model[m].upstream # model'[m].upstream
             \/ model'[m].enabled /\ ~model[m].enabled
      PROVE  conn[model'[m].conn].status = "active"
  <2>1. model'[m] # model[m]
    BY <1>1
  <2>2. PICK r \in Requests : insert_model(r) \/ write_model(r)
    BY <1>1, <2>1, ModelWriters
  <2> QED
    BY <1>1, <2>2, ModelStep, Zenon
<1>2. ProviderInv /\ [Next]_vars =>
        [\A m \in Models :
            LET old == model[m] new == model'[m] IN
            /\ new.status = "live"
            /\ \/ old.conn # new.conn \/ old.upstream # new.upstream
               \/ new.enabled /\ ~old.enabled
            => conn[new.conn].status = "active"]_vars
  BY <1>1
<1> QED
  BY <1>2, InvariantHolds, PTL DEF Spec, ModelNeedsActiveProvider

=============================================================================
