-------------------------- MODULE ConnectivityTest --------------------------
(***************************************************************************)
(* A provider connectivity test end to end: test_provider_connectivity of  *)
(* services/api/app/modules/providers/service.py consumes the rate limits, *)
(* HttpProviderConnectivityGateway posts the test to the gateway with a    *)
(* timeout, the gateway runs one generate of the provider's adapter, and   *)
(* the outcome is recorded on the connection.  (That the connection may be *)
(* rotated or deleted meanwhile is the subject of Providers.)              *)
(*                                                                         *)
(* A behaviour is either a sequence of tests, with time passing and        *)
(* uploads consuming their own limit, or one direct call of the gateway,   *)
(* which touches no limit.  Tests follow one another: calls of the gateway *)
(* share no state.                                                         *)
(***************************************************************************)
EXTENDS RateLimits, Gateway

VARIABLES api,     \* the request being served: idle, waiting or answered
          conn,    \* the connection it tests
          status,  \* the status of each connection
          proof    \* what the provider did in the call that set it (history)

vars == <<limitVars, gatewayVars, api, conn, status, proof>>

Init ==
  /\ LimitInit
  /\ \/ api = "idle" /\ GatewayInit(Call("none", "openai"))
     \/ api = "off" /\ \E r \in AdapterCalls \cup EmbedCalls : GatewayInit(r)
  /\ conn = "none"
  /\ status = [c \in Conns |-> "untested"]
  /\ proof = [c \in Conns |-> "none"]

(* The limits are consumed before the secret is read and before anything is *)
(* sent.                                                                    *)
check_limits(u, c) ==
  /\ api \in {"idle", "answered"}
  /\ \E decision \in {"allowed", "limited", "unavailable"} :
       /\ check_and_consume({UserKey(u), ConnKey(c)}, decision)
       /\ api' = IF decision = "allowed" THEN "admitted" ELSE "answered"
  /\ conn' = c
  /\ UNCHANGED <<gatewayVars, status, proof>>

(* The secret is read and posted, or cannot be read. The gateway may have   *)
(* no token or another one than the API's.                                  *)
post ==
  /\ api = "admitted"
  /\ \/ /\ \E p \in Providers, key \in {"ok", "blank"} : Begin([Call("test", p) EXCEPT !.key = key])
        /\ api' = "waiting"
     \/ /\ \E p \in Providers, token \in {"bad", "unset"} : Begin([Call("test", p) EXCEPT !.token = token])
        /\ api' = "waiting"
     \/ api' = "answered" /\ UNCHANGED gatewayVars
  /\ UNCHANGED <<limitVars, conn, status, proof>>

(* Mutant: a 401 of the gateway is taken for the provider's. *)
AnyStatus(r) ==
  CASE r \in ErrorCodes \cup {"ok"} -> r
    [] r = "401" -> "PROVIDER_AUTH_FAILED"
    [] OTHER -> "PROVIDER_UNAVAILABLE"

(* What the API makes of the gateway's answer: only a 200 speaks of the key. *)
Answer(r) == IF r \in ErrorCodes \cup {"ok"} THEN r ELSE "PROVIDER_UNAVAILABLE"

Evidence ==
  CASE result = "ok" -> "answered"
    [] result # "ok" /\ (Refused(cause) \/ (pc = "done" /\ req.key # "ok")) -> "refused"
    [] OTHER -> "nothing"

(* A success makes the connection active, a refused key makes it invalid,   *)
(* and any other failure leaves its status alone. A gateway call that is    *)
(* still running is no longer followed: nobody reads its answer.            *)
record(o) ==
  /\ api' = "answered"
  /\ status' = [status EXCEPT ![conn] = CASE o = "ok" -> "active"
                                          [] o = "PROVIDER_AUTH_FAILED" -> "invalid"
                                          [] OTHER -> @]
  /\ proof' = [proof EXCEPT ![conn] = IF o \in {"ok", "PROVIDER_AUTH_FAILED"} THEN Evidence ELSE @]
  /\ Begin(Call("none", "openai"))
  /\ UNCHANGED <<limitVars, conn>>

gateway_answer == api = "waiting" /\ pc = "done" /\ record(Answer(result))

(* Mutant: the API waits for as long as the gateway does. *)
WaitsForEver == api = "waiting" /\ pc = "done" /\ record("PROVIDER_TIMEOUT")

gateway_timeout == api = "waiting" /\ record("PROVIDER_TIMEOUT")

(* The connection breaks, or the body of the answer cannot be understood. *)
gateway_lost == api = "waiting" /\ record("PROVIDER_UNAVAILABLE")

Serve == GatewayNext /\ UNCHANGED <<limitVars, api, conn, status, proof>>

LimitStep ==
  /\ api # "off"
  /\ Tick \/ \E u \in Users : upload_check_and_consume(u)
  /\ UNCHANGED <<gatewayVars, api, conn, status, proof>>

Next ==
  \/ \E u \in Users, c \in Conns : check_limits(u, c)
  \/ post \/ gateway_answer \/ gateway_timeout \/ gateway_lost
  \/ Serve \/ LimitStep

(* Time passes, and httpx enforces the timeout of the API's request. The    *)
(* provider, the gateway and the callers owe nothing.                       *)
Fairness ==
  /\ WF_vars(Tick /\ UNCHANGED <<gatewayVars, api, conn, status, proof>>)
  /\ WF_vars(gateway_timeout)

Spec == Init /\ [][Next]_vars /\ Fairness

-----------------------------------------------------------------------------
TypeOK ==
  /\ GatewayTypeOK
  /\ \A k \in Keys : count[k] \in Nat /\ ttl[k] \in 0..Window(k)
  /\ api \in {"off", "idle", "admitted", "waiting", "answered"} /\ conn \in Conns \cup {"none"}
  /\ status \in [Conns -> {"untested", "active", "invalid"}]

(* A connection is active because the provider answered with its key, and   *)
(* invalid because the provider, or the adapter on a blank key, refused it: *)
(* never because of a timeout, a lost answer, throttling, or a token the    *)
(* API and the gateway disagree on, and no such failure changes what an     *)
(* earlier test established.                                                *)
StatusProven ==
  \A c \in Conns :
    /\ status[c] = "active" => proof[c] = "answered"
    /\ status[c] = "invalid" => proof[c] = "refused"

(* Every test that was sent is answered, even if the gateway or the provider *)
(* never answers (the timeout of HttpProviderConnectivityGateway.test).      *)
TestAnswered == api = "waiting" ~> api = "answered"

(* A user or connection over its limit gets under it again, however often   *)
(* refused requests are repeated: a refusal extends no window.              *)
LimitReopens == \A k \in Keys : Exhausted(k) ~> ~Exhausted(k)
=============================================================================
