----------------------------- MODULE RateLimits -----------------------------
(***************************************************************************)
(* The request-rate limits of services/api/app/core/rate_limits.py: fixed  *)
(* windows kept as Valkey counters with an expiry, checked and consumed by *)
(* one Lua script.  A provider connectivity test consumes two counters at  *)
(* once, one of the user and one of the connection; a knowledge upload     *)
(* consumes one.  Time passes in ticks, TicksPerSecond of them a second,   *)
(* because TTL answers in rounded seconds.                                 *)
(***************************************************************************)
EXTENDS Integers, Sequences, FiniteSetsExt

CONSTANTS Users, Conns,
          UserLimit, ConnLimit, UploadLimit,     \* requests in a window
          UserWindow, ConnWindow, UploadWindow,  \* ticks
          TicksPerSecond

VARIABLES count,   \* the counter of a key, 0 when there is no key
          ttl,     \* the ticks the key has left, 0 when there is no key
          recent   \* the ages of the admissions of the last window (history)

limitVars == <<count, ttl, recent>>

UserKey(u) == <<"provider-test:user", u>>
ConnKey(c) == <<"provider-test:connection", c>>
UploadKey(u) == <<"knowledge-upload:user", u>>

Keys == {UserKey(u) : u \in Users} \cup {ConnKey(c) : c \in Conns}
          \cup {UploadKey(u) : u \in Users}

Limit(k) ==
  CASE k[1] = "provider-test:user" -> UserLimit
    [] k[1] = "provider-test:connection" -> ConnLimit
    [] OTHER -> UploadLimit

Window(k) ==
  CASE k[1] = "provider-test:user" -> UserWindow
    [] k[1] = "provider-test:connection" -> ConnWindow
    [] OTHER -> UploadWindow

ASSUME LimitAssumption ==
  \A k \in Keys : Limit(k) \in Nat \ {0} /\ Window(k) \in Nat \ {0}

ASSUME SecondAssumption == TicksPerSecond \in Nat \ {0}

LimitInit ==
  /\ count = [k \in Keys |-> 0]
  /\ ttl = [k \in Keys |-> 0]
  /\ recent = [k \in Keys |-> <<>>]

(* Valkey's TTL: seconds, rounded to the nearest. *)
TTL(k) == (2 * ttl[k] + TicksPerSecond) \div (2 * TicksPerSecond)

Exhausted(k) == count[k] >= Limit(k)

(* Mutant: the shorter of the two windows is answered. *)
RetryAfterFirst(S) == Min({Max({TTL(k), 1}) : k \in S})

(* What the scripts answer when one of the keys is exhausted. *)
RetryAfter(S) == Max({Max({TTL(k), 1}) : k \in S})

(* Mutant: a window that ends too early. *)
AdmitShort(S) ==
  /\ count' = [k \in Keys |-> IF k \in S THEN count[k] + 1 ELSE count[k]]
  /\ ttl' = [k \in Keys |-> IF k \in S /\ count[k] = 0 THEN 1 ELSE ttl[k]]
  /\ recent' = [k \in Keys |-> IF k \in S THEN Append(recent[k], 0) ELSE recent[k]]

(* INCR of every key, EXPIRE of the ones that did not exist. *)
Admit(S) ==
  /\ count' = [k \in Keys |-> IF k \in S THEN count[k] + 1 ELSE count[k]]
  /\ ttl' = [k \in Keys |-> IF k \in S /\ count[k] = 0 THEN Window(k) ELSE ttl[k]]
  /\ recent' = [k \in Keys |-> IF k \in S THEN Append(recent[k], 0) ELSE recent[k]]

(* Mutant: only a request over both limits is refused. *)
CheckedPerKey(S, decision) ==
  LET limited == \A k \in S : Exhausted(k) IN
  \/ decision = "allowed" /\ ~limited /\ Admit(S)
  \/ decision = "limited" /\ limited /\ UNCHANGED limitVars
  \/ decision = "unavailable" /\ ~limited /\ Admit(S)
  \/ decision = "unavailable" /\ UNCHANGED limitVars

(* Mutant: a refusal sets the expiry again. *)
RefusalExtends(S, decision) ==
  LET limited == \E k \in S : Exhausted(k) IN
  \/ decision = "allowed" /\ ~limited /\ Admit(S)
  \/ /\ decision = "limited" /\ limited
     /\ ttl' = [k \in Keys |-> IF k \in S /\ count[k] > 0 THEN Window(k) ELSE ttl[k]]
     /\ UNCHANGED <<count, recent>>
  \/ decision = "unavailable" /\ ~limited /\ Admit(S)
  \/ decision = "unavailable" /\ UNCHANGED limitVars

(* The script runs, and "allowed" or "limited" comes back; or Valkey fails, *)
(* before or after the script ran, and the request is refused.              *)
check_and_consume(S, decision) ==
  LET limited == \E k \in S : Exhausted(k) IN
  \/ decision = "allowed" /\ ~limited /\ Admit(S)
  \/ decision = "limited" /\ limited /\ UNCHANGED limitVars
  \/ decision = "unavailable" /\ ~limited /\ Admit(S)
  \/ decision = "unavailable" /\ UNCHANGED limitVars

upload_check_and_consume(u) ==
  \E decision \in {"allowed", "limited", "unavailable"} :
    check_and_consume({UploadKey(u)}, decision)

(* The admissions that leave a window w with the next tick: the oldest are  *)
(* the first of their sequence.                                             *)
Leaving(ages, w) == CHOOSE d \in 0..Len(ages) : \A i \in DOMAIN ages : i <= d <=> ages[i] + 1 >= w

Older(ages, w) ==
  [i \in 1..Len(ages) - Leaving(ages, w) |-> ages[i + Leaving(ages, w)] + 1]

(* A key is gone when its time is over. *)
Tick ==
  /\ \E k \in Keys : ttl[k] > 0 \/ recent[k] # <<>>
  /\ ttl' = [k \in Keys |-> IF ttl[k] > 0 THEN ttl[k] - 1 ELSE 0]
  /\ count' = [k \in Keys |-> IF ttl[k] = 1 THEN 0 ELSE count[k]]
  /\ recent' = [k \in Keys |-> Older(recent[k], Window(k))]

(* A counter never passes its limit, and a counter without an expiry, which *)
(* would lock its user or connection out for good, does not exist: the      *)
(* scripts check before INCR, and EXPIRE a key in the step that creates it. *)
BudgetKept ==
  \A k \in Keys : count[k] <= Limit(k) /\ (count[k] = 0 <=> ttl[k] = 0)

(* Windows are fixed, not sliding: around the end of a window more than the *)
(* limit may be admitted within one window's length, but never more than    *)
(* twice the limit less one, because a window begins with an admission.     *)
AdmissionsBounded == \A k \in Keys : Len(recent[k]) <= 2 * Limit(k) - 1

(* The Retry-After of a refusal covers the rest of every window that caused *)
(* it up to the rounding of TTL, half a second, and is no longer than the   *)
(* longest window of the two keys.                                          *)
RetryAfterHonest ==
  \A u \in Users, c \in Conns :
    LET S == {UserKey(u), ConnKey(c)}
        wait == RetryAfter(S) * TicksPerSecond
    IN  (\E k \in S : Exhausted(k)) =>
          /\ \A k \in S : Exhausted(k) => 2 * ttl[k] <= 2 * wait + TicksPerSecond
          /\ wait <= Max({TicksPerSecond} \cup {ttl[k] + TicksPerSecond \div 2 : k \in S})

(* Windows are honest: neither the admissions around the end of a window nor *)
(* the Retry-After of a refusal go beyond what a fixed window promises       *)
(* (check_and_consume).                                                      *)
WindowsHonest == AdmissionsBounded /\ RetryAfterHonest

=============================================================================
