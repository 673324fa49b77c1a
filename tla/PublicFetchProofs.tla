--------------------------- MODULE PublicFetchProofs ---------------------------
(***************************************************************************)
(* The fetcher of public URLs for any hosts, addresses, redirect limit and *)
(* body limit: every hop is checked, every connection is closed, and what  *)
(* is returned is the answer to the request that was sent for it.          *)
(***************************************************************************)
EXTENDS PublicFetch, TLAPS

(* The checks made in earlier steps still hold when their result is used:    *)
(* nothing between the validation of a URL and the last read changes the     *)
(* URL, the resolver's answer or the address, and what is counted is within  *)
(* its limit (fetch_public_knowledge, _perform_request).                     *)
ChecksStillHold ==
  /\ at \in {"resolve", "connect", "response", "body"} =>
       url.wellformed /\ url.host \in AllowedHosts
  /\ at \in {"connect", "response", "body"} =>
       /\ conn = address /\ resolved.host = url.host
       /\ ~AnyBlocked(resolved.addresses)
       /\ \E i \in DOMAIN resolved.addresses : resolved.addresses[i] = address
  /\ at \in {"response", "body"} => peer = address /\ requested = [url |-> url, peer |-> peer]
  /\ redirects \in 0..MaxRedirects
  /\ total \in Nat /\ (at # "done" => total <= MaxResponse /\ answer = Pending)
  /\ at = "body" => served.status = 200

(* The inductive invariant: what was checked in one step is still true in  *)
(* the later steps of the hop, because only the start of a hop changes it. *)
FetchInv == ChecksStillHold /\ HopChecked /\ ConnectionClosed /\ ResultFaithful

USE FetchAssumption

(* A call starts with nothing checked and nothing open. *)
LEMMA FetchStarts == ASSUME NEW u \in Urls, FetchInit("validate", u) PROVE FetchInv
BY DEF FetchInit, FetchInv, ChecksStillHold, HopChecked, ConnectionClosed, ResultFaithful, Pending

(* An error ends the call without a result, wherever it is raised, once the *)
(* connection is closed.                                                    *)
LEMMA RaisedIsClosed ==
  ASSUME NEW code, NEW retryable, Raise(code, retryable), conn' = NoAddress,
         redirects' \in 0..MaxRedirects, total' \in Nat
  PROVE  FetchInv'
BY DEF Raise, Pending, FetchInv, ChecksStillHold, HopChecked, ConnectionClosed, ResultFaithful

(* validate_url: an allowed host goes on, anything else raises. *)
LEMMA ValidateKeeps == FetchInv /\ validate_url => FetchInv'
<1> SUFFICES ASSUME FetchInv, validate_url PROVE FetchInv'
  OBVIOUS
<1>1. conn' = NoAddress /\ redirects' \in 0..MaxRedirects /\ total' \in Nat
  BY DEF FetchInv, ChecksStillHold, ConnectionClosed, validate_url
<1>2. CASE ~url.wellformed /\ Raise("INVALID_URL", FALSE)
  BY <1>1, <1>2, RaisedIsClosed, Zenon
<1>3. CASE url.wellformed /\ url.host \notin AllowedHosts /\ Raise("DOMAIN_NOT_ALLOWED", FALSE)
  BY <1>1, <1>3, RaisedIsClosed, Zenon
<1>4. CASE url.wellformed /\ url.host \in AllowedHosts /\ at' = "resolve" /\ UNCHANGED answer
  BY <1>1, <1>4 DEF validate_url, FetchInv, ChecksStillHold, HopChecked, ConnectionClosed,
                    ResultFaithful, Pending
<1> QED
  BY <1>2, <1>3, <1>4, Zenon DEF validate_url

(* resolve_host: the address dialled is the first of an answer in which no  *)
(* address is blocked.                                                      *)
LEMMA ResolveKeeps == ASSUME NEW r \in Resolutions, FetchInv, resolve_host(r) PROVE FetchInv'
<1>1. at = "resolve" /\ conn = NoAddress /\ redirects' \in 0..MaxRedirects /\ total' \in Nat
  BY DEF FetchInv, ChecksStillHold, ConnectionClosed, resolve_host
<1>2. CASE \E code, retryable : Raise(code, retryable) /\ UNCHANGED <<address, conn>>
  BY <1>1, <1>2, RaisedIsClosed
<1>3. CASE /\ r.kind = "records" /\ ~AnyBlocked(r.addresses)
           /\ at' = "connect" /\ address' = r.addresses[1] /\ conn' = r.addresses[1]
           /\ UNCHANGED answer
  <2>1. 1 \in DOMAIN r.addresses
    BY <1>3 DEF Resolutions
  <2> QED
    BY <1>1, <1>3, <2>1 DEF resolve_host, FetchInv, ChecksStillHold, HopChecked,
                           ConnectionClosed, ResultFaithful, Pending, AnyBlocked
<1> QED
  BY <1>2, <1>3, Zenon DEF resolve_host

(* connect: the request is sent only to the address that was resolved. *)
LEMMA ConnectKeeps == ASSUME NEW p, FetchInv, connect(p) PROVE FetchInv'
<1>1. redirects' \in 0..MaxRedirects /\ total' \in Nat
  BY DEF FetchInv, ChecksStillHold, connect
<1>2. CASE \E code, retryable : RaiseClosing(code, retryable)
  BY <1>1, <1>2, RaisedIsClosed DEF RaiseClosing
<1>3. CASE /\ p = address /\ p \in PublicAddresses
           /\ at' = "response" /\ requested' = [url |-> url, peer |-> p]
           /\ UNCHANGED <<conn, answer>>
  BY <1>1, <1>3 DEF connect, FetchInv, ChecksStillHold, HopChecked, ConnectionClosed,
                    ResultFaithful, Pending, AnyBlocked
<1> QED
  BY <1>2, <1>3, Zenon DEF connect

(* redirect: the next hop starts without a connection, and there is one     *)
(* only while the limit is not reached.                                     *)
LEMMA RedirectKeeps ==
  ASSUME NEW location, NEW target, FetchInv, redirect(location, target) PROVE FetchInv'
<1>1. redirects \in 0..MaxRedirects /\ total' \in Nat /\ conn' = NoAddress
  BY DEF FetchInv, ChecksStillHold, redirect
<1>2. CASE (\E code, retryable : Raise(code, retryable)) /\ UNCHANGED <<url, redirects>>
  BY <1>1, <1>2, RaisedIsClosed
<1>3. CASE /\ at' = "done" /\ answer' = [Pending EXCEPT !.kind = "uncaught", !.code = "ValueError"]
           /\ UNCHANGED <<url, redirects>>
  BY <1>1, <1>3 DEF FetchInv, ChecksStillHold, HopChecked, ConnectionClosed, ResultFaithful, Pending
<1>4. CASE /\ location = "url" /\ redirects < MaxRedirects
           /\ at' = "validate" /\ url' = target /\ redirects' = redirects + 1
           /\ UNCHANGED answer
  BY <1>1, <1>4 DEF redirect, FetchInv, ChecksStillHold, HopChecked, ConnectionClosed,
                    ResultFaithful, Pending
<1> QED
  BY <1>2, <1>3, <1>4, Zenon DEF redirect

(* headers: a body is read only of a response that passed every check. *)
LEMMA HeadersKeep ==
  ASSUME NEW identity, NEW allowed, NEW length, FetchInv, headers(identity, allowed, length)
  PROVE  FetchInv'
<1>1. redirects' \in 0..MaxRedirects /\ total' \in Nat
  BY DEF FetchInv, ChecksStillHold, headers
<1>2. CASE \E code, retryable : RaiseClosing(code, retryable)
  BY <1>1, <1>2, RaisedIsClosed DEF RaiseClosing
<1>3. CASE at' = "body" /\ UNCHANGED <<conn, answer>>
  BY <1>1, <1>3 DEF headers, FetchInv, ChecksStillHold, HopChecked, ConnectionClosed,
                    ResultFaithful, Pending, AnyBlocked
<1> QED
  BY <1>2, <1>3, Zenon DEF headers

(* read: what is counted stays within the limit or ends the call. *)
LEMMA ReadKeeps == ASSUME NEW n \in Nat, FetchInv, read(n) PROVE FetchInv'
<1>1. redirects' \in 0..MaxRedirects /\ total \in Nat /\ total' = total + n
  BY DEF FetchInv, ChecksStillHold, read
<1>2. CASE total + n > MaxResponse
  <2>1. Raise("RESPONSE_TOO_LARGE", FALSE) /\ conn' = NoAddress
    BY <1>2, Zenon DEF RaiseClosing, read
  <2>2. total' \in Nat
    BY <1>1
  <2> QED
    BY <1>1, <2>1, <2>2, RaisedIsClosed, Zenon
<1>3. CASE ~(total + n > MaxResponse)
  <2>1. total' \in Nat /\ total' <= MaxResponse
    BY <1>1, <1>3
  <2>2. at = "body" /\ UNCHANGED <<at, url, redirects, address, conn, peer, answer, resolved,
                                   requested, served>>
    BY <1>3 DEF read
  <2> QED
    BY <2>1, <2>2 DEF FetchInv, ChecksStillHold, HopChecked, ConnectionClosed, ResultFaithful,
                      Pending, AnyBlocked
<1> QED
  BY <1>2, <1>3

(* end_of_body: the result is the URL and the bytes of the last request. *)
LEMMA EndKeeps == FetchInv /\ end_of_body => FetchInv'
BY DEF end_of_body, Fetched, FetchInv, ChecksStillHold, HopChecked, ConnectionClosed,
       ResultFaithful, Pending

(* A step that touches nothing of the call keeps the invariant. *)
LEMMA StutterKeeps == FetchInv /\ UNCHANGED fetchVars => FetchInv'
BY DEF fetchVars, FetchInv, ChecksStillHold, HopChecked, ConnectionClosed, ResultFaithful,
       AnyBlocked, Pending

(* Whatever resolvers and servers answer, the call never uses a connection  *)
(* that was not checked for its own hop, leaves none open, and returns only *)
(* the bytes of the URL it names, within the limit.                         *)
THEOREM FetchSafe == FetchSpec => []FetchChecked
<1>1. (\E u \in Urls : FetchInit("validate", u)) => FetchInv
  BY FetchStarts
<1>2. FetchInv /\ [FetchNext]_fetchVars => FetchInv'
  <2> SUFFICES ASSUME FetchInv, [FetchNext]_fetchVars PROVE FetchInv'
    OBVIOUS
  <2>1. CASE \E code \in {"TIMEOUT", "TLS_FAILURE", "NETWORK_FAILURE"} : transport_failure(code)
    BY <2>1, RaisedIsClosed, Zenon DEF transport_failure, RaiseClosing, FetchInv, ChecksStillHold
  <2>2. CASE \E status \in {404, 408, 425, 429, 503} : http_error(status)
    BY <2>2, RaisedIsClosed DEF http_error, RaiseClosing, FetchInv, ChecksStillHold
  <2>3. CASE \E n \in 1..MaxResponse : read(n)
    BY <2>3, ReadKeeps
  <2> QED
    BY <2>1, <2>2, <2>3, ValidateKeeps, ResolveKeeps, ConnectKeeps, RedirectKeeps, HeadersKeep,
       EndKeeps, StutterKeeps DEF FetchNext
<1>3. FetchInv => FetchChecked
  BY DEF FetchInv, FetchChecked
<1> QED
  BY <1>1, <1>2, <1>3, PTL DEF FetchSpec

=============================================================================
