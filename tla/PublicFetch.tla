------------------------------ MODULE PublicFetch ------------------------------
(***************************************************************************)
(* The worker fetches one approved public URL: it follows redirects one    *)
(* hop at a time, each with its own validation, name resolution and        *)
(* connection, and reads the body up to a limit. Servers and the resolver  *)
(* are the environment: they may answer anything at every hop.             *)
(***************************************************************************)
EXTENDS Integers, Sequences, FiniteSets

CONSTANTS
  Hosts,             \* the host names a URL may have
  AllowedHosts,      \* policy.allowed_hosts
  PublicAddresses,   \* the addresses _is_allowed_address accepts
  OtherAddresses,    \* the addresses it does not
  MaxRedirects,      \* MAX_REDIRECTS
  MaxResponse        \* policy.max_response_bytes, in units of a read

ASSUME FetchAssumption ==
  /\ AllowedHosts \subseteq Hosts /\ AllowedHosts # {}
  /\ MaxRedirects \in Nat /\ MaxResponse \in Nat \ {0}

VARIABLES
  at,          \* where fetch_public_knowledge is
  url,         \* current_url
  redirects,
  address,     \* the address chosen for this hop
  conn,        \* the connection: none, or the address it is dialled to
  peer,        \* the address the socket is connected to
  total,       \* bytes of the body read so far
  answer,      \* what the call returned or raised
  resolved,    \* the last answer of the resolver, with the name asked for
  requested,   \* the URL the last request was sent for, and its connection
  served       \* what the server sent in its last response

fetchVars == <<at, url, redirects, address, conn, peer, total, answer, resolved, requested, served>>

Addresses == PublicAddresses \cup OtherAddresses

NoAddress == "no address"

(* A URL that _validate_url can parse names a host; any other one is no URL. *)
Urls == [wellformed : {TRUE}, host : Hosts, page : {1, 2}]
          \cup [wellformed : {FALSE}, host : AllowedHosts, page : {1}]

NotRequested == [url |-> {}, peer |-> NoAddress]

NotServed == [status |-> 0, declared |-> -1]

Pending == [kind |-> "pending", code |-> "none", retryable |-> FALSE, url |-> {}, size |-> 0]

FetchInit(start, u) ==
  /\ at = start /\ url = u /\ redirects = 0 /\ address = NoAddress /\ conn = NoAddress
  /\ peer = NoAddress /\ total = 0 /\ answer = Pending
  /\ resolved = [host |-> "none", addresses |-> <<>>] /\ requested = NotRequested /\ served = NotServed

Raise(code, retryable) ==
  /\ at' = "done"
  /\ answer' = [Pending EXCEPT !.kind = "error", !.code = code, !.retryable = retryable]

(* An error inside _perform_request leaves through its finally clause. *)
RaiseClosing(code, retryable) == Raise(code, retryable) /\ conn' = NoAddress

(* Mutant: only the first URL is held against the allowed hosts. *)
validate_first ==
  /\ at = "validate"
  /\ \/ ~url.wellformed /\ Raise("INVALID_URL", FALSE)
     \/ /\ url.wellformed /\ redirects = 0 /\ url.host \notin AllowedHosts
        /\ Raise("DOMAIN_NOT_ALLOWED", FALSE)
     \/ url.wellformed /\ (redirects > 0 \/ url.host \in AllowedHosts) /\ at' = "resolve" /\ UNCHANGED answer
  /\ UNCHANGED <<url, redirects, address, conn, peer, total, resolved, requested, served>>

(* _validate_url, on the first URL and on the target of every redirect. *)
validate_url ==
  /\ at = "validate"
  /\ \/ ~url.wellformed /\ Raise("INVALID_URL", FALSE)
     \/ url.wellformed /\ url.host \notin AllowedHosts /\ Raise("DOMAIN_NOT_ALLOWED", FALSE)
     \/ url.wellformed /\ url.host \in AllowedHosts /\ at' = "resolve" /\ UNCHANGED answer
  /\ UNCHANGED <<url, redirects, address, conn, peer, total, resolved, requested, served>>

(* What the resolver may answer: nothing, a record that is no address, or    *)
(* one or two addresses.                                                     *)
Resolutions ==
  {[kind |-> k, addresses |-> <<>>] : k \in {"failure", "unreadable"}}
    \cup {[kind |-> "records", addresses |-> s] : s \in {<<a>> : a \in Addresses}
            \cup {<<a, b>> : a \in Addresses, b \in Addresses}}

AnyBlocked(addresses) == \E i \in DOMAIN addresses : addresses[i] \notin PublicAddresses

(* Mutant: a name that does not resolve is tried again, without end. *)
resolve_again(r) ==
  /\ at = "resolve"
  /\ resolved' = [host |-> url.host, addresses |-> r.addresses]
  /\ \/ r.kind = "failure" /\ at' = "validate" /\ UNCHANGED <<address, conn, answer>>
     \/ /\ r.kind = "unreadable" \/ AnyBlocked(r.addresses)
        /\ Raise("BLOCKED_ADDRESS", FALSE) /\ UNCHANGED <<address, conn>>
     \/ /\ r.kind = "records" /\ ~AnyBlocked(r.addresses)
        /\ at' = "connect" /\ address' = r.addresses[1] /\ conn' = r.addresses[1]
        /\ UNCHANGED answer
  /\ UNCHANGED <<url, redirects, peer, total, requested, served>>

(* _resolve_host: one address that is not allowed refuses them all; the      *)
(* first one is dialled.                                                     *)
resolve_host(r) ==
  /\ at = "resolve"
  /\ resolved' = [host |-> url.host, addresses |-> r.addresses]
  /\ \/ r.kind = "failure" /\ Raise("DNS_FAILURE", TRUE) /\ UNCHANGED <<address, conn>>
     \/ r.kind = "unreadable" /\ Raise("BLOCKED_ADDRESS", FALSE) /\ UNCHANGED <<address, conn>>
     \/ /\ r.kind = "records" /\ AnyBlocked(r.addresses)
        /\ Raise("BLOCKED_ADDRESS", FALSE) /\ UNCHANGED <<address, conn>>
     \/ /\ r.kind = "records" /\ ~AnyBlocked(r.addresses)
        /\ at' = "connect" /\ address' = r.addresses[1] /\ conn' = r.addresses[1]
        /\ UNCHANGED answer
  /\ UNCHANGED <<url, redirects, peer, total, requested, served>>

(* The socket connects and its peer is compared with the address dialled     *)
(* before anything is sent; NoAddress is a socket without a readable peer.   *)
connect(p) ==
  /\ at = "connect"
  /\ peer' = p
  /\ \/ p = NoAddress /\ RaiseClosing("NETWORK_FAILURE", TRUE) /\ UNCHANGED requested
     \/ /\ p # NoAddress /\ (p # address \/ p \notin PublicAddresses)
        /\ RaiseClosing("PEER_MISMATCH", FALSE) /\ UNCHANGED requested
     \/ /\ p = address /\ p \in PublicAddresses
        /\ at' = "response" /\ requested' = [url |-> url, peer |-> p] /\ UNCHANGED <<conn, answer>>
  /\ UNCHANGED <<url, redirects, address, total, resolved, served>>

(* The exceptions of connecting, sending and reading. *)
transport_failure(code) ==
  /\ at \in {"connect", "response", "body"}
  /\ RaiseClosing(code, TRUE)
  /\ UNCHANGED <<url, redirects, address, peer, total, resolved, requested, served>>

(* The connection is closed before the redirect is looked at. urljoin is     *)
(* called outside any try: a location it cannot parse leaves the call as a   *)
(* ValueError, which is not one of the fetcher's own errors.                 *)
redirect(location, target) ==
  /\ at = "response"
  /\ conn' = NoAddress /\ served' = [NotServed EXCEPT !.status = 302]
  /\ \/ location = "missing" /\ Raise("REDIRECT_MISSING_LOCATION", FALSE) /\ UNCHANGED <<url, redirects>>
     \/ /\ location # "missing" /\ redirects >= MaxRedirects
        /\ Raise("TOO_MANY_REDIRECTS", FALSE) /\ UNCHANGED <<url, redirects>>
     \/ /\ location = "unparsable" /\ redirects < MaxRedirects
        /\ at' = "done" /\ answer' = [Pending EXCEPT !.kind = "uncaught", !.code = "ValueError"]
        /\ UNCHANGED <<url, redirects>>
     \/ /\ location = "url" /\ redirects < MaxRedirects
        /\ at' = "validate" /\ url' = target /\ redirects' = redirects + 1 /\ UNCHANGED answer
  /\ UNCHANGED <<address, peer, total, resolved, requested>>

(* Any status that is neither a redirect nor a success. *)
http_error(status) ==
  /\ at = "response"
  /\ served' = [NotServed EXCEPT !.status = status]
  /\ RaiseClosing("HTTP_STATUS", status \in {408, 425, 429} \/ status >= 500)
  /\ UNCHANGED <<url, redirects, address, peer, total, resolved, requested>>

(* A success: its headers are checked before its body is read. A length the  *)
(* server does not declare is -1, one that is not a number or is negative -2. *)
headers(identity, allowed, length) ==
  /\ at = "response"
  /\ served' = [status |-> 200, declared |-> length]
  /\ \/ ~identity /\ RaiseClosing("UNSUPPORTED_ENCODING", FALSE)
     \/ identity /\ ~allowed /\ RaiseClosing("UNSUPPORTED_MIME", FALSE)
     \/ identity /\ allowed /\ length = -2 /\ RaiseClosing("INVALID_RESPONSE", FALSE)
     \/ identity /\ allowed /\ length > MaxResponse /\ RaiseClosing("RESPONSE_TOO_LARGE", FALSE)
     \/ /\ identity /\ allowed /\ length \in -1..MaxResponse
        /\ at' = "body" /\ UNCHANGED <<conn, answer>>
  /\ UNCHANGED <<url, redirects, address, peer, total, resolved, requested>>

(* Mutant: the declared length is trusted: what is read is not counted. *)
read_uncounted(n) ==
  /\ at = "body"
  /\ total' = total + n
  /\ IF served.declared = -1 /\ total + n > MaxResponse
     THEN RaiseClosing("RESPONSE_TOO_LARGE", FALSE)
     ELSE UNCHANGED <<at, conn, answer>>
  /\ UNCHANGED <<url, redirects, address, peer, resolved, requested, served>>

(* One read of n > 0 bytes. *)
read(n) ==
  /\ at = "body"
  /\ total' = total + n
  /\ IF total + n > MaxResponse THEN RaiseClosing("RESPONSE_TOO_LARGE", FALSE)
     ELSE UNCHANGED <<at, conn, answer>>
  /\ UNCHANGED <<url, redirects, address, peer, resolved, requested, served>>

Fetched(u) ==
  /\ at' = "done"
  /\ answer' = [Pending EXCEPT !.kind = "result", !.url = u, !.size = total]

(* Mutant: the connection is closed on the error paths only. *)
end_left_open ==
  /\ at = "body" /\ Fetched(url)
  /\ UNCHANGED <<url, redirects, address, conn, peer, total, resolved, requested, served>>

(* The server is done: the body is returned with the URL that served it.     *)
end_of_body ==
  /\ at = "body" /\ Fetched(url) /\ conn' = NoAddress
  /\ UNCHANGED <<url, redirects, address, peer, total, resolved, requested, served>>

FetchNext ==
  \/ validate_url
  \/ \E r \in Resolutions : resolve_host(r)
  \/ \E p \in Addresses \cup {NoAddress} : connect(p)
  \/ \E code \in {"TIMEOUT", "TLS_FAILURE", "NETWORK_FAILURE"} : transport_failure(code)
  \/ \E location \in {"missing", "unparsable", "url"}, target \in Urls : redirect(location, target)
  \/ \E status \in {404, 408, 425, 429, 503} : http_error(status)
  \/ \E identity, allowed \in BOOLEAN, length \in -2..MaxResponse + 1 :
       headers(identity, allowed, length)
  \/ \E n \in 1..MaxResponse : read(n)
  \/ end_of_body

FetchSpec == (\E u \in Urls : FetchInit("validate", u)) /\ [][FetchNext]_fetchVars

-----------------------------------------------------------------------------
(* Properties. *)

(* Every hop is checked: while a connection is in use, on the first hop and  *)
(* after any redirect, it is to an address that is public, that the resolver *)
(* gave for the host of the current URL in this very hop beside no other     *)
(* kind of address, and that host is an allowed one (_validate_url,          *)
(* _resolve_host, the peer check in _perform_request).                       *)
HopChecked ==
  at \in {"response", "body"} =>
    /\ url.wellformed /\ url.host \in AllowedHosts
    /\ conn = peer /\ peer \in PublicAddresses
    /\ resolved.host = url.host
    /\ \E i \in DOMAIN resolved.addresses : resolved.addresses[i] = peer
    /\ \A i \in DOMAIN resolved.addresses : resolved.addresses[i] \in PublicAddresses

(* Closed: no connection is left open when the call has returned or raised,  *)
(* nor when the next hop starts (the finally clause of _perform_request).    *)
ConnectionClosed == at \in {"done", "validate", "resolve"} => conn = NoAddress

(* Results: what is returned is the whole body that was read, within the     *)
(* limit whatever length was declared, under the URL whose request it        *)
(* answers; no more redirects than the limit were followed to it.            *)
ResultFaithful ==
  answer.kind = "result" =>
    /\ answer.url = requested.url /\ requested.peer = peer
    /\ answer.size = total /\ total <= MaxResponse
    /\ served.status = 200 /\ redirects <= MaxRedirects

(* The fetch is safe: what was checked in one step still holds for the       *)
(* connection in use, the one that is released and the body returned         *)
(* (fetch_public_knowledge, _perform_request).                               *)
FetchChecked == HopChecked /\ ConnectionClosed /\ ResultFaithful

(* The call ends: whatever the servers answer, even redirects for ever, it   *)
(* returns or raises (the loop of fetch_public_knowledge). Connecting,       *)
(* sending and reading have the policy's timeout, and name resolution the    *)
(* resolver's own, hence weak fairness of its steps.                         *)
FetchEnds == (at = "validate") ~> (at = "done")

=============================================================================
