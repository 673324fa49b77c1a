------------------------------ MODULE Gateway ------------------------------
(***************************************************************************)
(* The LLM gateway (services/llm-gateway/app): the boundary of its private *)
(* HTTP routes, the embeddings route, and the four provider adapters, each *)
(* with generate and stream.  One call is served at a time; calls share no *)
(* state.  The provider behind an SDK is the environment: it answers,      *)
(* sends chunks in any order, stops early or fails at any point, and the   *)
(* consumer of a stream may stop listening at any point.                   *)
(*                                                                         *)
(* A text is one of the fragments "head" and "tail"; the two in this order *)
(* are the one JSON object of the model.                                   *)
(***************************************************************************)
EXTENDS Integers, Sequences

CONSTANTS Chunks,     \* Chunks[p]: what a stream of provider p may send
          MaxChunks,  \* the chunks of a stream
          MaxBody,    \* MAX_INTERNAL_REQUEST_BODY_BYTES
          MaxBatch    \* MAX_EMBEDDING_BATCH_SIZE

Providers == {"openai", "anthropic", "gemini", "openrouter"}

ErrorCodes == {"PROVIDER_RATE_LIMITED", "PROVIDER_TIMEOUT", "PROVIDER_UNAVAILABLE",
               "PROVIDER_INVALID_REQUEST", "PROVIDER_AUTH_FAILED"}

VARIABLES req,     \* the call
          pc,      \* where it is
          client,  \* the SDK client of the call
          meta,    \* finish_reason, usage and request_id seen so far
          buf,     \* the text held back for a structured response
          out,     \* the events yielded
          result,  \* how the call ended
          sent,    \* the chunks the adapter took (history)
          cause,   \* the failure the provider reported (history)
          body     \* the request body: bytes passed to the application

gatewayVars == <<req, pc, client, meta, buf, out, result, sent, cause, body>>

(* What an SDK raises: a status error, a timeout, a connection error, a     *)
(* ValueError, or anything else; OpenRouter also reports errors in a        *)
(* response, with a type, a code or both.                                   *)
Raised(kind, status) == [kind |-> kind, status |-> status, type |-> "none"]
Embedded(type, code) == [kind |-> "embedded", status |-> code, type |-> type]

NoFailure == Raised("none", 0)

SdkFailures ==
  {Raised("status", s) : s \in {304, 400, 401, 403, 408, 409, 429, 500}}
    \cup {Raised(k, 0) : k \in {"timeout", "connection", "value", "other"}}

EmbeddedFailures ==
  {Embedded("none", c) : c \in {0, 400, 401, 408, 429, 500}}
    \cup {Embedded(t, 500) : t \in {"authentication", "rate_limit_exceeded", "timeout"}}
    \cup {Embedded(t, 401) : t \in {"server", "invalid_prompt"}}

(* What a stream may send: every part of a chunk is optional.              *)
StreamChunks ==
  [id : BOOLEAN, usage : BOOLEAN, fin : {"none", "stop", "error"}, text : {"none", "head", "tail"},
   err : {NoFailure} \cup EmbeddedFailures]

ASSUME GatewayAssumption == MaxBody \in Nat /\ \A p \in Providers : Chunks[p] \subseteq StreamChunks

NoMeta == [fin |-> "none", usage |-> FALSE, id |-> FALSE]

Whole == <<"head", "tail">>

-----------------------------------------------------------------------------
(* The requests. *)

Absent == [kind |-> "absent", n |-> 0]

Call(path, p) ==
  [path |-> path, provider |-> p, context |-> TRUE, key |-> "ok", stream |-> path = "stream",
   schema |-> FALSE, roles |-> "user", token |-> "good", declared |-> Absent, bytes |-> 0,
   batch |-> 1, alias |-> TRUE]

AdapterCalls ==
  [path : {"generate", "stream"}, provider : Providers, context : BOOLEAN,
   key : {"ok", "blank", "missing"}, stream : BOOLEAN, schema : BOOLEAN,
   roles : {"user", "system-first", "system-late", "system-only"},
   token : {"good"}, declared : {Absent}, bytes : {0}, batch : {1}, alias : {TRUE}]

EmbedCalls ==
  [path : {"embed"}, provider : {"openai"}, context : {TRUE}, key : {"ok"}, stream : {FALSE},
   schema : {FALSE}, roles : {"user"}, token : {"good", "bad", "unset"},
   declared : {Absent} \cup [kind : {"malformed"}, n : {0}] \cup [kind : {"number"}, n : -1..MaxBody + 1],
   bytes : 1..MaxBody + 2, batch : 0..MaxBatch + 1, alias : BOOLEAN]

Entry(path) ==
  CASE path \in {"test", "embed"} -> "boundary"
    [] path \in {"generate", "stream"} -> "start"
    [] OTHER -> "idle"

Begin(r) ==
  /\ req' = r /\ pc' = Entry(r.path)
  /\ client' = "none" /\ meta' = NoMeta /\ buf' = <<>> /\ out' = <<>>
  /\ result' = "none" /\ sent' = <<>> /\ cause' = NoFailure /\ body' = 0

GatewayInit(r) ==
  /\ req = r /\ pc = Entry(r.path)
  /\ client = "none" /\ meta = NoMeta /\ buf = <<>> /\ out = <<>>
  /\ result = "none" /\ sent = <<>> /\ cause = NoFailure /\ body = 0

-----------------------------------------------------------------------------
(* The HTTP boundary and the embeddings route. *)

Respond(status) ==
  /\ pc' = "done" /\ result' = status
  /\ UNCHANGED <<req, client, meta, buf, out, sent, cause, body>>

(* The token is checked before the length, the length before the body. *)
boundary ==
  /\ pc = "boundary"
  /\ \/ req.token = "unset" /\ Respond("503")
     \/ req.token = "bad" /\ Respond("401")
     \/ /\ req.token = "good"
        /\ \/ req.declared.kind = "malformed" /\ Respond("400")
           \/ req.declared.kind = "number" /\ req.declared.n < 0 /\ Respond("400")
           \/ req.declared.kind = "number" /\ req.declared.n > MaxBody /\ Respond("413")
           \/ /\ req.declared.kind # "malformed" /\ req.declared.n \in 0..MaxBody
              /\ pc' = IF req.path = "test" THEN "start" ELSE "body"
              /\ UNCHANGED <<req, client, meta, buf, out, result, sent, cause, body>>

(* Mutant: each message is compared with the cap, not their sum. *)
ReceiveOne(n) ==
  /\ pc = "body" /\ body + n <= req.bytes
  /\ IF n > MaxBody
     THEN \E status \in {"400", "413"} : Respond(status)
     ELSE /\ body' = body + n
          /\ UNCHANGED <<req, pc, client, meta, buf, out, result, sent, cause>>

(* A message of n bytes arrives. Over the cap the wrapped receive raises,   *)
(* which the middleware answers with 413, or the framework with 400 first.  *)
receive_limited(n) ==
  /\ pc = "body" /\ body + n <= req.bytes
  /\ IF body + n > MaxBody
     THEN \E status \in {"400", "413"} : Respond(status)
     ELSE /\ body' = body + n
          /\ UNCHANGED <<req, pc, client, meta, buf, out, result, sent, cause>>

(* The whole body is there: it is validated, the alias resolved, and the    *)
(* deterministic adapter answers one vector for each input.                 *)
generate_embeddings ==
  /\ pc = "body" /\ body = req.bytes
  /\ Respond(IF req.batch \notin 1..MaxBatch THEN "422" ELSE IF req.alias THEN "200" ELSE "503")

-----------------------------------------------------------------------------
(* What each adapter makes of a failure. *)

(* Mutant: whatever is not a server error is invalid, with or without a     *)
(* status.                                                                  *)
BelowFiveHundred(e) ==
  CASE e.status \in {401, 403} -> "PROVIDER_AUTH_FAILED"
    [] e.status = 429 -> "PROVIDER_RATE_LIMITED"
    [] e.kind = "timeout" -> "PROVIDER_TIMEOUT"
    [] e.kind # "timeout" /\ e.status < 500 /\ e.status \notin {401, 403, 429} ->
         "PROVIDER_INVALID_REQUEST"
    [] OTHER -> "PROVIDER_UNAVAILABLE"

normalize_openai_error(e) ==
  CASE e.status \in {401, 403} -> "PROVIDER_AUTH_FAILED"
    [] e.status = 429 -> "PROVIDER_RATE_LIMITED"
    [] e.kind = "timeout" -> "PROVIDER_TIMEOUT"
    [] e.kind = "status" /\ e.status < 500 /\ e.status \notin {401, 403, 429} ->
         "PROVIDER_INVALID_REQUEST"
    [] OTHER -> "PROVIDER_UNAVAILABLE"

normalize_anthropic_error(e) ==
  CASE e.status \in {401, 403} -> "PROVIDER_AUTH_FAILED"
    [] e.status = 429 -> "PROVIDER_RATE_LIMITED"
    [] e.kind = "timeout" -> "PROVIDER_TIMEOUT"
    [] e.status \in 400..499 \ {401, 403, 429} -> "PROVIDER_INVALID_REQUEST"
    [] OTHER -> "PROVIDER_UNAVAILABLE"

normalize_gemini_error(e) ==
  CASE e.status \in {401, 403} -> "PROVIDER_AUTH_FAILED"
    [] e.status = 429 -> "PROVIDER_RATE_LIMITED"
    [] e.kind = "timeout" \/ e.status = 408 -> "PROVIDER_TIMEOUT"
    [] e.status \in 400..499 \ {401, 403, 408, 429} \/ e.kind = "value" ->
         "PROVIDER_INVALID_REQUEST"
    [] OTHER -> "PROVIDER_UNAVAILABLE"

normalize_openrouter_error(e) ==
  CASE e.status \in {401, 403} -> "PROVIDER_AUTH_FAILED"
    [] e.status = 429 -> "PROVIDER_RATE_LIMITED"
    [] e.kind = "timeout" \/ e.status = 408 -> "PROVIDER_TIMEOUT"
    [] e.kind = "status" /\ e.status < 500 /\ e.status \notin {401, 403, 408, 429} ->
         "PROVIDER_INVALID_REQUEST"
    [] OTHER -> "PROVIDER_UNAVAILABLE"

(* Mutant: the code of an embedded error decides before its type does. *)
EmbeddedByCode(e) ==
  CASE e.status \in {401, 403} -> "PROVIDER_AUTH_FAILED"
    [] e.status = 429 -> "PROVIDER_RATE_LIMITED"
    [] e.status = 408 -> "PROVIDER_TIMEOUT"
    [] e.status \in 400..499 \ {401, 403, 408, 429} -> "PROVIDER_INVALID_REQUEST"
    [] OTHER -> "PROVIDER_UNAVAILABLE"

(* The type of an embedded error decides before its code does. *)
normalize_embedded_openrouter_error(e) ==
  CASE e.type = "authentication" -> "PROVIDER_AUTH_FAILED"
    [] e.type = "rate_limit_exceeded" -> "PROVIDER_RATE_LIMITED"
    [] e.type = "timeout" -> "PROVIDER_TIMEOUT"
    [] e.type = "server" -> "PROVIDER_UNAVAILABLE"
    [] e.type = "invalid_prompt" -> "PROVIDER_INVALID_REQUEST"
    [] e.type = "none" /\ e.status \in {401, 403} -> "PROVIDER_AUTH_FAILED"
    [] e.type = "none" /\ e.status = 429 -> "PROVIDER_RATE_LIMITED"
    [] e.type = "none" /\ e.status = 408 -> "PROVIDER_TIMEOUT"
    [] e.type = "none" /\ e.status \in 400..499 \ {401, 403, 408, 429} ->
         "PROVIDER_INVALID_REQUEST"
    [] OTHER -> "PROVIDER_UNAVAILABLE"

NormalizedError(e) ==
  CASE req.provider = "openai" -> normalize_openai_error(e)
    [] req.provider = "anthropic" -> normalize_anthropic_error(e)
    [] req.provider = "gemini" -> normalize_gemini_error(e)
    [] req.provider = "openrouter" -> normalize_openrouter_error(e)

-----------------------------------------------------------------------------
(* What each adapter refuses before it calls the provider, in its order. *)

FirstRefusal(checks) ==
  IF \E i \in DOMAIN checks : checks[i] # "ok"
  THEN checks[CHOOSE i \in DOMAIN checks : checks[i] # "ok" /\ \A j \in 1..i - 1 : checks[j] = "ok"]
  ELSE "ok"

UsesPath == IF req.stream = (req.path = "stream") THEN "ok" ELSE "PROVIDER_INVALID_REQUEST"

Credentials ==
  CASE ~req.context -> "PROVIDER_INVALID_REQUEST"
    [] req.context /\ req.key # "ok" -> "PROVIDER_AUTH_FAILED"
    [] OTHER -> "ok"

(* System messages come first, and there is a conversation. *)
Translated == IF req.roles \in {"user", "system-first"} THEN "ok" ELSE "PROVIDER_INVALID_REQUEST"

openai_refusal == FirstRefusal(<<UsesPath, Credentials>>)
anthropic_refusal == FirstRefusal(<<UsesPath, Credentials, Translated>>)
gemini_refusal == FirstRefusal(<<UsesPath, Translated, Credentials>>)
openrouter_refusal == FirstRefusal(<<UsesPath, Credentials>>)

Refusal ==
  CASE req.provider = "openai" -> openai_refusal
    [] req.provider = "anthropic" -> anthropic_refusal
    [] req.provider = "gemini" -> gemini_refusal
    [] req.provider = "openrouter" -> openrouter_refusal

(* Mutant: the client is closed after the last event only. *)
ClosedOnSuccess == IF client = "open" /\ req.provider \in {"gemini", "openrouter"} /\ pc = "last"
                   THEN "closed" ELSE client

(* Gemini and OpenRouter close their client in a finally clause; the other  *)
(* two adapters leave it to be collected.                                   *)
Closed == IF client = "open" /\ req.provider \in {"gemini", "openrouter"} THEN "closed" ELSE client

Finish(r, e) ==
  /\ pc' = "done" /\ result' = r /\ cause' = e /\ client' = Closed
  /\ UNCHANGED <<req, meta, buf, out, sent, body>>

Start ==
  /\ pc = "start"
  /\ IF Refusal # "ok"
     THEN Finish(Refusal, NoFailure)
     ELSE /\ pc' = "awaiting" /\ client' = "open"
          /\ UNCHANGED <<req, meta, buf, out, result, sent, cause, body>>

(* The SDK call fails, or a stream that was open breaks. *)
Fails(e) == pc \in {"awaiting", "streaming"} /\ Finish(NormalizedError(e), e)

(* The task is cancelled, or the consumer of the stream closes it. *)
Abandon ==
  /\ pc \in {"awaiting", "streaming", "structured", "last"}
  /\ Finish("abandoned", NoFailure)

-----------------------------------------------------------------------------
(* generate: one answer, normalised. *)

Completions ==
  {c \in [choice : BOOLEAN, text : {"none", "json", "plain", "other"},
          fin : {"none", "stop", "error"}, err : {NoFailure} \cup EmbeddedFailures] :
     ~c.choice => c.text = "none" /\ c.fin = "none" /\ c.err = NoFailure}

PlainCompletions == {c \in Completions : c.err = NoFailure}

Readable(c) == c.text \in (IF req.schema THEN {"json"} ELSE {"json", "plain"})

openai_completion(c) ==
  IF c.choice /\ Readable(c) THEN "ok" ELSE "PROVIDER_UNAVAILABLE"

anthropic_message(c) ==
  IF c.choice /\ Readable(c) /\ c.fin # "none" THEN "ok" ELSE "PROVIDER_UNAVAILABLE"

gemini_response(c) ==
  IF c.choice /\ c.fin # "none" /\ Readable(c) THEN "ok" ELSE "PROVIDER_UNAVAILABLE"

openrouter_completion(c) ==
  CASE c.choice /\ c.err # NoFailure -> normalize_embedded_openrouter_error(c.err)
    [] c.choice /\ c.err = NoFailure /\ c.fin # "error" /\ Readable(c) -> "ok"
    [] OTHER -> "PROVIDER_UNAVAILABLE"

Answered(p) == req.provider = p /\ req.path \in {"generate", "test"} /\ pc = "awaiting"

openai_generate(c) == Answered("openai") /\ Finish(openai_completion(c), NoFailure)

anthropic_generate(c) == Answered("anthropic") /\ Finish(anthropic_message(c), NoFailure)

gemini_generate(c) == Answered("gemini") /\ Finish(gemini_response(c), NoFailure)

openrouter_generate(c) == Answered("openrouter") /\ Finish(openrouter_completion(c), c.err)

-----------------------------------------------------------------------------
(* stream: chunks in, events out. *)

Event(text, structured, m) == [text |-> text, structured |-> structured, meta |-> m]

Terminal(e) == e.meta # NoMeta

(* Mutant: a chunk without a finish reason clears it. *)
MergedFin(c) == [fin |-> c.fin, usage |-> meta.usage \/ c.usage, id |-> meta.id \/ c.id]

Merged(c) == [fin |-> IF c.fin # "none" THEN c.fin ELSE meta.fin,
              usage |-> meta.usage \/ c.usage, id |-> meta.id \/ c.id]

create_stream ==
  /\ req.path = "stream" /\ pc = "awaiting"
  /\ pc' = "streaming"
  /\ UNCHANGED <<req, client, meta, buf, out, result, sent, cause, body>>

Taken(c) ==
  /\ pc = "streaming" /\ Len(sent) < MaxChunks
  /\ sent' = Append(sent, c) /\ meta' = Merged(c)
  /\ UNCHANGED <<req, pc, client, result, cause, body>>

(* The text of a chunk is yielded at once ... *)
Yielded(c) ==
  /\ out' = IF c.text = "none" THEN out ELSE Append(out, Event(c.text, FALSE, NoMeta))
  /\ UNCHANGED buf

(* ... or held back until the structured response can be parsed. *)
Held(c) ==
  /\ buf' = IF c.text = "none" THEN buf ELSE Append(buf, c.text)
  /\ UNCHANGED out

(* Mutant: the terminal event is yielded with the finish reason, and the    *)
(* stream goes on.                                                          *)
EndsWithFinish(c) ==
  /\ req.provider = "openai" /\ Taken(c) /\ UNCHANGED buf
  /\ out' = (IF c.text = "none" THEN out ELSE Append(out, Event(c.text, FALSE, NoMeta)))
              \o (IF c.fin = "none" THEN <<>> ELSE <<Event("none", FALSE, Merged(c))>>)

(* OpenAI yields the text of a structured response as it comes. *)
openai_chunk(c) ==
  /\ req.provider = "openai" /\ Taken(c) /\ Yielded(c)

anthropic_event(c) ==
  /\ req.provider = "anthropic" /\ Taken(c)
  /\ IF req.schema THEN Held(c) ELSE Yielded(c)

gemini_chunk(c) ==
  /\ req.provider = "gemini" /\ Taken(c)
  /\ IF req.schema THEN Held(c) ELSE Yielded(c)

(* Mutant: the text of the chunk with the finish reason is dropped. *)
FinishWithoutText(c) ==
  /\ req.provider = "openrouter" /\ pc = "streaming"
  /\ CASE c.err # NoFailure -> Finish(normalize_embedded_openrouter_error(c.err), c.err)
       [] c.err = NoFailure /\ c.fin = "error" -> Finish("PROVIDER_UNAVAILABLE", NoFailure)
       [] c.err = NoFailure /\ c.fin = "stop" -> Taken(c) /\ UNCHANGED <<buf, out>>
       [] OTHER -> Taken(c) /\ (IF req.schema THEN Held(c) ELSE Yielded(c))

(* A chunk holds one choice at most. The error of a chunk, or its finish    *)
(* reason "error", ends the stream before the chunk's text is looked at:    *)
(* that text is dropped with it, and the chunk is not one of those taken.   *)
openrouter_chunk(c) ==
  /\ req.provider = "openrouter" /\ pc = "streaming"
  /\ CASE c.err # NoFailure -> Finish(normalize_embedded_openrouter_error(c.err), c.err)
       [] c.err = NoFailure /\ c.fin = "error" -> Finish("PROVIDER_UNAVAILABLE", NoFailure)
       [] OTHER -> Taken(c) /\ (IF req.schema THEN Held(c) ELSE Yielded(c))

(* The last event; the generator is suspended in it until it is resumed. *)
YieldLast(e) ==
  /\ out' = Append(out, e) /\ pc' = "last"
  /\ UNCHANGED <<req, client, meta, buf, result, sent, cause, body>>

openai_end ==
  /\ req.provider = "openai" /\ pc = "streaming"
  /\ IF meta = NoMeta THEN Finish("PROVIDER_UNAVAILABLE", NoFailure)
                      ELSE YieldLast(Event("none", FALSE, meta))

(* Anthropic yields the structured response before it looks at the metadata. *)
anthropic_structured ==
  /\ req.provider = "anthropic" /\ pc = "streaming" /\ req.schema
  /\ IF buf # Whole
     THEN Finish("PROVIDER_UNAVAILABLE", NoFailure)
     ELSE /\ out' = Append(out, Event("none", TRUE, NoMeta)) /\ pc' = "structured"
          /\ UNCHANGED <<req, client, meta, buf, result, sent, cause, body>>

anthropic_end ==
  /\ req.provider = "anthropic"
  /\ pc = IF req.schema THEN "structured" ELSE "streaming"
  /\ IF meta.fin = "none" \/ ~meta.id
     THEN Finish("PROVIDER_UNAVAILABLE", NoFailure)
     ELSE YieldLast(Event("none", FALSE, [meta EXCEPT !.usage = TRUE]))

gemini_end ==
  /\ req.provider = "gemini" /\ pc = "streaming"
  /\ IF meta = NoMeta \/ (req.schema /\ buf # Whole)
     THEN Finish("PROVIDER_UNAVAILABLE", NoFailure)
     ELSE YieldLast(Event("none", req.schema, meta))

openrouter_end ==
  /\ req.provider = "openrouter" /\ pc = "streaming"
  /\ IF meta = NoMeta \/ (req.schema /\ buf # Whole)
     THEN Finish("PROVIDER_UNAVAILABLE", NoFailure)
     ELSE YieldLast(Event("none", req.schema, meta))

resume == pc = "last" /\ Finish("ok", NoFailure)

-----------------------------------------------------------------------------
GatewayNext ==
  \/ boundary \/ Start \/ Abandon \/ generate_embeddings \/ create_stream \/ resume
  \/ \E n \in 1..2 : receive_limited(n)
  \/ \E e \in SdkFailures : Fails(e)
  \/ \E c \in PlainCompletions : openai_generate(c) \/ anthropic_generate(c) \/ gemini_generate(c)
  \/ \E c \in Completions : openrouter_generate(c)
  \/ \E c \in Chunks[req.provider] :
       openai_chunk(c) \/ anthropic_event(c) \/ gemini_chunk(c) \/ openrouter_chunk(c)
  \/ openai_end \/ anthropic_structured \/ anthropic_end \/ gemini_end \/ openrouter_end

-----------------------------------------------------------------------------
(* Properties. *)

Streams == req.path = "stream"

(* Whether the adapter holds back the text of a structured response. *)
Holds == req.schema /\ req.provider # "openai"

(* The positions of a sequence that carry text. *)
Textual(s) == {i \in DOMAIN s : s[i].text # "none"}

(* s and t carry the same texts, every one once and in the same order. *)
SameTexts(s, t) ==
  \E f \in [Textual(s) -> Textual(t)] :
    /\ \A i, j \in Textual(s) : i < j => f[i] < f[j]
    /\ \A k \in Textual(t) : \E i \in Textual(s) : f[i] = k
    /\ \A i \in Textual(s) : s[i].text = t[f[i]].text

Fragments(texts) == [i \in DOMAIN texts |-> [text |-> texts[i]]]

Finishing == {j \in DOMAIN sent : sent[j].fin # "none"}

LastFin ==
  IF Finishing = {} THEN "none"
  ELSE sent[CHOOSE j \in Finishing : \A k \in Finishing : k <= j].fin

GatewayTypeOK ==
  /\ pc \in {"idle", "boundary", "body", "start", "awaiting", "streaming", "structured", "last",
              "done"}
  /\ client \in {"none", "open", "closed"}
  /\ result \in ErrorCodes \cup {"none", "ok", "abandoned", "200", "400", "401", "413", "422", "503"}
  /\ (pc = "done") <=> (result # "none")
  /\ Len(sent) <= MaxChunks /\ Len(out) <= MaxChunks + 2
  /\ body \in 0..req.bytes

(* However a stream ends, its consumer can tell: the terminal event comes   *)
(* once and last, a stream that ends well had one, and a stream that ends   *)
(* in an error did not (the ends of the four stream generators).            *)
StreamShape ==
  Streams =>
    /\ \A i \in DOMAIN out : Terminal(out[i]) => i = Len(out)
    /\ result = "ok" => out # <<>> /\ Terminal(out[Len(out)])
    /\ result \in ErrorCodes => \A i \in DOMAIN out : ~Terminal(out[i])

(* The consumer gets the provider's text: every fragment once and in order, *)
(* whatever else its chunk carries; or, where the adapter holds the text    *)
(* back, no fragment, and the structured response only when the fragments   *)
(* make up a whole object.                                                  *)
ResponseFaithful ==
  Streams =>
    IF Holds
    THEN /\ Textual(out) = {}
         /\ (\E i \in DOMAIN out : out[i].structured) => SameTexts(Fragments(Whole), sent)
         /\ result = "ok" => \E i \in DOMAIN out : out[i].structured
    ELSE SameTexts(out, sent)

(* The terminal event reports what the provider reported, in whichever      *)
(* chunks it came: the last finish reason, usage and request id. Only       *)
(* Anthropic's adapter takes a missing finish reason for a broken stream.   *)
TerminalTruthful ==
  \A i \in DOMAIN out : Terminal(out[i]) =>
    /\ out[i].meta.fin = LastFin
    /\ out[i].meta.id = \E j \in DOMAIN sent : sent[j].id
    /\ req.provider # "anthropic" => out[i].meta.usage = \E j \in DOMAIN sent : sent[j].usage
    /\ req.provider = "anthropic" => out[i].meta.fin # "none" /\ out[i].meta.id

(* The consumer of a stream sees what the provider sent, and can tell how it *)
(* ended, for every order of chunks and every failure (the stream generators *)
(* of the four adapters).                                                    *)
StreamFaithful == StreamShape /\ ResponseFaithful /\ TerminalTruthful

(* An SDK client of Gemini or OpenRouter is closed however the call ends:   *)
(* an answer, an error before or within the stream, or a consumer that      *)
(* stops listening (the finally clauses of the two adapters).               *)
ClientReleased ==
  pc = "done" /\ req.provider \in {"gemini", "openrouter"} => client # "open"

Refused(e) == IF e.type = "none" THEN e.status \in {401, 403} ELSE e.type = "authentication"
Throttled(e) == IF e.type = "none" THEN e.status = 429 ELSE e.type = "rate_limit_exceeded"
TimedOut(e) == IF e.type = "none" THEN e.kind = "timeout" \/ e.status = 408 ELSE e.type = "timeout"

Rejected(e) ==
  IF e.type = "none" THEN e.status \in 400..499 \ {401, 403, 408, 429}
  ELSE e.type \notin {"authentication", "rate_limit_exceeded", "timeout", "server"}

(* What a failure of the provider should be called, whoever the provider is. *)
Verdict(e) ==
  CASE Refused(e) -> "PROVIDER_AUTH_FAILED"
    [] Throttled(e) -> "PROVIDER_RATE_LIMITED"
    [] TimedOut(e) -> "PROVIDER_TIMEOUT"
    [] Rejected(e) -> "PROVIDER_INVALID_REQUEST"
    [] OTHER -> "PROVIDER_UNAVAILABLE"

(* What one adapter calls an invalid request and another does not: a 408,   *)
(* a redirect, and a ValueError from within the SDK.                        *)
CalledInvalid(e) ==
  \/ e.kind = "status" /\ e.status = 408 /\ req.provider \in {"openai", "anthropic"}
  \/ e.kind = "status" /\ e.status \in 300..399 /\ req.provider \in {"openai", "openrouter"}
  \/ e.kind = "value" /\ req.provider = "gemini"

(* A failure gets one code, the same from every adapter, with three         *)
(* exceptions that are named above: a refused key, throttling, a timeout    *)
(* and a rejected request are told apart, and a lost connection, a server   *)
(* error or anything unknown is the provider being unavailable, never the   *)
(* caller's fault. What the adapter finds wrong itself it reports before    *)
(* there is a client, as an invalid request or, if the key is no good, as   *)
(* an authentication failure (the _normalize functions and the checks       *)
(* before them).                                                            *)
ErrorsClassified ==
  IF cause # NoFailure
  THEN result = IF CalledInvalid(cause) THEN "PROVIDER_INVALID_REQUEST" ELSE Verdict(cause)
  ELSE result \in ErrorCodes \ {"PROVIDER_UNAVAILABLE"} =>
         /\ client = "none"
         /\ \/ result = "PROVIDER_INVALID_REQUEST"
            \/ result = "PROVIDER_AUTH_FAILED" /\ req.key # "ok"

(* No more than the cap of a request body reaches the application, whatever *)
(* length was declared and however the body is split, and none of the body  *)
(* of a caller without the token (InternalGatewayBoundaryMiddleware).       *)
BodyBounded == body <= MaxBody /\ (body > 0 => req.token = "good")
=============================================================================
