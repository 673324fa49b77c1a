------------------------- MODULE MCConnectivityTest -------------------------
(* ConnectivityTest for TLC: which chunks the providers may send. *)
EXTENDS ConnectivityTest

Chunk(id, usage, fin, text, err) ==
  [id |-> id, usage |-> usage, fin |-> fin, text |-> text, err |-> err]

(* Text with and without an id, the end with and without text, and the      *)
(* usage that follows it.                                                   *)
OpenAIChunks ==
  {Chunk(TRUE, FALSE, "none", "head", NoFailure), Chunk(FALSE, FALSE, "none", "tail", NoFailure),
   Chunk(FALSE, FALSE, "stop", "tail", NoFailure), Chunk(TRUE, FALSE, "stop", "none", NoFailure),
   Chunk(FALSE, TRUE, "none", "none", NoFailure)}

(* message_start, content_block_delta, and message_delta with and without a *)
(* stop reason.                                                             *)
AnthropicEvents ==
  {Chunk(TRUE, FALSE, "none", "none", NoFailure), Chunk(FALSE, FALSE, "none", "head", NoFailure),
   Chunk(FALSE, FALSE, "none", "tail", NoFailure), Chunk(FALSE, TRUE, "stop", "none", NoFailure),
   Chunk(FALSE, TRUE, "none", "none", NoFailure)}

OpenRouterChunks ==
  OpenAIChunks \cup {Chunk(TRUE, FALSE, "error", "none", NoFailure)}
    \cup {Chunk(TRUE, FALSE, "none", "none", e) : e \in EmbeddedFailures}

MCChunks == [openai |-> OpenAIChunks, gemini |-> OpenAIChunks, anthropic |-> AnthropicEvents,
             openrouter |-> OpenRouterChunks]
=============================================================================
