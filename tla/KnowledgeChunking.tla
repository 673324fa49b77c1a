--------------------------- MODULE KnowledgeChunking ---------------------------
(***************************************************************************)
(* The chunker of the worker, applied to the segments of the normaliser:   *)
(* segments are grouped by heading path, the text of a group is cut into   *)
(* windows of tokens that overlap, and each window becomes a chunk that    *)
(* names the segments it comes from. One step makes one chunk.             *)
(***************************************************************************)
EXTENDS KnowledgeNormalization

CONSTANTS MaxTokens, OverlapTokens, MaxChunks

ASSUME PolicyAssumption ==
  MaxTokens \in Nat \ {0} /\ OverlapTokens \in 0..MaxTokens - 1 /\ MaxChunks \in Nat \ {0}

VARIABLES
  given,     \* the segments the chunker is called with
  groups,    \* tuple[_HeadingGroup, ...]
  group,     \* the index of the group being cut
  window,    \* the deque: indices of the first and the last token of the window
  skipped,   \* provenance_start_index
  chunks     \* list[KnowledgeChunk]

chunkVars == <<given, groups, group, window, skipped, chunks>>

contentVars == <<normVars, chunkVars>>

NoWindow == [from |-> 1, to |-> 0]

ChunkInit ==
  /\ given = <<>> /\ groups = <<>> /\ group = 0 /\ window = NoWindow /\ skipped = 0
  /\ chunks = <<>>

-----------------------------------------------------------------------------
(* The first error of the segments, or "none". *)
validate_segments(ss) ==
  LET Bad(i) == CASE ss[i].ordinal # i - 1 -> "INVALID_SEGMENTS"
                  [] Ink(ss[i].text) = {} -> "TOKEN_EMPTY_SEGMENT"
                  [] OTHER -> "none"
      bad == {i \in DOMAIN ss : Bad(i) # "none"}
  IN IF ss = <<>> THEN "EMPTY_INPUT" ELSE IF bad = {} THEN "none" ELSE Bad(Min(bad))

(* A group ends where the path changes; the segments before the first        *)
(* heading belong to its group.                                              *)
heading_groups(ss) ==
  LET headed == {i \in DOMAIN ss : ss[i].path # <<>>}
      first == Min(headed)
      starts == {1} \cup {i \in DOMAIN ss : i > first /\ ss[i].path # ss[i - 1].path}
      order == Sorted(starts)
      Until(k) == IF k = Len(order) THEN Len(ss) ELSE order[k + 1] - 1
      Path(k) == IF k = 1 THEN ss[first].path ELSE ss[order[k]].path
  IN IF headed = {} THEN <<[path |-> <<>>, segments |-> ss]>>
     ELSE [k \in DOMAIN order |-> [path |-> Path(k), segments |-> SubSeq(ss, order[k], Until(k))]]

Separator == <<"nl", "nl">>

GroupText(ss) == Join([i \in DOMAIN ss |-> ss[i].text], Separator)

(* The [start, end) offsets of each segment in the text of its group. *)
Spans(ss) ==
  LET Before(i) == GroupText(SubSeq(ss, 1, i))
  IN [i \in DOMAIN ss |-> [start |-> Len(Before(i)) - Len(ss[i].text), end |-> Len(Before(i))]]

(* islice(token_iter, max_tokens): the window a group starts with. *)
FirstWindow(ss) == [from |-> 1, to |-> Min({MaxTokens, Len(Tokens(GroupText(ss)))})]

(* chunk_normalized_segments up to its first window. *)
chunk_segments(ss) ==
  /\ stage = "segmented"
  /\ given' = ss
  /\ IF validate_segments(ss) # "none"
     THEN Fail(validate_segments(ss)) /\ UNCHANGED <<groups, group, window>>
     ELSE /\ stage' = "chunking" /\ UNCHANGED error
          /\ groups' = heading_groups(ss) /\ group' = 1
          /\ window' = FirstWindow(heading_groups(ss)[1].segments)
  /\ UNCHANGED <<kind, doc, scan, html, tree, blocks, segments, skipped, chunks>>

(* Mutant: a full window is always followed by another one. *)
TailRepeated(w, n) ==
  LET from == w.from + MaxTokens - OverlapTokens
  IN IF w.to - w.from + 1 < MaxTokens THEN NoWindow
     ELSE [from |-> from, to |-> Min({n, from + MaxTokens - 1})]

(* The window after w in a text of n tokens: none after a short one, none    *)
(* when no token is left, else the stride is dropped from the left and the   *)
(* window filled up from the right.                                          *)
NextWindow(w, n) ==
  LET from == w.from + MaxTokens - OverlapTokens
  IN IF w.to - w.from + 1 < MaxTokens \/ w.to = n THEN NoWindow
     ELSE [from |-> from, to |-> Min({n, from + MaxTokens - 1})]

(* Mutant: a segment counts as past when it ends within the window. *)
AdvanceTooFar(spans, start) ==
  Max({skipped} \cup {i \in DOMAIN spans : i > skipped /\ spans[i].end <= start + 2})

(* The segments that end before the window starts are not looked at again. *)
Advance(spans, start) ==
  LET past == {i \in skipped + 1..Len(spans) : \A j \in skipped + 1..i : spans[j].end <= start}
  IN Max({skipped} \cup past)

(* The segments from index n on that share a character with the window. *)
window_provenance(ss, spans, n, start, end) ==
  LET hit == Sorted({i \in n + 1..Len(spans) : spans[i].start < end /\ spans[i].end > start})
  IN [k \in DOMAIN hit |-> ss[hit[k]].ordinal]

(* One window of the group: a chunk, or the error that there are too many. *)
emit_chunk ==
  /\ stage = "chunking" /\ window # NoWindow
  /\ LET ss == groups[group].segments
         text == GroupText(ss)
         tokens == Tokens(text)
         start == tokens[window.from].start
         end == tokens[window.to].end
         past == Advance(Spans(ss), start)
     IN IF Len(chunks) >= MaxChunks
        THEN Fail("CHUNK_LIMIT_EXCEEDED") /\ chunks' = <<>> /\ UNCHANGED <<window, skipped>>
        ELSE /\ chunks' = Append(chunks,
                  [ordinal |-> Len(chunks), text |-> Slice(text, start, end),
                   count |-> window.to - window.from + 1, path |-> groups[group].path,
                   provenance |-> window_provenance(ss, Spans(ss), past, start, end)])
             /\ window' = NextWindow(window, Len(tokens))
             /\ skipped' = past
             /\ UNCHANGED <<stage, error>>
  /\ UNCHANGED <<kind, doc, scan, html, tree, blocks, segments, given, groups, group>>

(* The group is cut: the next one, or the chunks are returned. *)
next_group ==
  /\ stage = "chunking" /\ window = NoWindow
  /\ skipped' = 0
  /\ IF group = Len(groups)
     THEN stage' = "chunked" /\ UNCHANGED <<group, window>>
     ELSE /\ group' = group + 1 /\ window' = FirstWindow(groups[group + 1].segments)
          /\ UNCHANGED stage
  /\ UNCHANGED <<kind, error, doc, scan, html, tree, blocks, segments, given, groups, chunks>>

(* The caller passes what the normaliser returned, or less. *)
ChunkStep ==
  \/ \E n \in {1, 2} : chunk_segments(SubSeq(segments, n, Len(segments)))
  \/ emit_chunk
  \/ next_group

-----------------------------------------------------------------------------
(* Properties. *)

(* The sections of the segments, from the decision record: a run of equal    *)
(* paths, with the segments before the first heading added to the first.     *)
SectionOf(i) ==
  LET own(j) == IF \A k \in 1..j : segments[k].path = <<>>
                THEN Min({Len(segments)} \cup {k \in DOMAIN segments : segments[k].path # <<>>})
                ELSE j
      from == own(i)
  IN {j \in DOMAIN segments :
        \A k \in Min({own(j), from})..Max({own(j), from}) : segments[k].path = segments[from].path}

(* The tokens of section S, each with the segment it stands in. *)
SectionTokens(S) ==
  LET order == Sorted(S)
  IN FlattenSeq([k \in DOMAIN order |->
       LET words == Words(segments[order[k]].text)
       IN [w \in DOMAIN words |-> [word |-> words[w], of |-> order[k] - 1]]])

WindowsOf(n) ==
  LET stride == MaxTokens - OverlapTokens
      count == IF n <= MaxTokens THEN 1 ELSE 1 + (n - MaxTokens + stride - 1) \div stride
  IN [k \in 1..count |-> [from |-> (k - 1) * stride + 1, to |-> Min({n, (k - 1) * stride + MaxTokens})]]

(* The token windows of every section, in the order of the document. *)
Expected ==
  LET first == Sorted({Min(SectionOf(i)) : i \in DOMAIN segments})
  IN FlattenSeq([k \in DOMAIN first |->
       LET tokens == SectionTokens(SectionOf(first[k]))
           ws == WindowsOf(Len(tokens))
       IN [w \in DOMAIN ws |-> SubSeq(tokens, ws[w].from, ws[w].to)]])

(* Windows: the chunks are the windows of the sections of the document, in   *)
(* order: every token is in a chunk, no chunk has more than the maximum or   *)
(* tokens of two sections, consecutive windows share exactly the overlap,    *)
(* and none repeats only what the one before it has. The document is refused *)
(* for its chunks exactly when it has more of them than the limit            *)
(* (_token_windows, _heading_groups).                                        *)
ChunksExact ==
  stage = "chunked" \/ (stage = "failed" /\ groups # <<>>) =>
    LET expected == Expected
    IN IF stage = "failed" THEN Len(expected) > MaxChunks
       ELSE /\ Len(chunks) = Len(expected) /\ Len(expected) <= MaxChunks
            /\ \A c \in DOMAIN chunks :
                 /\ Words(chunks[c].text) = [w \in DOMAIN expected[c] |-> expected[c][w].word]
                 /\ chunks[c].count = Len(expected[c])

(* Provenance: a chunk names exactly the segments its tokens stand in, each  *)
(* once and in order, and its heading path is the path of each of them that  *)
(* stands under a heading (_window_provenance, provenance_start_index).      *)
ProvenanceExact ==
  stage = "chunked" =>
    LET expected == Expected
    IN \A c \in DOMAIN chunks :
      /\ chunks[c].provenance = Sorted({x.of : x \in ToSet(expected[c])})
      /\ \A o \in ToSet(chunks[c].provenance) :
           segments[o + 1].path \in {<<>>, chunks[c].path}

(* Chunking is exact: windows and provenance are those a definition over the *)
(* whole document gives, although the code makes them in one pass with a     *)
(* deque and an index that only moves forward (chunk_normalized_segments).   *)
ChunkingExact == ChunksExact /\ ProvenanceExact

=============================================================================
