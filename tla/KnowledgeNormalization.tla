------------------------ MODULE KnowledgeNormalization ------------------------
(***************************************************************************)
(* The normaliser of the worker: untrusted bytes of one knowledge source   *)
(* become a sequence of segments with their heading path, page and lines.  *)
(* A text is a sequence of characters: letters, " " and "nl" (a newline).  *)
(* A document is fed one line (text, Markdown), one line or page break     *)
(* (PDF) or one parser event (HTML) at a time; what the regular            *)
(* expressions make of a line is part of the line (raw and clean).         *)
(***************************************************************************)
EXTENDS Integers, SequencesExt

CONSTANTS
  Lines,            \* the lines a document is made of
  Tags,             \* the HTML tags
  HtmlTexts,        \* the character data between tags
  MaxLines,         \* bound: the lines and page breaks of a document
  MaxEvents,        \* bound: the tags and data of an HTML document
  MaxPdfPages,
  MaxSegmentChars,
  MaxTotalChars,
  MaxSegments

ASSUME NormalizationAssumption ==
  {MaxPdfPages, MaxSegmentChars, MaxTotalChars, MaxSegments} \subseteq Nat \ {0}

VARIABLES
  kind,       \* source_type
  stage,      \* "bytes", "parse", "segmented", "failed", or a stage of the chunker
  error,      \* the code of the error raised, or "none"
  doc,        \* what has been fed so far
  scan,       \* the line parsers: pending lines, headings, fence, page, line number
  html,       \* _KnowledgeHtmlParser
  tree,       \* the HTML document itself: open elements, its visible text
  blocks,     \* list[_Block]
  segments    \* tuple[NormalizedSegment, ...]

normVars == <<kind, stage, error, doc, scan, html, tree, blocks, segments>>

-----------------------------------------------------------------------------
(* Texts. *)

IsSpace(c) == c \in {" ", "nl"}

(* The members of a set of numbers in ascending order. *)
Sorted(S) == [k \in 1..Cardinality(S) |-> CHOOSE n \in S : Cardinality({m \in S : m <= n}) = k]

Letters(t) == SelectSeq(t, LAMBDA c : ~IsSpace(c))

Ink(t) == {i \in DOMAIN t : ~IsSpace(t[i])}

lstrip(t) == IF Ink(t) = {} THEN <<>> ELSE SubSeq(t, Min(Ink(t)), Len(t))

strip(t) == IF Ink(t) = {} THEN <<>> ELSE SubSeq(t, Min(Ink(t)), Max(Ink(t)))

(* str.rfind(c, 0, n): the last index of c below n, counted from 0, or -1. *)
rfind(t, c, n) == Max({-1} \cup {i \in 0..n - 1 : i < Len(t) /\ t[i + 1] = c})

(* sep.join(parts). *)
Join(parts, sep) ==
  FlattenSeq([k \in DOMAIN parts |-> IF k = 1 THEN parts[k] ELSE sep \o parts[k]])

(* The maximal runs of letters, as [start, end) offsets counted from 0. *)
Tokens(t) ==
  LET starts == {i \in Ink(t) : i = 1 \/ IsSpace(t[i - 1])}
      End(i) == Min({j \in Ink(t) : j >= i /\ (j = Len(t) \/ IsSpace(t[j + 1]))})
      order == Sorted(starts)
  IN [k \in DOMAIN order |-> [start |-> order[k] - 1, end |-> End(order[k])]]

Slice(t, from, to) == SubSeq(t, from + 1, to)

Words(t) ==
  LET tokens == Tokens(t)
  IN [k \in DOMAIN tokens |-> Slice(t, tokens[k].start, tokens[k].end)]

Nonempty(path) == SelectSeq(path, LAMBDA title : title # <<>>)

-----------------------------------------------------------------------------
(* Segments. *)

(* Mutant: the cut is always at the limit, whatever stands there. *)
CutAtLimit(remaining, maximum) == maximum

(* Where the remaining text is cut: the last newline, else the last space,  *)
(* within the limit, else the limit itself.                                 *)
Boundary(remaining, maximum) ==
  LET newline == rfind(remaining, "nl", maximum + 1)
      space == rfind(remaining, " ", maximum + 1)
  IN IF newline > 0 THEN newline ELSE IF space > 0 THEN space ELSE maximum

RECURSIVE Split(_, _)
Split(remaining, maximum) ==
  IF Len(remaining) <= maximum THEN IF remaining = <<>> THEN <<>> ELSE <<remaining>>
  ELSE LET cut == Boundary(remaining, maximum)
           piece == strip(Slice(remaining, 0, cut))
       IN (IF piece = <<>> THEN <<>> ELSE <<piece>>)
            \o Split(lstrip(Slice(remaining, cut, Len(remaining))), maximum)

split_text(t, maximum) == Split(strip(t), maximum)

Pieces(bs) ==
  FlattenSeq([b \in DOMAIN bs |->
    LET texts == split_text(bs[b].text, MaxSegmentChars)
    IN [k \in DOMAIN texts |-> [block |-> b, text |-> texts[k]]]])

Chars(pieces, n) == FoldLeft(LAMBDA sum, p : sum + Len(p.text), 0, SubSeq(pieces, 1, n))

Fail(code) == stage' = "failed" /\ error' = code

(* Mutant: the count is compared once the segment is in the list. *)
OverLate(pieces, i) == Chars(pieces, i) > MaxTotalChars \/ i > MaxSegments + 1

OverLimit(pieces, i) == Chars(pieces, i) > MaxTotalChars \/ i > MaxSegments

(* The pieces in order, up to the first one over a limit. *)
materialize_segments(bs) ==
  LET pieces == Pieces(bs)
      over == {i \in DOMAIN pieces : OverLimit(pieces, i)}
  IN IF over # {} \/ pieces = <<>>
     THEN /\ Fail(IF over = {} THEN "EMPTY_CONTENT"
                  ELSE IF Chars(pieces, Min(over)) > MaxTotalChars
                       THEN "OUTPUT_TOO_LARGE" ELSE "SEGMENT_LIMIT_EXCEEDED")
          /\ segments' = <<>>
     ELSE /\ stage' = "segmented" /\ error' = "none"
          /\ segments' = [i \in DOMAIN pieces |->
               LET b == bs[pieces[i].block]
               IN [ordinal |-> i - 1, text |-> pieces[i].text, page |-> b.page,
                   path |-> b.path, first |-> b.first, last |-> b.last]]

-----------------------------------------------------------------------------
(* Lines: plain text, PDF pages and Markdown. A line number or a page that   *)
(* Python leaves None is 0.                                                  *)

NoScan(n) == [pending |-> <<>>, headings |-> <<>>, fence |-> FALSE, line |-> 0,
              page |-> 0, pages |-> n]

Block(t, path, page, first, last) ==
  [text |-> t, path |-> path, page |-> page, first |-> first, last |-> last]

(* The blocks once the pending lines are flushed. A PDF block keeps the page *)
(* and drops the lines.                                                      *)
flush_pending ==
  LET p == scan.pending
      t == strip(Join([i \in DOMAIN p |-> p[i].text], <<"nl">>))
  IN CASE p = <<>> \/ t = <<>> -> blocks
       [] kind = "pdf" -> Append(blocks, Block(t, <<>>, scan.page, 0, 0))
       [] OTHER -> Append(blocks, Block(t, scan.headings, 0, p[1].n, p[Len(p)].n))

Feed(event, bound) == Len(doc) < bound /\ doc' = Append(doc, event)

PageBreak == [page |-> TRUE]

Pended(t) == Append(scan.pending, [n |-> scan.line + 1, text |-> t])

(* _blocks_from_lines: an empty line ends the block. *)
plain_line(l) ==
  /\ stage = "parse" /\ kind \in {"text", "pdf"} /\ Feed(l, MaxLines)
  /\ kind = "pdf" => scan.page > 0
  /\ blocks' = IF l.raw = <<>> THEN flush_pending ELSE blocks
  /\ scan' = [scan EXCEPT !.line = @ + 1,
                          !.pending = IF l.raw = <<>> THEN <<>> ELSE Pended(l.raw)]
  /\ UNCHANGED <<kind, stage, error, html, tree, segments>>

(* Mutant: lines still pending at the end of a page run on to the next. *)
pdf_page_runs_on ==
  /\ stage = "parse" /\ kind = "pdf" /\ scan.page < scan.pages /\ Feed(PageBreak, MaxLines)
  /\ scan' = [scan EXCEPT !.page = @ + 1]
  /\ UNCHANGED <<kind, stage, error, html, tree, blocks, segments>>

(* The next page of a PDF: the lines of the one before it are flushed. *)
pdf_page ==
  /\ stage = "parse" /\ kind = "pdf" /\ scan.page < scan.pages /\ Feed(PageBreak, MaxLines)
  /\ blocks' = flush_pending
  /\ scan' = [scan EXCEPT !.pending = <<>>, !.page = @ + 1]
  /\ UNCHANGED <<kind, stage, error, html, tree, segments>>

(* Mutant: a heading replaces only what is deeper than itself. *)
DeeperDropped(headings, level, title) ==
  LET kept == Max({level - 1, Min({level, Len(headings)})})
  IN Append([i \in 1..kept |-> IF i \in DOMAIN headings THEN headings[i] ELSE <<>>], title)

(* headings[: level - 1], padded with empty titles, and the new title. *)
WithHeading(headings, level, title) ==
  Append([i \in 1..level - 1 |-> IF i \in DOMAIN headings THEN headings[i] ELSE <<>>], title)

(* Mutant: a fence line toggles and leaves the lines before it pending. *)
FenceKeepsPending(l, heading) == heading \/ (l.raw = <<>> /\ ~l.fence)

(* The lines that end the block before them. *)
Flushes(l, heading) == l.fence \/ heading \/ l.raw = <<>>

(* One line of the loop of _normalize_markdown: a fence line flushes and     *)
(* toggles; outside a fence a heading flushes, and is a block of its own     *)
(* unless its title cleans to nothing; a blank line flushes; any other line  *)
(* is pending unless it cleans to nothing.                                   *)
markdown_line(l) ==
  /\ stage = "parse" /\ kind = "markdown" /\ Feed(l, MaxLines)
  /\ LET heading == ~l.fence /\ l.level > 0 /\ ~scan.fence
         titled == heading /\ l.clean # <<>>
         flushes == Flushes(l, heading)
         n == scan.line + 1
         kept == IF scan.fence THEN l.raw ELSE l.clean
         nested == WithHeading(scan.headings, l.level, l.clean)
     IN /\ blocks' = (IF flushes THEN flush_pending ELSE blocks)
                       \o (IF titled THEN <<Block(l.clean, Nonempty(nested), 0, n, n)>> ELSE <<>>)
        /\ scan' = [scan EXCEPT
             !.line = n,
             !.fence = IF l.fence THEN ~@ ELSE @,
             !.headings = IF titled THEN nested ELSE @,
             !.pending = IF flushes THEN <<>> ELSE IF kept = <<>> THEN @ ELSE Pended(kept)]
  /\ UNCHANGED <<kind, stage, error, html, tree, segments>>

-----------------------------------------------------------------------------
(* HTML. *)

HeadingLevel == [h1 |-> 1, h2 |-> 2, h3 |-> 3, h4 |-> 4, h5 |-> 5, h6 |-> 6]

Ignored ==
  {"script", "style", "form", "nav", "noscript", "template", "svg", "canvas", "iframe",
   "object", "embed", "header", "footer", "aside"}

VoidIgnored == {"embed"}

Captured == {"title", "p", "li"} \cup DOMAIN HeadingLevel

NoCapture == [tag |-> "none", scope |-> "fallback", parts |-> <<>>]

NewParser ==
  [titles |-> <<>>, candidates |-> <<>>, capture |-> NoCapture, skip |-> <<>>,
   article |-> 0, main |-> 0]

current_scope(h) ==
  IF h.article > 0 THEN "article" ELSE IF h.main > 0 THEN "main" ELSE "fallback"

(* Runs of white space become one space. *)
Collapsed(t) ==
  LET kept == Sorted({i \in DOMAIN t : ~IsSpace(t[i]) \/ i = 1 \/ ~IsSpace(t[i - 1])})
  IN [k \in DOMAIN kept |-> IF IsSpace(t[kept[k]]) THEN " " ELSE t[kept[k]]]

(* The lines between explicit breaks, white space collapsed, without the     *)
(* empty ones at either end. A break is the character "br".                  *)
clean_html_parts(parts) ==
  LET cuts == <<0>> \o Sorted({i \in DOMAIN parts : parts[i] = "br"})
                    \o <<Len(parts) + 1>>
      lines == [k \in 1..Len(cuts) - 1 |->
                  strip(Collapsed(Slice(parts, cuts[k], cuts[k + 1] - 1)))]
      full == {k \in DOMAIN lines : lines[k] # <<>>}
  IN IF full = {} THEN <<>> ELSE Join(SubSeq(lines, Min(full), Max(full)), <<"nl">>)

finish_capture(h) ==
  LET text == clean_html_parts(h.capture.parts)
      tag == h.capture.tag
      found == [text |-> text, scope |-> h.capture.scope,
                level |-> IF tag \in DOMAIN HeadingLevel THEN HeadingLevel[tag] ELSE 0]
  IN [h EXCEPT !.capture = NoCapture,
               !.titles = IF tag = "title" /\ text # <<>> THEN Append(@, text) ELSE @,
               !.candidates = IF tag # "title" /\ text # <<>> THEN Append(@, found) ELSE @]

starttag(h, tag) ==
  CASE tag \in Ignored \ VoidIgnored -> [h EXCEPT !.skip = Append(@, tag)]
    [] tag \in VoidIgnored \/ h.skip # <<>> -> h
    [] tag = "article" -> [h EXCEPT !.article = @ + 1]
    [] tag = "main" -> [h EXCEPT !.main = @ + 1]
    [] tag = "br" /\ h.capture # NoCapture -> [h EXCEPT !.capture.parts = Append(@, "br")]
    [] tag \in Captured /\ h.capture = NoCapture ->
         [h EXCEPT !.capture = [tag |-> tag, parts |-> <<>>,
                                scope |-> IF tag = "title" THEN "fallback" ELSE current_scope(h)]]
    [] OTHER -> h

(* Mutant: the end tag of an ignored element ends the ones around it too. *)
AllClosed(skip, tag) == IF tag = Last(skip) THEN <<>> ELSE skip

(* Only the end tag of the innermost ignored element ends it. *)
Unskipped(skip, tag) == IF tag = Last(skip) THEN Front(skip) ELSE skip

endtag(h, tag) ==
  CASE h.skip # <<>> -> [h EXCEPT !.skip = Unskipped(@, tag)]
    [] OTHER ->
         LET g == IF h.capture # NoCapture /\ tag = h.capture.tag THEN finish_capture(h) ELSE h
         IN [g EXCEPT !.article = IF tag = "article" /\ @ > 0 THEN @ - 1 ELSE @,
                      !.main = IF tag = "main" /\ @ > 0 THEN @ - 1 ELSE @]

startendtag(h, tag) ==
  CASE h.skip # <<>> \/ tag \in Ignored -> h
    [] tag = "br" -> starttag(h, tag)
    [] OTHER -> endtag(starttag(h, tag), tag)

data(h, t) ==
  IF h.skip = <<>> /\ h.capture # NoCapture THEN [h EXCEPT !.capture.parts = @ \o t] ELSE h

(* finish: an unclosed capture is flushed unless an element is being skipped. *)
flushed(h) == IF h.capture # NoCapture /\ h.skip = <<>> THEN finish_capture(h) ELSE h

(* The document as written, kept only while its elements nest: the open      *)
(* elements, and each letter with the outermost captured element around it.  *)
NewTree == [nests |-> TRUE, open |-> <<>>, text |-> <<>>]

Broken == [NewTree EXCEPT !.nests = FALSE]

Skipping(t) == \E i \in DOMAIN t.open : t.open[i].tag \in Ignored

Owners(t) == {i \in DOMAIN t.open : t.open[i].tag \in Captured}

ScopeOf(t, i) ==
  LET around == {t.open[j].tag : j \in 1..i - 1}
  IN CASE t.open[i].tag = "title" -> "title"
       [] "article" \in around -> "article"
       [] "main" \in around -> "main"
       [] OTHER -> "fallback"

TreeStart(t, tag) ==
  CASE ~t.nests \/ tag \in {"br"} \cup VoidIgnored -> t
    [] ~Skipping(t) /\ Owners(t) # {} /\ tag = t.open[Min(Owners(t))].tag -> Broken
    [] OTHER -> [t EXCEPT !.open = Append(@, [tag |-> tag, at |-> Len(t.text)])]

TreeEnd(t, tag) ==
  CASE ~t.nests \/ tag \in {"br"} \cup VoidIgnored -> t
    [] t.open = <<>> \/ Last(t.open).tag # tag -> Broken
    [] OTHER -> [t EXCEPT !.open = Front(@)]

TreeData(t, d) ==
  IF ~t.nests \/ Skipping(t) \/ Owners(t) = {} THEN t
  ELSE LET i == Min(Owners(t))
       IN [t EXCEPT !.text = @ \o [k \in DOMAIN Letters(d) |->
             [at |-> t.open[i].at, scope |-> ScopeOf(t, i), letter |-> Letters(d)[k]]]]

HtmlStep(h, t) ==
  /\ stage = "parse" /\ kind = "url" /\ Feed("event", MaxEvents)
  /\ html' = h /\ tree' = t
  /\ UNCHANGED <<kind, stage, error, scan, blocks, segments>>

handle_starttag(tag) == HtmlStep(starttag(html, tag), TreeStart(tree, tag))

handle_endtag(tag) == HtmlStep(endtag(html, tag), TreeEnd(tree, tag))

handle_startendtag(tag) == HtmlStep(startendtag(html, tag), TreeEnd(TreeStart(tree, tag), tag))

handle_data(t) == HtmlStep(data(html, t), TreeData(tree, t))

(* The candidates of the best scope that has any. *)
Selected(candidates) ==
  LET In(scope) == SelectSeq(candidates, LAMBDA c : c.scope = scope)
  IN IF In("article") # <<>> THEN In("article")
     ELSE IF In("main") # <<>> THEN In("main") ELSE In("fallback")

(* The headings in force after the first n of the selected candidates. *)
HeadingsAfter(selected, n) ==
  FoldLeft(LAMBDA hs, c : IF c.level = 0 THEN hs ELSE WithHeading(hs, c.level, c.text),
           <<>>, SubSeq(selected, 1, n))

html_blocks(h) ==
  LET selected == Selected(h.candidates)
  IN (IF h.titles = <<>> THEN <<>> ELSE <<Block(h.titles[1], <<>>, 0, 0, 0)>>)
       \o [n \in DOMAIN selected |->
            Block(selected[n].text, Nonempty(HeadingsAfter(selected, n)), 0, 0, 0)]

-----------------------------------------------------------------------------
(* normalize_knowledge_content. *)

Kinds == {"pdf", "markdown", "text", "url"}

NormInit(stages) ==
  /\ kind \in Kinds /\ stage \in stages /\ error = "none" /\ doc = <<>>
  /\ scan = NoScan(0) /\ html = NewParser /\ tree = NewTree /\ blocks = <<>>
  /\ segments = <<>>

(* The defects of the bytes, in the order in which they are looked for. *)
Checks ==
  <<"SOURCE_TYPE_UNSUPPORTED", "INPUT_TYPE", "INPUT_TOO_LARGE">>
    \o IF kind = "pdf" THEN <<"PDF_MALFORMED", "PDF_ENCRYPTED", "PDF_PAGE_LIMIT_EXCEEDED">>
       ELSE <<"TEXT_INVALID", "INVALID_UTF8">>

(* The bytes are examined before any of their content is parsed. *)
accept(defects, pages) ==
  /\ stage = "bytes"
  /\ LET found == {i \in DOMAIN Checks : \/ Checks[i] \in defects
                                         \/ Checks[i] = "PDF_PAGE_LIMIT_EXCEEDED"
                                            /\ pages > MaxPdfPages}
     IN IF found = {} THEN stage' = "parse" /\ scan' = NoScan(pages) /\ UNCHANGED error
        ELSE /\ Fail(IF Checks[Min(found)] = "INPUT_TYPE" THEN "TEXT_INVALID"
                     ELSE Checks[Min(found)])
             /\ UNCHANGED scan
  /\ UNCHANGED <<kind, doc, html, tree, blocks, segments>>

(* The PDF reader or the HTML parser raises in the middle of the document. *)
malformed ==
  /\ stage = "parse" /\ kind \in {"pdf", "url"}
  /\ Fail(IF kind = "pdf" THEN "PDF_MALFORMED" ELSE "HTML_MALFORMED")
  /\ blocks' = <<>>
  /\ UNCHANGED <<kind, doc, scan, html, tree, segments>>

(* The end of the document: what is pending is flushed, the blocks are split. *)
finish ==
  /\ stage = "parse" /\ (kind = "pdf" => scan.page = scan.pages)
  /\ blocks' = IF kind = "url" THEN html_blocks(flushed(html)) ELSE flush_pending
  /\ materialize_segments(blocks')
  /\ UNCHANGED <<kind, doc, scan, html, tree>>

LineStep == \E l \in Lines : plain_line(l) \/ markdown_line(l)

HtmlEvent ==
  \/ \E tag \in Tags : handle_starttag(tag) \/ handle_endtag(tag) \/ handle_startendtag(tag)
  \/ \E t \in HtmlTexts : handle_data(t)

Accept == \E defects \in SUBSET ToSet(Checks), pages \in 0..MaxPdfPages + 1 :
            (kind = "pdf" \/ pages = 0) /\ accept(defects, pages)

NormNext == Accept \/ LineStep \/ pdf_page \/ HtmlEvent \/ malformed \/ finish

-----------------------------------------------------------------------------
(* Properties. *)

(* The document was parsed to its end, whatever its size led to. *)
Parsed ==
  stage \in {"segmented", "failed"} /\ error \notin ToSet(Checks) \cup {"HTML_MALFORMED", "TEXT_INVALID"}

InFence(n) ==
  Cardinality({k \in 1..n - 1 : doc[k].fence}) % 2 = 1 /\ kind = "markdown"

IsHeading(n) ==
  kind = "markdown" /\ doc[n].level > 0 /\ ~doc[n].fence /\ ~InFence(n) /\ doc[n].clean # <<>>

(* What is left of line n once it is cleaned. *)
Cleaned(n) ==
  IF kind = "text" \/ (InFence(n) /\ ~doc[n].fence) THEN doc[n].raw
  ELSE IF doc[n].fence THEN <<>> ELSE doc[n].clean

(* A line at which no block may run on. *)
Breaks(n) ==
  \/ doc[n].raw = <<>>
  \/ kind = "markdown" /\ (doc[n].fence \/ (doc[n].level > 0 /\ ~InFence(n)))

(* Lines are located: a block of a text or Markdown document holds exactly   *)
(* the cleaned lines from its first to its last, no block runs across a      *)
(* blank line, a fence or a heading, and every line that has text is in one  *)
(* block (_blocks_from_lines, flush_pending in _normalize_markdown).         *)
LinesLocated ==
  (Parsed /\ kind \in {"text", "markdown"}) =>
    /\ \A b \in DOMAIN blocks :
         LET B == blocks[b]
             full == SelectSeq([i \in 1..B.last - B.first + 1 |-> B.first + i - 1],
                               LAMBDA n : Cleaned(n) # <<>>)
         IN /\ B.text = Join([i \in DOMAIN full |-> Cleaned(full[i])], <<"nl">>)
            /\ B.first = B.last \/ \A n \in B.first..B.last : ~Breaks(n)
    /\ \A n \in DOMAIN doc : Cleaned(n) # <<>> =>
         Cardinality({b \in DOMAIN blocks : n \in blocks[b].first..blocks[b].last}) = 1

(* The headings line n stands under: those before it that no heading of the  *)
(* same or a higher rank has closed.                                         *)
Above(n) ==
  LET open == {m \in 1..n - 1 : IsHeading(m) /\ \A k \in m + 1..n :
                                   IsHeading(k) => doc[k].level > doc[m].level}
  IN Sorted(open)

Title(ns) == [i \in DOMAIN ns |-> doc[ns[i]].clean]

(* Sections: the heading path of a Markdown block names the headings it      *)
(* stands under and, for a heading, its own title. A block of text under a   *)
(* heading that skipped a rank has an empty title in the place of each rank  *)
(* skipped (WithHeading, flush_pending).                                     *)
SectionPaths ==
  (Parsed /\ kind = "markdown") =>
    \A b \in DOMAIN blocks :
      LET n == blocks[b].first
          above == Title(Above(n))
      IN IF IsHeading(n) THEN blocks[b].path = Append(above, doc[n].clean)
         ELSE Nonempty(blocks[b].path) = above

(* The page of a PDF block is the page its text was extracted from.          *)
PagesLocated ==
  (Parsed /\ kind = "pdf") =>
    \A page \in 1..scan.pages :
      LET starts == {i \in DOMAIN doc : doc[i] = PageBreak}
          from == CHOOSE i \in starts : Cardinality({j \in starts : j <= i}) = page
          on == {i \in DOMAIN doc : i > from /\ \A j \in from + 1..i : j \notin starts}
          lines == Sorted(on)
      IN FlattenSeq([i \in DOMAIN lines |-> Letters(doc[lines[i]].raw)]) =
         FlattenSeq([b \in DOMAIN blocks |->
                      IF blocks[b].page = page THEN Letters(blocks[b].text) ELSE <<>>])

(* Located: lines, heading path and page of a block are those of the source, *)
(* for every order of blank lines, fences, headings, markup and page breaks  *)
(* (the line parsers of text, Markdown and PDF).                             *)
SourceLocated == LinesLocated /\ SectionPaths /\ PagesLocated

BlockLetters == FlattenSeq([b \in DOMAIN blocks |-> Letters(blocks[b].text)])

(* Visible text: the blocks of an HTML document whose elements nest hold,    *)
(* once and in order, the first title that has text, and the text of the     *)
(* headings, paragraphs and list items of its article, else of its main      *)
(* part, else of its body; nothing inside an ignored element is in them      *)
(* (_KnowledgeHtmlParser, _html_blocks).                                     *)
VisibleText ==
  (Parsed /\ kind = "url" /\ tree.nests /\ ~Skipping(tree)) =>
    LET t == tree.text
        Has(scope) == \E i \in DOMAIN t : t[i].scope = scope
        first == Min({t[i].at : i \in {j \in DOMAIN t : t[j].scope = "title"}})
        best == IF Has("article") THEN "article" ELSE IF Has("main") THEN "main" ELSE "fallback"
        title == IF Has("title") THEN SelectSeq(t, LAMBDA x : x.at = first) ELSE <<>>
        shown == title \o SelectSeq(t, LAMBDA x : x.scope = best)
    IN BlockLetters = [i \in DOMAIN shown |-> shown[i].letter]

(* Segments: the segments hold the letters of the blocks in order, none is   *)
(* longer than the limit, empty, or has white space at either end, and a     *)
(* word is broken only if it is longer than the limit (_split_text).         *)
WordsKept ==
  stage = "segmented" =>
    /\ \A i \in DOMAIN segments :
         /\ Len(segments[i].text) \in 1..MaxSegmentChars
         /\ segments[i].text = strip(segments[i].text)
    /\ FlattenSeq([i \in DOMAIN segments |-> Letters(segments[i].text)]) = BlockLetters
    /\ LET words == FlattenSeq([b \in DOMAIN blocks |-> Words(blocks[b].text)])
       IN (\A w \in ToSet(words) : Len(w) <= MaxSegmentChars) =>
            FlattenSeq([i \in DOMAIN segments |-> Words(segments[i].text)]) = words

(* Limits: a document that is accepted is within both limits, and one that   *)
(* is refused for its size would not have been within the limit named        *)
(* (_materialize_segments).                                                  *)
LimitsExact ==
  Parsed =>
    LET pieces == Pieces(blocks)
        n == Len(pieces)
    IN CASE error = "none" -> Chars(pieces, n) <= MaxTotalChars /\ n <= MaxSegments
         [] error = "OUTPUT_TOO_LARGE" -> Chars(pieces, n) > MaxTotalChars
         [] error = "SEGMENT_LIMIT_EXCEEDED" -> n > MaxSegments
         [] error = "EMPTY_CONTENT" -> BlockLetters = <<>>
         [] OTHER -> TRUE

(* Segments are exact: nothing is lost or broken by splitting, and a refusal *)
(* for size names a limit the document really exceeds (_split_text,          *)
(* _materialize_segments).                                                   *)
SegmentsExact == WordsKept /\ LimitsExact

=============================================================================
