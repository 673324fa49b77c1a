-------------------------- MODULE MCKnowledgeContent --------------------------
EXTENDS KnowledgeContent

Line(raw, clean, level, fence) == [raw |-> raw, clean |-> clean, level |-> level, fence |-> fence]

(* A blank line, a fence, a line of markup alone, two lines of text, of which *)
(* the second has to be split, headings of two ranks and one without a title. *)
MCLines ==
  {Line(<<>>, <<>>, 0, FALSE), Line(<<"~">>, <<>>, 0, TRUE), Line(<<"<">>, <<>>, 0, FALSE),
   Line(<<"a">>, <<"a">>, 0, FALSE),
   Line(<<"b", "b", " ", "a", " ", "b">>, <<"b", "b", " ", "a", " ", "b">>, 0, FALSE),
   Line(<<"#", " ", "a">>, <<"a">>, 1, FALSE), Line(<<"#", "#", " ", "b">>, <<"b">>, 2, FALSE),
   Line(<<"#", " ", "<">>, <<>>, 1, FALSE)}

MCTags == {"article", "title", "h1", "p", "br", "nav"}

MCHtmlTexts == {<<"a">>, <<" ", "nl", "b">>}
=============================================================================
