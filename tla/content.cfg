CONSTANTS
  Lines <- MCLines
  Tags <- MCTags
  HtmlTexts <- MCHtmlTexts
  MaxLines = 4
  MaxEvents = 6
  MaxPdfPages = 2
  MaxSegmentChars = 4
  MaxTotalChars = 14
  MaxSegments = 5
  MaxTokens = 3
  OverlapTokens = 1
  MaxChunks = 3
  Hosts = {h1, h2, h3}
  AllowedHosts = {h1, h2}
  PublicAddresses = {p1, p2}
  OtherAddresses = {o1}
  MaxRedirects = 2
  MaxResponse = 2
SPECIFICATION Spec
CHECK_DEADLOCK FALSE
INVARIANTS
  SourceLocated
  VisibleText
  SegmentsExact
  ChunkingExact
  FetchChecked
PROPERTIES
  FetchEnds
