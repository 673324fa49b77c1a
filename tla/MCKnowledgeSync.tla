--------------------------- MODULE MCKnowledgeSync --------------------------
(* Small instances: one or two workers, two different contents.            *)
EXTENDS KnowledgeSync, TLC

CONSTANTS c1, c2, w1, w2

TwoContents == {c1, c2}
OneWorker == {w1}
TwoWorkers == {w1, w2}

AllTypes == {"url", "file", "sitemap"}
UrlOnly == {"url"}

Symmetry == Permutations(TwoWorkers)

=============================================================================
