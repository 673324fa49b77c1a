-------------------------- MODULE MCKnowledgeUpload --------------------------
(* Small instances of KnowledgeUpload.                                     *)
EXTENDS KnowledgeUpload, TLC

(* Every file has two bytes, so a byte limit of three admits only one.     *)
TwoBytes == [u \in Uploads |-> 2]

Symmetry == Permutations(Uploads)
=============================================================================
