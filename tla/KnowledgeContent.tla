--------------------------- MODULE KnowledgeContent ---------------------------
(***************************************************************************)
(* The content libraries of the worker: one call to the fetcher of public  *)
(* URLs, or one document taken through the normaliser and the chunker.     *)
(* Nothing in the worker passes what was fetched to the normaliser yet.    *)
(***************************************************************************)
EXTENDS KnowledgeChunking, PublicFetch

vars == <<contentVars, fetchVars>>

Init ==
  /\ ChunkInit
  /\ \/ NormInit({"bytes"}) /\ FetchInit("idle", CHOOSE u \in Urls : TRUE)
     \/ /\ NormInit({"idle"}) /\ kind = "url"
        /\ \E u \in Urls : FetchInit("validate", u)

Next ==
  \/ NormNext /\ UNCHANGED <<chunkVars, fetchVars>>
  \/ ChunkStep /\ UNCHANGED fetchVars
  \/ FetchNext /\ UNCHANGED contentVars

Spec == Init /\ [][Next]_vars /\ WF_vars(FetchNext /\ UNCHANGED contentVars)

=============================================================================
