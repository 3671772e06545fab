--------------------------- MODULE MCCorpusCrawl ---------------------------
(* Small instances of CorpusCrawl for TLC. *)
EXTENDS CorpusCrawl, TLC

CONSTANTS n1, n2, n3

MCHome == (n1 :> 1) @@ (n2 :> 2)
=============================================================================
