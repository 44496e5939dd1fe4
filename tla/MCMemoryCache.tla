---------------------------- MODULE MCMemoryCache ---------------------------
(***************************************************************************)
(* MemoryCache with three keys and a limit of three bytes: entries of one, *)
(* two and three bytes fit (the last one alone), one of four never does.   *)
(***************************************************************************)
EXTENDS MemoryCache

CONSTANTS k1, k2, k3, tiny, small, full, oversized

MCKey == {k1, k2, k3}
MCEntry == {tiny, small, full, oversized}
MCSize == [e \in MCEntry |-> CASE e = tiny -> 1 [] e = small -> 2
                               [] e = full -> 3 [] e = oversized -> 4]
=============================================================================
