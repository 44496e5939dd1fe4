---------------------------- MODULE MCTieredCache ---------------------------
(***************************************************************************)
(* TieredCache with three keys, of which two have an object key of their   *)
(* own and "a..b" has none, and with two keys that share an object key     *)
(* ("a//b" and "a/b").  Instances are interchangeable, and so are tasks.   *)
(***************************************************************************)
EXTENDS TieredCache, TLC

MCEntry == 1..MaxPut

OwnKey == {<<"a", "|", "w=1">>, <<"b", "|", "w=1">>, <<"a", "..", "b", "|", "w=1">>}

SharedKey == {<<"a", "/", "/", "b", "|", "w=1">>, <<"a", "/", "b", "|", "|", "w=1">>}

MCSymmetry == Permutations(Instance) \cup Permutations(Task)
=============================================================================
