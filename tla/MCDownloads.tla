---------------------------- MODULE MCDownloads -----------------------------
(* An instance of Downloads for TLC: version "b" was made from version "a"   *)
(* of the same file; one chunk of "a" is uploaded once, the other one may be *)
(* uploaded twice, and "b" brings one of its two chunks.                     *)
EXTENDS Downloads, TLC

MCPrevOf == [v \in Version |-> IF v = "b" THEN "a" ELSE Nil]
MCNChunks == [v \in Version |-> 2]
MCNameOf == [v \in Version |-> "name"]
MCTarget == [u \in Upload |-> CASE u = "a0" -> <<"a", 0>>
                                [] u = "a1" -> <<"a", 1>>
                                [] u = "a1again" -> <<"a", 1>>
                                [] u = "b0" -> <<"b", 0>>]
MCWanted == [d \in Request |-> IF d = "d1" THEN "b" ELSE "a"]
=============================================================================
