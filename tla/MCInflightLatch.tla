-------------------------- MODULE MCInflightLatch --------------------------
(***************************************************************************)
(* Two threads, each able to make an outer and a nested call, and a third  *)
(* with a single call, over an outer key whose body calls its own key (the *)
(* mistaken recursion) or an inner key.                                    *)
(***************************************************************************)
EXTENDS InflightLatch, TLC

CONSTANTS c1, c2, c3, c4, c5, t1, t2, t3, outer, inner

MCThreadOf == c1 :> t1 @@ c2 :> t1 @@ c3 :> t2 @@ c4 :> t2 @@ c5 :> t3
MCNests == {<<outer, outer>>, <<outer, inner>>}

=============================================================================
