------------------------ MODULE MCAsyncInflightLatch ------------------------
(***************************************************************************)
(* Four tasks on one loop: one with an outer and a nested call, three with *)
(* a single call, so that a queue of three waiters can hold a cancelled, a *)
(* woken and a pending future at once.                                     *)
(***************************************************************************)
EXTENDS AsyncInflightLatch

CONSTANTS c1, c2, c3, c4, c5, a1, a2, a3, a4, outer, inner

MCTaskOf == c1 :> a1 @@ c2 :> a1 @@ c3 :> a2 @@ c4 :> a3 @@ c5 :> a4
MCNests == {<<outer, outer>>, <<outer, inner>>}

=============================================================================
