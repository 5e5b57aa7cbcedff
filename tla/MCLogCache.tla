----------------------------- MODULE MCLogCache -----------------------------
(***************************************************************************)
(* Small worlds for LogCache; the MC*.cfg files choose one.  Writer A's    *)
(* log sorts before writer B's.                                            *)
(***************************************************************************)
EXTENDS LogCache, TLC

CONSTANTS a1, a2, b1,       \* instances: two of writer A, one of writer B
          t1, t2, t3, t4,   \* threads
          A, B, k1, k2

MCRank == [w \in Writers |-> IF w = A THEN 1 ELSE 2]

\* t1 and the batch thread t2 in process a1, t3 in its sibling a2, t4 in b1.
MCInstanceOf == t1 :> a1 @@ t2 :> a1 @@ t3 :> a2 @@ t4 :> b1
MCWriterOf == a1 :> A @@ a2 :> A @@ b1 :> B
MCMaxLog == A :> 1 @@ B :> 9
NeverFull == [w \in Writers |-> 9]

World(one, batch, sibling, peer, mortal, short) ==
    [does |-> t1 :> one @@ t2 :> batch @@ t3 :> sibling @@ t4 :> peer,
     mortal |-> mortal,
     lifetimes |-> [t \in Threads |-> IF t \in short THEN {0} ELSE {2}]]

\* Two siblings, of which one clears and the other rewrites, or one deletes,
\* rewrites and may die; a process under batch passes; one with a peer, and one
\* that consolidates beside a peer.
Siblings == World({"set", "clear"}, {}, {"set", "compact", "consolidate"},
                  {}, {}, {t1})
Mortals == World({"set"}, {}, {"set", "delete", "compact", "consolidate"},
                 {}, {a2}, {t1})
Batched == [World({"set", "get"}, Batches, {}, {}, {}, {})
               EXCEPT !.lifetimes[t1] = {0, 2}]
Peers == World({"set", "get", "delete"}, {}, {}, {"set"}, {}, {t4})
Gathered == World({"set", "consolidate"}, {}, {}, {"set"}, {}, {t4})
MCWorlds == {Siblings, Mortals, Batched, Peers, Gathered}
PeerWorlds == {World({"set", "get", "delete", "compact"}, {}, {}, {"set"},
                     {}, {})}
ReaderWorlds == {World({"set", "get"}, {}, {"set", "get"}, {}, {}, {})}
KeySwaps == {k1 :> k1 @@ k2 :> k2, k1 :> k2 @@ k2 :> k1}

=============================================================================
