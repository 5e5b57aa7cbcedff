--------------------------- MODULE MCConsolidation ---------------------------
(***************************************************************************)
(* Small directories for Consolidation.  me consolidates, gone is named in *)
(* prune_writer_ids, peer is neither, and copy is a conflict copy; in the  *)
(* sorted directory our log comes first.  X, Y and Z are three values.     *)
(***************************************************************************)
EXTENDS Consolidation, TLC

CONSTANTS me, gone, peer, copy, k1, k2, X, Y

MCRank == me :> 1 @@ copy :> 2 @@ gone :> 3 @@ peer :> 4
InPool(b) == [ns |-> Pool, blob |-> b]
InLegacy(w, b) == [ns |-> w, blob |-> b]
Rec(k, n, ref) == [key |-> k, time |-> n, dead |-> FALSE, ref |-> ref]

NoLogs == [l \in Logs |-> {}]
Filed(old) == [f \in Files |-> IF f \in old THEN "old" ELSE "absent"]
World(logs, old, late, files, faults) ==
    [log |-> logs @@ NoLogs, file |-> Filed(old),
     due |-> [logs |-> late @@ NoLogs, files |-> files, faults |-> faults]]

\* Values shared by several writers, one of them retired, which grows once
\* more; its value and that of the key it supersedes are in the pool.
Shared ==
    World(me :> {Rec(k1, 1, InPool(X))}
              @@ gone :> {Rec(k1, 2, InPool(Y)), Rec(k2, 1, InPool(X))},
          {InPool(X), InPool(Y)},
          gone :> {Rec(k2, 3, Inline)}, {}, FaultKinds)

\* A conflict copy that has come before a value it names.
Unsynced ==
    World(me :> {Rec(k1, 1, InPool(X))}
              @@ copy :> {Rec(k1, 2, InPool(Y)), Rec(k2, 3, Inline)},
          {InPool(X)}, <<>>, {InPool(Y)}, FaultKinds)

\* Our own log and that of a retired writer still name legacy files.
Legacy ==
    World(me :> {Rec(k1, 2, InLegacy(me, X))}
              @@ gone :> {Rec(k2, 3, InLegacy(gone, Y)), Rec(k1, 1, Inline)},
          {InLegacy(me, X), InLegacy(gone, Y), InPool(X)}, <<>>, {}, FaultKinds \ {"restat"})
SoundWorlds == {Shared, Unsynced, Legacy}

\* A retired writer with a legacy file that turns out to write again; the pool
\* holds the same value already.
Undead ==
    World(me :> {Rec(k1, 1, InPool(Y))}
              @@ gone :> {Rec(k2, 2, InLegacy(gone, Y))},
          {InPool(Y), InLegacy(gone, Y)}, gone :> {Rec(k1, 3, Inline)}, {}, {})
UndeadWorlds == {Undead}
=============================================================================
