--------------------------- MODULE MCSqliteCache ---------------------------
(***************************************************************************)
(* Two processes on one database of two keys: a thread of one stores,      *)
(* another reads or clears, a thread of the other does any call there is   *)
(* (MCSqliteCache.cfg); and a set beside a clear, in one process and with  *)
(* no fault and no crash (MCClearedSpill.cfg).                             *)
(*                                                                         *)
(* A value is small (1, inline) or large (3, spilled); two large ones are  *)
(* more than the limit, a large and a small one are exactly the limit.     *)
(***************************************************************************)
EXTENDS SqliteCache, TLC

CONSTANTS c1, c2, c3, e, i1, i2, k1, k2

MCInstanceOf == [c \in Calls |-> IF c = c3 THEN i2 ELSE i1]

Call(op, key, size, life) ==
    [op |-> op, key |-> key, size |-> size, life |-> life]
Sets(K, sizes, lives) ==
    {Call("set", k, size, life) : k \in K, size \in sizes, life \in lives}
Reads(op, K) == {Call(op, k, 0, Forever) : k \in K}

MCDoes == [c \in Calls |->
    CASE c = c1 -> Sets(Keys, {3}, {Forever})
                     \cup Sets({k1}, {1}, {0, Forever})
      [] c = c2 -> Reads("get", {k1}) \cup Reads("clear", {k1})
      [] OTHER  -> Sets(Keys, {3}, {Forever}) \cup Reads("get", {k1})
                     \cup Reads("delete", {k1}) \cup Reads("expire", {k1})]

\* A large value that e stored under k1.
OldRow(life) == [id |-> 1, val |-> e, size |-> 3, file |-> e, stored |-> 0,
                 used |-> 0, dies |-> life]
MCInitRows ==
    {[k \in Keys |-> IF k = k1 THEN row ELSE NoRow] :
        row \in {OldRow(0), OldRow(Forever)}}

SpillVersusClear ==
    [c \in Calls |-> IF c = c1 THEN Sets({k1}, {3}, {Forever})
                     ELSE Reads("clear", {k1})]
NoRows == {[k \in Keys |-> NoRow]}

=============================================================================
