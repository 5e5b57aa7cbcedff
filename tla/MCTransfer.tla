----------------------------- MODULE MCTransfer -----------------------------
(***************************************************************************)
(* A thread of one process stores twice, another of its threads makes any  *)
(* call there is, and a second process transfers the cache and clears it.  *)
(* The second value is as large as the limit, the first one is smaller     *)
(* than what was there before.                                             *)
(***************************************************************************)
EXTENDS Transfer, TLC

CONSTANTS w1, w2, any, x, e, b, i1, i2, k1, k2

MCInstanceOf == [c \in Calls |-> IF c = x THEN i2 ELSE i1]
MCAfter == [c \in Calls |-> IF c = w2 THEN {w1} ELSE {}]

Call(op, key, size) == [op |-> op, key |-> key, size |-> size]

MCDoes == [c \in Calls |->
    CASE c = w1 -> {Call("set", k1, 1)}
      [] c = w2 -> {Call("set", k2, 4)}
      [] c = x  -> {Call("clear", k1, 0)}
      [] OTHER  -> {Call("get", k1, 0), Call("set", k1, 3),
                    Call("delete", k1, 0), Call("nuke", k1, 0)}]

\* A large value under k1, with its key or in the older format.
MCInitFiles ==
    {[k \in Keys |-> IF k = k1 THEN [val |-> v, size |-> 3, used |-> 0]
                               ELSE NoFile] : v \in Earlier}

=============================================================================
