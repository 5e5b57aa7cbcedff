--------------------------- MODULE FirstWriteWins ---------------------------
(***************************************************************************)
(* What `cached` promises about the values it stores, whatever the callers *)
(* and the backend do: of the draws made under one latch, a later one      *)
(* never replaces an earlier one that can still be read.  Copies made by   *)
(* the migration of a fallback entry and losses (eviction) are outside the *)
(* promise.                                                                *)
(***************************************************************************)

CONSTANTS
    Keys, Values,
    Unreadable,   \* the values that no longer rehydrate
    Latches,      \* the latch tables: draws under one of them exclude another
    Missing, NoLatch

VARIABLES
    cell,   \* the value stored under each key
    drawn   \* the latch under which it was drawn, NoLatch for any other value

vars == <<cell, drawn>>

Init ==
    /\ cell \in [Keys -> Values \cup {Missing}]
    /\ drawn = [k \in Keys |-> NoLatch]

\* The first draw under latch s, or one that heals an unreadable value.
Draw(s, k, v) ==
    /\ cell[k] \in Unreadable \cup {Missing} \/ drawn[k] # s
    /\ cell' = [cell EXCEPT ![k] = v]
    /\ drawn' = [drawn EXCEPT ![k] = s]

Copy(k, v) ==
    /\ cell' = [cell EXCEPT ![k] = v]
    /\ drawn' = [drawn EXCEPT ![k] = NoLatch]

Lose(k) == Copy(k, Missing)

Next == \E k \in Keys :
    \/ Lose(k)
    \/ \E v \in Values : Copy(k, v) \/ \E s \in Latches : Draw(s, k, v)

Spec == Init /\ [][Next]_vars

=============================================================================
