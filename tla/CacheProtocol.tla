--------------------------- MODULE CacheProtocol ---------------------------
(***************************************************************************)
(* What a backend promises to `cached`, whatever runs concurrently: a key  *)
(* is one cell.  A `get` answers the value that was in the cell at one     *)
(* moment of the call, or a miss; a `set` lands at one moment, once, or    *)
(* not at all; entries may be lost (eviction, expiry, delete, clear), and  *)
(* any call may raise or die with its process, a `set` also after it has   *)
(* landed.  No call ever answers a value that was overwritten before it    *)
(* began, that another key holds, or that a failed `set` left behind.      *)
(***************************************************************************)

EXTENDS Functions

CONSTANTS
    Calls, Keys,
    Earlier,   \* the values stored before any of the calls
    Empty,     \* no entry
    Pending    \* no outcome yet

VARIABLES
    cell,      \* the entry of each key: a value, and whether it may expire
    outcome    \* what each call has come to

vars == <<cell, outcome>>

Init ==
    /\ cell \in [Keys -> [val : Earlier, mortal : BOOLEAN] \cup {Empty}]
    /\ outcome = [c \in Calls |-> Pending]

Come(c, o) == outcome[c] = Pending /\ outcome' = [outcome EXCEPT ![c] = o]

Get(c, k) ==
    /\ \/ cell[k] # Empty /\ Come(c, cell[k].val)
       \/ (cell[k] = Empty \/ cell[k].mortal) /\ Come(c, "miss")
    /\ UNCHANGED cell

\* Entries of the keys K may be lost, to make room or to remove them.
Lose(K) == \A k \in K : cell'[k] \in {cell[k], Empty}

\* The value of a call is the call itself; it may itself be lost at once.
Put(c, k) ==
    /\ Come(c, "done")
    /\ cell' \in [Keys -> [val : Calls \cup Earlier, mortal : BOOLEAN]
                              \cup {Empty}]
    /\ cell'[k] = Empty \/ cell'[k].val = c
    /\ Lose(Keys \ {k})

\* delete, clear, expire.
Remove(c) ==
    /\ Come(c, "done")
    /\ cell' \in [Keys -> Range(cell) \cup {Empty}] /\ Lose(Keys)

Evict ==
    /\ cell' \in [Keys -> Range(cell) \cup {Empty}] /\ Lose(Keys)
    /\ UNCHANGED outcome

Fail ==
    /\ outcome' \in [Calls -> Range(outcome) \cup {"raised", "killed"}]
    /\ \A c \in Calls : outcome'[c] \in {outcome[c], "raised", "killed"}
    /\ UNCHANGED cell

Next ==
    \/ Fail
    \/ Evict
    \/ \E c \in Calls : Remove(c) \/ \E k \in Keys : Get(c, k) \/ Put(c, k)

Spec == Init /\ [][Next]_vars

=============================================================================
