------------------------------ MODULE KeyMutex ------------------------------
(***************************************************************************)
(* What an in-flight latch promises to the code that holds it: the calls   *)
(* inside one key's critical section all belong to one party (a thread or  *)
(* an asyncio task), so a party may re-enter its own key and every other   *)
(* party waits.  A fork leaves the child with nobody inside any key.       *)
(*                                                                         *)
(* InflightLatch (threads) and AsyncInflightLatch (asyncio tasks) are both *)
(* shown to implement this module; CachedCall uses it as its latch.        *)
(***************************************************************************)

CONSTANTS
    Calls,      \* activations of `hold`
    Keys,       \* the keys that are latched
    PartyOf     \* [Calls -> parties]: the thread or task running a call

VARIABLE inside \* [Keys -> SUBSET Calls]: the calls holding each key

Init == inside = [k \in Keys |-> {}]

MayEnter(c, k) ==
    /\ c \notin inside[k]
    /\ \A d \in inside[k] : PartyOf[d] = PartyOf[c]

Enter(c, k) ==
    /\ MayEnter(c, k)
    /\ inside' = [inside EXCEPT ![k] = @ \cup {c}]

Leave(c, k) ==
    /\ c \in inside[k]
    /\ inside' = [inside EXCEPT ![k] = @ \ {c}]

Abandon == inside' = [k \in Keys |-> {}]

Next ==
    \/ \E c \in Calls, k \in Keys : Enter(c, k) \/ Leave(c, k)
    \/ Abandon

Spec == Init /\ [][Next]_inside

=============================================================================
