------------------------ MODULE AsyncInflightLatch ------------------------
(***************************************************************************)
(* _AsyncInflightLatch of src/emboss/_cached.py: the latch table of one    *)
(* event loop.  Coroutines interleave only at awaits, so a stretch of      *)
(* `hold` between two awaits is one action.  The asyncio.Lock inside each  *)
(* slot is modelled as CPython implements it: a FIFO queue of futures, a   *)
(* wake-up that is only a promise until the woken task runs, and a waiter  *)
(* that may be cancelled before or after it was woken.                     *)
(***************************************************************************)
EXTENDS Naturals, FiniteSets, Sequences, SequencesExt

CONSTANTS
    Calls,      \* activations of `hold` (bounds the number of calls)
    Tasks,
    Keys,
    Slots,      \* the _AsyncSlot objects the heap can hold at once
    TaskOf,     \* the task that runs each call
    Nests,      \* <<k, j>>: a body holding k may await a function of key j
    NoSlot, NoTask, NoCall, NoKey

ASSUME CallsAssumption == IsFiniteSet(Calls)
ASSUME TaskOfAssumption == TaskOf \in [Calls -> Tasks]
ASSUME NestsAssumption == Nests \subseteq Keys \X Keys
ASSUME NoneAssumption ==
    NoSlot \notin Slots /\ NoTask \notin Tasks
    /\ NoCall \notin Calls /\ NoKey \notin Keys

VARIABLES
    pc,      \* "held" and "pass" are the two `yield`s of `hold`
    key, caller, slot, fut,   \* locals of each call
    table,   \* the dict of this loop: key -> slot, NoSlot when absent
    slots    \* the fields of each _AsyncSlot and of its asyncio.Lock

frame == <<key, caller, slot, fut>>
vars == <<pc, frame, table, slots>>

NewSlot == [refs |-> 0, holder |-> NoTask, locked |-> FALSE, waiters |-> <<>>]

Active(c) == pc[c] \in {"queued", "held", "pass"}
InBody(c) == pc[c] \in {"held", "pass"}
Running(c) == Active(c) /\ \A d \in Calls : Active(d) => caller[d] # c

\* Task t may await a call on k: from its top level, or from a body it is in.
MayCall(t, from, k) ==
    IF from = NoCall
    THEN \A d \in Calls : Active(d) => TaskOf[d] # t
    ELSE /\ TaskOf[from] = t
         /\ InBody(from)
         /\ Running(from)
         /\ <<key[from], k>> \in Nests

Init ==
    /\ pc = [c \in Calls |-> "idle"]
    /\ key = [c \in Calls |-> NoKey]
    /\ caller = [c \in Calls |-> NoCall]
    /\ slot = [c \in Calls |-> NoSlot]
    /\ fut = [c \in Calls |-> "none"]
    /\ table = [k \in Keys |-> NoSlot]
    /\ slots = [s \in Slots |-> NewSlot]

-----------------------------------------------------------------------------
\* asyncio.Lock, on the record of a slot.
Free(s) ==
    ~s.locked /\ \A i \in DOMAIN s.waiters : fut[s.waiters[i]] = "cancelled"

\* _wake_up_first on a queue: the future of its head is resolved if pending.
WakeFirst(f, waiters) ==
    IF waiters # <<>> /\ f[Head(waiters)] = "pending"
    THEN [f EXCEPT ![Head(waiters)] = "woken"]
    ELSE f

\* The slot of a key, and what a new one looks like.
Fresh(s) ==
    /\ \A k \in Keys : table[k] # s
    /\ \A c \in Calls : Active(c) => slot[c] # s

Locate(k, s) == table[k] = s \/ (table[k] = NoSlot /\ Fresh(s))
Fields(k, s) == IF table[k] = s THEN slots[s] ELSE NewSlot

\* A call of `hold` up to its first suspension: one of Pass, Take and Queue.
Enter(c, from, k, s) ==
    /\ pc[c] = "idle"
    /\ MayCall(TaskOf[c], from, k)
    /\ Locate(k, s)
    /\ table' = [table EXCEPT ![k] = s]
    /\ key' = [key EXCEPT ![c] = k]
    /\ caller' = [caller EXCEPT ![c] = from]
    /\ slot' = [slot EXCEPT ![c] = s]

\* slot.holder is me: the task is inside the key already.
Pass(c, from, k, s) ==
    /\ Enter(c, from, k, s)
    /\ Fields(k, s).holder = TaskOf[c]
    /\ pc' = [pc EXCEPT ![c] = "pass"]
    /\ UNCHANGED <<slots, fut>>

\* acquire() of a free lock does not suspend.
Take(c, from, k, s) ==
    /\ Enter(c, from, k, s)
    /\ Fields(k, s).holder # TaskOf[c]
    /\ Free(Fields(k, s))
    /\ slots' = [slots EXCEPT ![s] = [Fields(k, s) EXCEPT
                    !.refs = @ + 1, !.locked = TRUE, !.holder = TaskOf[c]]]
    /\ pc' = [pc EXCEPT ![c] = "held"]
    /\ UNCHANGED fut

Queue(c, from, k, s) ==
    /\ Enter(c, from, k, s)
    /\ Fields(k, s).holder # TaskOf[c]
    /\ ~Free(Fields(k, s))
    /\ slots' = [slots EXCEPT ![s] = [Fields(k, s) EXCEPT
                    !.refs = @ + 1, !.waiters = Append(@, c)]]
    /\ fut' = [fut EXCEPT ![c] = "pending"]
    /\ pc' = [pc EXCEPT ![c] = "queued"]

\* The woken task runs: it takes the lock without looking at it again.
Resume(c) ==
    /\ pc[c] = "queued" /\ fut[c] = "woken"
    /\ slots' = [slots EXCEPT ![slot[c]] = [slots[slot[c]] EXCEPT
                    !.waiters = RemoveFirst(@, c),
                    !.locked = TRUE, !.holder = TaskOf[c]]]
    /\ fut' = [fut EXCEPT ![c] = "none"]
    /\ pc' = [pc EXCEPT ![c] = "held"]
    /\ UNCHANGED <<key, caller, slot, table>>

\* task.cancel() on a waiter, before or after its future was resolved.
Cancel(c) ==
    /\ pc[c] = "queued"
    /\ \/ fut[c] = "pending" /\ fut' = [fut EXCEPT ![c] = "cancelled"]
       \/ fut[c] = "woken" /\ fut' = [fut EXCEPT ![c] = "doomed"]
    /\ UNCHANGED <<pc, key, caller, slot, table, slots>>

\* Defect: the slot goes with the first call that leaves, whoever waits.
DropSlot(c, s, rec) ==
    /\ slots' = [slots EXCEPT ![s] = [rec EXCEPT !.refs = @ - 1]]
    /\ table' = [table EXCEPT ![key[c]] = NoSlot]

\* The outer `finally`: drop the reference, and the slot with its last one.
DropRef(c, s, rec) ==
    /\ slots' = [slots EXCEPT ![s] = [rec EXCEPT !.refs = @ - 1]]
    /\ table' = IF rec.refs = 1 /\ table[key[c]] = s
                THEN [table EXCEPT ![key[c]] = NoSlot]
                ELSE table

Return(c) ==
    /\ pc' = [pc EXCEPT ![c] = "done"]
    /\ key' = [key EXCEPT ![c] = NoKey]
    /\ caller' = [caller EXCEPT ![c] = NoCall]
    /\ slot' = [slot EXCEPT ![c] = NoSlot]

\* Defect: the acquire sits outside the refcount's `finally`.
UnwindKeepsRef(c) ==
    /\ pc[c] = "queued" /\ fut[c] \in {"cancelled", "doomed"}
    /\ LET rec == [slots[slot[c]] EXCEPT !.waiters = RemoveFirst(@, c)]
           left == [fut EXCEPT ![c] = "none"]
       IN  /\ fut' = IF rec.locked THEN left ELSE WakeFirst(left, rec.waiters)
           /\ slots' = [slots EXCEPT ![slot[c]] = rec]
    /\ Return(c)
    /\ UNCHANGED table

\* Defect: a cancelled waiter does not pass its wake-up on.
UnwindSilently(c) ==
    /\ pc[c] = "queued" /\ fut[c] \in {"cancelled", "doomed"}
    /\ fut' = [fut EXCEPT ![c] = "none"]
    /\ LET rec == [slots[slot[c]] EXCEPT !.waiters = RemoveFirst(@, c)]
       IN  DropRef(c, slot[c], rec)
    /\ Return(c)

\* The cancelled waiter runs: CancelledError out of acquire(), then the
\* outer `finally`, without a suspension in between.
Unwind(c) ==
    /\ pc[c] = "queued" /\ fut[c] \in {"cancelled", "doomed"}
    /\ LET rec == [slots[slot[c]] EXCEPT !.waiters = RemoveFirst(@, c)]
           left == [fut EXCEPT ![c] = "none"]
       IN  /\ fut' = IF rec.locked THEN left ELSE WakeFirst(left, rec.waiters)
           /\ DropRef(c, slot[c], rec)
    /\ Return(c)

\* Defect: the holder is not reset on the way out.
LeaveKeepsHolder(c) ==
    /\ pc[c] = "held" /\ Running(c)
    /\ LET rec == [slots[slot[c]] EXCEPT !.locked = FALSE]
       IN  /\ fut' = WakeFirst(fut, rec.waiters)
           /\ DropRef(c, slot[c], rec)
    /\ Return(c)

\* Defect: a body that raises leaves without releasing the lock.
LeaveLocked(c) ==
    /\ pc[c] = "held" /\ Running(c)
    /\ DropRef(c, slot[c], [slots[slot[c]] EXCEPT !.holder = NoTask])
    /\ Return(c)
    /\ UNCHANGED fut

\* The body returns, raises or is cancelled: both `finally`s in one go.
Leave(c) ==
    /\ pc[c] = "held" /\ Running(c)
    /\ LET rec == [slots[slot[c]] EXCEPT !.holder = NoTask, !.locked = FALSE]
       IN  /\ fut' = WakeFirst(fut, rec.waiters)
           /\ DropRef(c, slot[c], rec)
    /\ Return(c)

\* Defect: the re-entrant path drops a reference it never took.
LeavePassDrops(c) ==
    /\ pc[c] = "pass" /\ Running(c)
    /\ DropRef(c, slot[c], slots[slot[c]])
    /\ Return(c)
    /\ UNCHANGED fut

LeavePass(c) ==
    /\ pc[c] = "pass" /\ Running(c)
    /\ Return(c)
    /\ UNCHANGED <<fut, table, slots>>

\* Every call has ended; stuttering here is not a deadlock.
Finished ==
    /\ \A c \in Calls : pc[c] = "done"
    /\ UNCHANGED vars

Call(c) == \E from \in Calls \cup {NoCall}, k \in Keys, s \in Slots :
    Pass(c, from, k, s) \/ Take(c, from, k, s) \/ Queue(c, from, k, s)

Next ==
    \/ \E c \in Calls : Call(c) \/ Resume(c) \/ Cancel(c) \/ Unwind(c)
                           \/ Leave(c) \/ LeavePass(c)
    \/ Finished

\* The loop runs every task that is ready, and the wrapped coroutine ends.
Fairness == \A c \in Calls : /\ WF_vars(Resume(c)) /\ WF_vars(Unwind(c))
                             /\ WF_vars(Leave(c)) /\ WF_vars(LeavePass(c))

Spec == Init /\ [][Next]_vars
FairSpec == Spec /\ Fairness

-----------------------------------------------------------------------------
SlotType == [refs : Nat, holder : Tasks \cup {NoTask}, locked : BOOLEAN,
             waiters : Seq(Calls)]

\* Every variable has its type.
TypeOK ==
    /\ pc \in [Calls -> {"idle", "queued", "held", "pass", "done"}]
    /\ key \in [Calls -> Keys \cup {NoKey}]
    /\ caller \in [Calls -> Calls \cup {NoCall}]
    /\ slot \in [Calls -> Slots \cup {NoSlot}]
    /\ fut \in [Calls -> {"none", "pending", "woken", "cancelled", "doomed"}]
    /\ table \in [Keys -> Slots \cup {NoSlot}]
    /\ slots \in [Slots -> SlotType]

\* Two tasks are never inside one key together, although a woken task takes
\* the lock without re-checking it and a cancelled one may sit ahead of it.
MutualExclusion ==
    \A c, d \in Calls : InBody(c) /\ InBody(d) /\ key[c] = key[d]
        => TaskOf[c] = TaskOf[d]

\* A key has a slot exactly while a call is queued on it or inside it, and the
\* slot counts those calls: a cancelled waiter drops its reference ("or the
\* slot outlives every holder") and no slot is dropped under a waiter.
SlotsExact ==
    \A k \in Keys :
        LET using == {c \in Calls : pc[c] \in {"queued", "held"} /\ key[c] = k}
        IN  /\ table[k] = NoSlot <=> using = {}
            /\ \A c \in using : slot[c] = table[k]
            /\ table[k] # NoSlot => slots[table[k]].refs = Cardinality(using)

\* A free lock with waiters has one that will run and pass it on: neither a
\* waiter cancelled after its wake-up nor a release that found a cancelled
\* head loses the wake-up.
NoLostWakeup ==
    \A k \in Keys : table[k] # NoSlot =>
        LET s == slots[table[k]]
        IN  ~s.locked /\ s.waiters # <<>> => fut[Head(s.waiters)] # "pending"

\* Every queued call ends, with its turn or with its cancellation.
EveryWaitEnds == \A c \in Calls : pc[c] = "queued" ~> pc[c] = "done"

\* The asyncio latch implements the same per-key mutex as the thread latch.
Inside == [k \in Keys |-> {c \in Calls : InBody(c) /\ key[c] = k}]
Mutex == INSTANCE KeyMutex WITH PartyOf <- TaskOf, inside <- Inside
ImplementsKeyMutex == Mutex!Spec

=============================================================================
