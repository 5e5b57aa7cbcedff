--------------------------- MODULE InflightLatch ---------------------------
(***************************************************************************)
(* _InflightLatch of src/emboss/_cached.py: the per-key compute-once latch *)
(* of the threads of one process.  A call of `hold` registers in the       *)
(* refcounted table, acquires the key's RLock, runs the body (which may    *)
(* hold further keys), releases, and drops its reference.                  *)
(*                                                                         *)
(* The two sections under `self._guard` are straight-line code that never  *)
(* blocks while the guard is held, so each of them is one action.          *)
(***************************************************************************)
EXTENDS Naturals, FiniteSets

CONSTANTS
    Calls,        \* activations of `hold` (bounds the number of calls)
    Threads,
    Keys,
    Locks,        \* the RLock objects the heap can hold at once
    ThreadOf,     \* the thread that runs each call
    MainThread,   \* the only thread KeyboardInterrupt is delivered to
    Nests,        \* <<k, j>>: a body holding k may call a function of key j
    NoLock, NoThread, NoCall, NoKey

ASSUME CallsAssumption == IsFiniteSet(Calls)
ASSUME ThreadOfAssumption == ThreadOf \in [Calls -> Threads]
ASSUME NestsAssumption == Nests \subseteq Keys \X Keys
ASSUME NoneAssumption ==
    NoLock \notin Locks /\ NoThread \notin Threads
    /\ NoCall \notin Calls /\ NoKey \notin Keys

VARIABLES
    pc,        \* where each call is in `hold`
    key,       \* its argument
    caller,    \* the call whose body made it, NoCall for an outermost one
    lock,      \* its local variable `lock`
    tableLock, \* self._locks[k][0], NoLock when k is not in the table
    refs,      \* self._locks[k][1], 0 when k is not in the table
    owner,     \* the thread owning each RLock
    count      \* and its recursion count

table == <<tableLock, refs>>
rlock == <<owner, count>>
frame == <<key, caller, lock>>
vars == <<pc, frame, table, rlock>>

\* A call is "idle" before it is made and "done" once it left (or vanished).
Active(c) == pc[c] \in {"wait", "held", "drop"}
InFlight(k) == {c \in Calls : Active(c) /\ key[c] = k}
Holding(l) == {c \in Calls : pc[c] = "held" /\ lock[c] = l}

\* The innermost frame of its thread: the only one that executes.
Running(c) == Active(c) /\ \A d \in Calls : Active(d) => caller[d] # c

\* Thread t can make a call on k: from the top level, or from the body of the
\* call it is inside of.
MayCall(t, from, k) ==
    IF from = NoCall
    THEN \A d \in Calls : Active(d) => ThreadOf[d] # t
    ELSE /\ ThreadOf[from] = t
         /\ pc[from] = "held"
         /\ Running(from)
         /\ <<key[from], k>> \in Nests

Init ==
    /\ pc = [c \in Calls |-> "idle"]
    /\ key = [c \in Calls |-> NoKey]
    /\ caller = [c \in Calls |-> NoCall]
    /\ lock = [c \in Calls |-> NoLock]
    /\ tableLock = [k \in Keys |-> NoLock]
    /\ refs = [k \in Keys |-> 0]
    /\ owner = [l \in Locks |-> NoThread]
    /\ count = [l \in Locks |-> 0]

-----------------------------------------------------------------------------
\* A lock object nobody can reach: what threading.RLock() may return.
Fresh(l) ==
    /\ \A k \in Keys : tableLock[k] # l
    /\ \A c \in Calls : Active(c) => lock[c] # l

\* The guarded section that enters the table, creating the lock if need be.
Register(c, from, k, l) ==
    /\ pc[c] = "idle"
    /\ MayCall(ThreadOf[c], from, k)
    /\ \/ /\ tableLock[k] = l
          /\ UNCHANGED rlock
       \/ /\ tableLock[k] = NoLock
          /\ Fresh(l)
          /\ owner' = [owner EXCEPT ![l] = NoThread]
          /\ count' = [count EXCEPT ![l] = 0]
    /\ tableLock' = [tableLock EXCEPT ![k] = l]
    /\ refs' = [refs EXCEPT ![k] = @ + 1]
    /\ key' = [key EXCEPT ![c] = k]
    /\ caller' = [caller EXCEPT ![c] = from]
    /\ lock' = [lock EXCEPT ![c] = l]
    /\ pc' = [pc EXCEPT ![c] = "wait"]

\* Defect: a plain Lock in place of the RLock.
CanAcquireOnce(c) == owner[lock[c]] = NoThread

\* lock.acquire(): RLock semantics, re-entrant for the owning thread.
CanAcquire(c) == owner[lock[c]] \in {NoThread, ThreadOf[c]}

Acquire(c) ==
    /\ pc[c] = "wait"
    /\ CanAcquire(c)
    /\ owner' = [owner EXCEPT ![lock[c]] = ThreadOf[c]]
    /\ count' = [count EXCEPT ![lock[c]] = @ + 1]
    /\ pc' = [pc EXCEPT ![c] = "held"]
    /\ UNCHANGED <<frame, table>>

\* Defect: the acquire sits outside the refcount's `finally`.
InterruptKeepsRef(c) ==
    /\ pc[c] = "wait"
    /\ ThreadOf[c] = MainThread
    /\ pc' = [pc EXCEPT ![c] = "done"]
    /\ UNCHANGED <<frame, table, rlock>>

\* KeyboardInterrupt out of a blocked acquire, on the main thread.
Interrupt(c) ==
    /\ pc[c] = "wait"
    /\ ThreadOf[c] = MainThread
    /\ pc' = [pc EXCEPT ![c] = "drop"]
    /\ UNCHANGED <<frame, table, rlock>>

\* Defect: the release of a nested call frees the lock.
LeaveFrees(c) ==
    /\ pc[c] = "held"
    /\ Running(c)
    /\ count' = [count EXCEPT ![lock[c]] = 0]
    /\ owner' = [owner EXCEPT ![lock[c]] = NoThread]
    /\ pc' = [pc EXCEPT ![c] = "drop"]
    /\ UNCHANGED <<frame, table>>

\* The body returns or raises, and the inner `finally` releases the lock.
Leave(c) ==
    /\ pc[c] = "held"
    /\ Running(c)
    /\ count' = [count EXCEPT ![lock[c]] = @ - 1]
    /\ owner' = [owner EXCEPT ![lock[c]] =
                    IF count[lock[c]] = 1 THEN NoThread ELSE @]
    /\ pc' = [pc EXCEPT ![c] = "drop"]
    /\ UNCHANGED <<frame, table>>

\* Defect: the first call to leave drops the entry, whoever waits.
DropEntry(c) ==
    /\ pc[c] = "drop"
    /\ tableLock' = [tableLock EXCEPT ![key[c]] = NoLock]
    /\ refs' = [refs EXCEPT ![key[c]] = 0]
    /\ pc' = [pc EXCEPT ![c] = "done"]
    /\ key' = [key EXCEPT ![c] = NoKey]
    /\ caller' = [caller EXCEPT ![c] = NoCall]
    /\ lock' = [lock EXCEPT ![c] = NoLock]
    /\ UNCHANGED rlock

\* The guarded section of the outer `finally`; the frame and its locals go.
Drop(c) ==
    /\ pc[c] = "drop"
    /\ tableLock' = IF refs[key[c]] = 1
                    THEN [tableLock EXCEPT ![key[c]] = NoLock]
                    ELSE tableLock
    /\ refs' = [refs EXCEPT ![key[c]] = @ - 1]
    /\ pc' = [pc EXCEPT ![c] = "done"]
    /\ key' = [key EXCEPT ![c] = NoKey]
    /\ caller' = [caller EXCEPT ![c] = NoCall]
    /\ lock' = [lock EXCEPT ![c] = NoLock]
    /\ UNCHANGED rlock

\* Defect: the child keeps the parent's table.
NoReset == UNCHANGED table

\* reset(): a fresh guard and a fresh, empty table.
Reset ==
    /\ tableLock' = [k \in Keys |-> NoLock]
    /\ refs' = [k \in Keys |-> 0]

\* Defect: frames of the parent go on to unwind in the child.
ForkKeepsFrames ==
    /\ \E c \in Calls : Active(c)
    /\ Reset
    /\ UNCHANGED <<pc, frame, rlock>>

\* The process forks and the behaviour goes on in the child.  The frames of
\* the parent's threads do not exist there (the child of `multiprocessing`
\* never returns into them), the locks are in the state the fork caught, and
\* the at-fork hook resets the table.
Fork ==
    /\ \E c \in Calls : Active(c)
    /\ pc' = [c \in Calls |-> IF Active(c) THEN "done" ELSE pc[c]]
    /\ key' = [c \in Calls |-> NoKey]
    /\ caller' = [c \in Calls |-> NoCall]
    /\ lock' = [c \in Calls |-> NoLock]
    /\ Reset
    /\ UNCHANGED rlock

\* Every call has ended; stuttering here is not a deadlock.
Finished ==
    /\ \A c \in Calls : pc[c] = "done"
    /\ UNCHANGED vars

Call(c) == \E from \in Calls \cup {NoCall}, k \in Keys, l \in Locks :
                Register(c, from, k, l)

Next ==
    \/ \E c \in Calls : Call(c) \/ Acquire(c) \/ Interrupt(c)
                           \/ Leave(c) \/ Drop(c)
    \/ Fork
    \/ Finished

\* Threads are scheduled, an acquire of a free lock returns, and the wrapped
\* function terminates.  Nobody owes a first call, an interrupt or a fork.
Fairness == \A c \in Calls : WF_vars(Acquire(c)) /\ WF_vars(Leave(c))
                                /\ WF_vars(Drop(c))

Spec == Init /\ [][Next]_vars
FairSpec == Spec /\ Fairness

-----------------------------------------------------------------------------
\* Every variable has its type.
TypeOK ==
    /\ pc \in [Calls -> {"idle", "wait", "held", "drop", "done"}]
    /\ key \in [Calls -> Keys \cup {NoKey}]
    /\ caller \in [Calls -> Calls \cup {NoCall}]
    /\ lock \in [Calls -> Locks \cup {NoLock}]
    /\ tableLock \in [Keys -> Locks \cup {NoLock}]
    /\ refs \in [Keys -> Nat]
    /\ owner \in [Locks -> Threads \cup {NoThread}]
    /\ count \in [Locks -> Nat]

\* Two threads are never inside one key's `hold` body together, whatever lock
\* objects the table has dropped and re-created in between ("a concurrent
\* caller of the same key waits").
MutualExclusion ==
    \A c, d \in Calls :
        pc[c] = "held" /\ pc[d] = "held" /\ key[c] = key[d]
            => ThreadOf[c] = ThreadOf[d]

\* The table holds exactly the keys in flight, each with one reference per
\* call between its two guarded sections: an entry is neither dropped under a
\* waiter nor left behind by an interrupted one or by a fork ("the table is
\* bounded by the number of keys in flight, not the number ever seen").
TableExact ==
    \A k \in Keys :
        /\ refs[k] = Cardinality(InFlight(k))
        /\ tableLock[k] = NoLock <=> InFlight(k) = {}

\* A thread inside a key that calls the same key again never waits for itself
\* ("hits the same RecursionError it did before, not a deadlock").
ReentryNeverWaits ==
    \A c, d \in Calls :
        (/\ pc[c] = "wait" /\ pc[d] = "held"
         /\ key[c] = key[d] /\ ThreadOf[c] = ThreadOf[d])
            => CanAcquire(c)

\* Every call that waits for its key ends, also when the process forked with
\* the key latched ("the child's first call on that key would wait forever").
EveryWaitEnds == \A c \in Calls : pc[c] = "wait" ~> pc[c] = "done"

\* The latch implements the per-key mutex: holding the RLock that the call
\* found in the table is being inside the key.
Inside == [k \in Keys |-> {c \in Calls : pc[c] = "held" /\ key[c] = k}]
Mutex == INSTANCE KeyMutex WITH PartyOf <- ThreadOf, inside <- Inside
ImplementsKeyMutex == Mutex!Spec

=============================================================================
