----------------------------- MODULE CachedCall -----------------------------
(***************************************************************************)
(* The `cached` wrapper of src/emboss/_cached.py: calls of one function on *)
(* one argument tuple, made by the threads and tasks of several processes  *)
(* that share a cache.  A call probes the cache unlatched (migrating a     *)
(* fallback hit), and on a miss takes its key's latch, re-checks, draws a  *)
(* value by running the function, and settles first-write-wins.            *)
(*                                                                         *)
(* The cache is what CacheProtocol promises: `get` and `set` of one key    *)
(* are atomic, either may raise, a `set` also after it has stored, and an  *)
(* entry may be lost.  The latch is the mutex that both latches implement. *)
(* The value a call draws is the call itself: no two draws are equal.      *)
(***************************************************************************)
EXTENDS Naturals, Sequences, FiniteSets

CONSTANTS
    Calls,
    Scopes,     \* one per latch table: a process, or an event loop of one
    Processes,
    Keys,
    Loops,      \* the scopes that are event loops
    ScopeOf,    \* the scope each call runs in
    ProcessOf,  \* the process of each scope
    KeyOf,      \* the current key of the code each call runs
    AcceptOf,   \* its fallback keys: also_accept, then the implicit identity,
                \* less the current key, which _lookup skips among them
    Sealed,     \* the calls made in cache-only mode
    Preloads,   \* values stored before any of the calls
    Drifted,    \* the values that raise _SchemaDrift when decoded
    InitStores, \* the stores the calls may find
    Volatile,   \* the keys the backend may evict
    Mortal,     \* the processes that may die
    Missing, NoAuthor

Values == Calls \cup Preloads
Failures == {"CacheMiss", "raised", "killed"}

ASSUME ScopesAssumption ==
    ScopeOf \in [Calls -> Scopes] /\ ProcessOf \in [Scopes -> Processes]
ASSUME KeysAssumption ==
    /\ KeyOf \in [Calls -> Keys]
    /\ \A c \in Calls : AcceptOf[c] \in Seq(Keys \ {KeyOf[c]})
ASSUME LoopsAssumption == Loops \subseteq Scopes
ASSUME VolatileAssumption == Volatile \subseteq Keys

\* The key of a call stands for its function: under one latch, one key has one
\* list of fallback keys.
ASSUME FunctionsAssumption ==
    \A c, d \in Calls :
        ScopeOf[c] = ScopeOf[d] /\ KeyOf[c] = KeyOf[d]
            => AcceptOf[c] = AcceptOf[d]

\* A draw is a new value, and it can be decoded by the code that drew it.
ASSUME ValuesAssumption ==
    /\ Drifted \subseteq Preloads /\ Calls \cap Preloads = {}
    /\ InitStores \subseteq [Keys -> Preloads \cup {Missing}]
    /\ Missing \notin Values \cup Failures /\ Values \cap Failures = {}
ASSUME AuthorsAssumption ==
    NoAuthor \notin Scopes \cup [scope : Scopes, how : {"draw", "copy"}]

VARIABLES
    pc,      \* where each call is
    at,      \* which key of its chain it reads next in _lookup
    hand,    \* the fallback hit it is about to copy forward
    answer,  \* what it returned or raised; Missing until then
    store,   \* the cache
    inside,  \* the latches: who is inside <<scope, key>>
    author,  \* history: the scope that wrote each entry, and how
    lost,    \* history: the keys evicted, or overwritten by a drifted copy
    warm,    \* history: the calls that began with a readable value in reach
    landed   \* history: the calls whose function ended with one in reach

local == <<pc, at, hand, answer>>
written == <<author, lost>>
history == <<written, warm, landed>>
vars == <<local, store, inside, history>>

Latch == INSTANCE KeyMutex WITH
    Keys <- Scopes \X Keys, PartyOf <- [c \in Calls |-> c]

LatchKey(c) == <<ScopeOf[c], KeyOf[c]>>
Process(c) == ProcessOf[ScopeOf[c]]

\* The keys _lookup reads, in order.
Chain(c) == <<KeyOf[c]>> \o AcceptOf[c]

Readable(v) == v \in Values \ Drifted

\* A task runs without interleaving on its loop until it next suspends: at
\* the latch, in the wrapped function, or between the wrapper and the await.
Suspended(c) == pc[c] \in {"idle", "enter", "draw", "end"}
Scheduled(c) == ScopeOf[c] \in Loops =>
    \A d \in Calls \ {c} : ScopeOf[d] = ScopeOf[c] => Suspended(d)

Init ==
    /\ pc = [c \in Calls |-> "idle"]
    /\ at = [c \in Calls |-> 1]
    /\ hand = [c \in Calls |-> Missing]
    /\ answer = [c \in Calls |-> Missing]
    /\ store \in InitStores
    /\ Latch!Init
    /\ author = [k \in Keys |-> NoAuthor]
    /\ lost = {}
    /\ warm = {}
    /\ landed = {}

-----------------------------------------------------------------------------
\* cache.set of key k by call c, drawn by it or copied forward.
Put(c, k, v, how) ==
    /\ store' = [store EXCEPT ![k] = v]
    /\ author' = [author EXCEPT ![k] = [scope |-> ScopeOf[c], how |-> how]]
    /\ lost' = IF Readable(v) THEN lost ELSE lost \cup {k}

Goto(c, label) ==
    /\ pc' = [pc EXCEPT ![c] = label]
    /\ at' = [at EXCEPT ![c] = 1]
    /\ hand' = [hand EXCEPT ![c] = Missing]

Return(c, a) == answer' = [answer EXCEPT ![c] = a]

Serving(c) == pc[c] \in {"probe", "recheck", "settle"}

\* _serve returned a value: the probe answers it, the latched path answers it
\* once it has left the latch.
Hit(c, v) ==
    /\ Return(c, v)
    /\ Goto(c, IF pc[c] = "probe" THEN "end" ELSE "leave")

\* _serve returned _MISSING: on to the latch, the function or the store; under
\* cache-only mode the re-check raises CacheMiss instead.
Miss(c) ==
    \/ pc[c] = "probe" /\ Goto(c, "enter") /\ UNCHANGED answer
    \/ pc[c] = "settle" /\ Goto(c, "store") /\ UNCHANGED answer
    \/ /\ pc[c] = "recheck" /\ c \notin Sealed
       /\ Goto(c, "draw") /\ UNCHANGED answer
    \/ /\ pc[c] = "recheck" /\ c \in Sealed
       /\ Goto(c, "leave") /\ Return(c, "CacheMiss")

\* _decode of what _lookup returned: a drifted value is a miss.
Decode(c, raw) ==
    \/ Readable(raw) /\ Hit(c, raw)
    \/ ~Readable(raw) /\ Miss(c)

\* The first entry of its chain that a call would find decodes.
InReach(c) == \E i \in DOMAIN Chain(c) :
    /\ Readable(store[Chain(c)[i]])
    /\ \A j \in 1 .. i - 1 : store[Chain(c)[j]] = Missing

Begin(c) ==
    /\ pc[c] = "idle"
    /\ Goto(c, "probe")
    /\ warm' = IF InReach(c) THEN warm \cup {c} ELSE warm
    /\ UNCHANGED <<answer, store, inside, written, landed>>

\* One cache.get of _lookup, and what follows it up to the next cache access;
\* when it raises, so does the call.
Read(c) ==
    /\ Serving(c) /\ hand[c] = Missing
    /\ LET raw == store[Chain(c)[at[c]]]
       IN  \/ /\ raw = Missing /\ at[c] < Len(Chain(c))
              /\ at' = [at EXCEPT ![c] = @ + 1]
              /\ UNCHANGED <<pc, hand, answer>>
           \/ raw = Missing /\ at[c] = Len(Chain(c)) /\ Miss(c)
           \/ raw # Missing /\ at[c] = 1 /\ Decode(c, raw)
           \/ /\ raw # Missing /\ at[c] > 1
              /\ hand' = [hand EXCEPT ![c] = raw]
              /\ UNCHANGED <<pc, at, answer>>
           \/ Hit(c, "raised")
    /\ UNCHANGED <<store, inside, history>>

\* Defect: a failed copy forward turns the hit into a miss.
MigrateOrMiss(c) ==
    /\ Serving(c) /\ hand[c] # Missing
    /\ \/ Put(c, KeyOf[c], hand[c], "copy") /\ Decode(c, hand[c])
       \/ UNCHANGED <<store, written>> /\ Miss(c)
    /\ UNCHANGED <<inside, warm, landed>>

\* The copy forward; a `set` that raises is logged and the hit still served.
Migrate(c) ==
    /\ Serving(c) /\ hand[c] # Missing
    /\ \/ Put(c, KeyOf[c], hand[c], "copy")
       \/ UNCHANGED <<store, written>>
    /\ Decode(c, hand[c])
    /\ UNCHANGED <<inside, warm, landed>>

\* Defect: the latch lets everybody in.
EnterUnlatched(c) ==
    /\ pc[c] = "enter"
    /\ inside' = [inside EXCEPT ![LatchKey(c)] = @ \cup {c}]
    /\ Goto(c, "recheck")
    /\ UNCHANGED <<answer, store, history>>

EnterLatch(c) ==
    /\ pc[c] = "enter"
    /\ Latch!Enter(c, LatchKey(c))
    /\ Goto(c, "recheck")
    /\ UNCHANGED <<answer, store, history>>

\* An interrupt, a cancellation or a timeout ends the wait for the latch.
GiveUp(c) ==
    /\ pc[c] = "enter"
    /\ Goto(c, "end") /\ Return(c, "raised")
    /\ UNCHANGED <<store, inside, history>>

\* Defect: the result is stored without re-reading the key.
DrawUnsettled(c) ==
    /\ pc[c] = "draw"
    /\ \/ Goto(c, "store") /\ UNCHANGED answer
       \/ Goto(c, "leave") /\ Return(c, "raised")
    /\ landed' = IF InReach(c) THEN landed \cup {c} ELSE landed
    /\ UNCHANGED <<store, inside, written, warm>>

\* Defect: a raising function does not release the latch.
DrawLeaksLatch(c) ==
    /\ pc[c] = "draw"
    /\ \/ Goto(c, "settle") /\ UNCHANGED answer
       \/ Goto(c, "end") /\ Return(c, "raised")
    /\ UNCHANGED <<store, inside, history>>

\* The wrapped function returns its draw, or raises (or is cancelled).
Draw(c) ==
    /\ pc[c] = "draw"
    /\ \/ Goto(c, "settle") /\ UNCHANGED answer
       \/ Goto(c, "leave") /\ Return(c, "raised")
    /\ landed' = IF InReach(c) THEN landed \cup {c} ELSE landed
    /\ UNCHANGED <<store, inside, written, warm>>

\* The cache.set of _settle; when it raises the caller sees the exception.
Store(c) ==
    /\ pc[c] = "store"
    /\ \/ Put(c, KeyOf[c], c, "draw") /\ (Return(c, c) \/ Return(c, "raised"))
       \/ UNCHANGED <<store, written>> /\ Return(c, "raised")
    /\ Goto(c, "leave")
    /\ UNCHANGED <<inside, warm, landed>>

LeaveLatch(c) ==
    /\ pc[c] = "leave"
    /\ Latch!Leave(c, LatchKey(c))
    /\ Goto(c, "end")
    /\ UNCHANGED <<answer, store, history>>

-----------------------------------------------------------------------------
\* The backend evicts an entry.
Evict(k) ==
    /\ store[k] # Missing
    /\ store' = [store EXCEPT ![k] = Missing]
    /\ author' = [author EXCEPT ![k] = NoAuthor]
    /\ lost' = lost \cup {k}
    /\ UNCHANGED <<local, inside, warm, landed>>

\* A process dies: its calls never return and its latch tables go with it.
Crash(p) ==
    LET dying == {c \in Calls : Process(c) = p /\ pc[c] \notin {"idle", "end"}}
    IN  /\ dying # {}
        /\ pc' = [c \in Calls |-> IF c \in dying THEN "end" ELSE pc[c]]
        /\ at' = [c \in Calls |-> IF c \in dying THEN 1 ELSE at[c]]
        /\ hand' = [c \in Calls |-> IF c \in dying THEN Missing ELSE hand[c]]
        /\ answer' = [c \in Calls |->
                         IF c \in dying THEN "killed" ELSE answer[c]]
        /\ inside' = [k \in Scopes \X Keys |-> inside[k] \ dying]
        /\ UNCHANGED <<store, history>>

\* Every call has ended; stuttering here is not a deadlock.
Finished ==
    /\ \A c \in Calls : pc[c] = "end"
    /\ UNCHANGED vars

Step(c) ==
    \/ Read(c) \/ Migrate(c) \/ EnterLatch(c) \/ Draw(c) \/ Store(c)
    \/ LeaveLatch(c)

Next ==
    \/ \E c \in Calls : Scheduled(c) /\ (Begin(c) \/ Step(c) \/ GiveUp(c))
    \/ \E k \in Volatile : Evict(k)
    \/ \E p \in Mortal : Crash(p)
    \/ Finished

\* While a call can go on, some call does: threads and tasks are scheduled,
\* the function ends, and the latch lets a waiter in (EveryWaitEnds of both).
Fairness == WF_vars(\E c \in Calls : Scheduled(c) /\ Step(c))

Spec == Init /\ [][Next]_vars
FairSpec == Spec /\ Fairness

-----------------------------------------------------------------------------
\* Every variable has its type, and a call is inside its latch exactly on the
\* latched path.
TypeOK ==
    /\ pc \in [Calls -> {"idle", "probe", "enter", "recheck", "draw",
                         "settle", "store", "leave", "end"}]
    /\ at \in [Calls -> Nat] /\ \A c \in Calls : at[c] \in DOMAIN Chain(c)
    /\ hand \in [Calls -> Preloads \cup Calls \cup {Missing}]
    /\ answer \in [Calls -> Values \cup Failures \cup {Missing}]
    /\ store \in [Keys -> Values \cup {Missing}]
    /\ inside = [l \in Scopes \X Keys |->
           {c \in Calls : LatchKey(c) = l
               /\ pc[c] \in {"recheck", "draw", "settle", "store", "leave"}}]
    /\ author \in [Keys -> [scope : Scopes, how : {"draw", "copy"}]
                              \cup {NoAuthor}]
    /\ lost \subseteq Keys
    /\ warm \subseteq Calls /\ landed \subseteq Calls

Superseded(k) ==
    /\ Readable(store[k]) /\ author[k] # NoAuthor
    /\ store'[k] # store[k] /\ store'[k] # Missing
    /\ author'[k].scope = author[k].scope

\* No step under a latch table replaces a readable value that was written under
\* the same table, which all threads of a process share, by draw or by copy
\* ("First-write-wins is exact within a process").
ExactWithinProcess == [][\A k \in Keys : ~Superseded(k)]_vars

\* An unlatched probe may copy a fallback value over anything once the key or a
\* fallback has lost its value, or a peer on older code has just written one.
Unsettled(k) ==
    \/ k \in lost
    \/ \E c \in Calls : KeyOf[c] = k /\ \E i \in 2 .. Len(Chain(c)) :
           Chain(c)[i] \in lost \/ author[Chain(c)[i]] # NoAuthor

\* The same until then: neither the latched re-read and `set`, nor the copy of
\* an old fallback, replaces what another call under the table has settled.
ExactUntilUnsettled ==
    [][\A k \in Keys : Superseded(k) => Unsettled(k)']_vars

\* Two calls under one latch both answer their own draw of a key only after
\* the key lost a value ("Concurrent misses on one key compute once").
ComputeOnce ==
    \A c, d \in Calls :
        (/\ c # d /\ LatchKey(c) = LatchKey(d)
         /\ answer[c] = c /\ answer[d] = d)
            => KeyOf[c] \in lost

\* What a caller was given as the result of its own draw stays what the cache
\* serves, until the key loses it, a fallback is lost or written, or a call
\* under another table writes the key ("the value the first caller returned
\* is silently replaced" without the latch).
AnswerStands ==
    \A c \in Calls :
        LET k == KeyOf[c]
        IN  answer[c] = c /\ ~Unsettled(k) =>
                \/ store[k] = c
                \/ /\ Readable(store[k]) /\ author[k] # NoAuthor
                   /\ author[k].scope # ScopeOf[c]

\* A call that begins with a value in reach, under its current key or under a
\* fallback, neither draws nor raises CacheMiss unless a key of its chain loses
\* its value meanwhile: no migration under way hides a value from it.
WarmCallsAreServed ==
    \A c \in warm :
        (\A i \in DOMAIN Chain(c) : Chain(c)[i] \notin lost)
            => pc[c] # "draw" /\ answer[c] # "CacheMiss"

\* A value that was in reach when the wrapped function returned is never
\* replaced by the draw: the peers' window is from the re-read to the `set`
\* ("a value another writer landed while this call computed is served").
LandedValuesStand ==
    \A c \in landed :
        (\A i \in DOMAIN Chain(c) : Chain(c)[i] \notin lost)
            => pc[c] # "store" /\ answer[c] # c

\* Every call that begins returns, raises or dies with its process, also when
\* another process dies inside the key and when a `set` or the function fails.
EveryCallEnds == []<>(\A c \in Calls : pc[c] \in {"idle", "end"})

\* The draws made under one latch never supersede each other, whatever the
\* migrations, the evictions, the peers and the failures do in between.
DrawnUnder == [k \in Keys |->
    IF author[k] # NoAuthor /\ author[k].how = "draw"
    THEN author[k].scope ELSE NoAuthor]
Abstract == INSTANCE FirstWriteWins WITH
    Unreadable <- Drifted, Latches <- Scopes, NoLatch <- NoAuthor,
    cell <- store, drawn <- DrawnUnder
ImplementsFirstWriteWins == Abstract!Spec

=============================================================================
