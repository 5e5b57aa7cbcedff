------------------------------ MODULE LogCache ------------------------------
(***************************************************************************)
(* One prefix of a LogCache directory (src/emboss/_log_cache.py): the logs *)
(* of its writers, and the LogCache instances of the processes that share  *)
(* it, each with its in-memory index and its threads.  Instances of one    *)
(* writer (siblings) append to one log under a flock; instances of other   *)
(* writers (peers) only read it.                                           *)
(*                                                                         *)
(* A log is the sequence of its frames.  All frames have one length, so    *)
(* the offset of a frame is its position and the size of a log, all that   *)
(* `_current_sig` sees of it, is the number of its frames.  The lock file  *)
(* is named by its generation: a thread that opened it before `clear`      *)
(* unlinked it holds another file than one that opens it afterwards.       *)
(*                                                                         *)
(* `self._lock` is `guard`; values are inline (Consolidation models the    *)
(* pool) and there is no `size_limit`.                                     *)
(***************************************************************************)
EXTENDS Naturals, Sequences, FiniteSets, Functions

CONSTANTS
    Threads, Instances, Writers, Keys,
    InstanceOf,  \* the instance each thread calls
    WriterOf,    \* the writer_id of each instance
    Rank,        \* the place of each writer's log in the sorted directory
    Worlds,      \* who may call what: operations, `expire` arguments in ticks
                 \* (0: before the next one), and the instances that may die
    MaxLog,      \* max_log_bytes of each writer, in frames
    MaxClock, MaxRecords, MaxPasses, MaxClears, MaxCrashes,  \* bounds
    Nobody, NoKey, NoLoc, Deleted, NoIndex, Missing, Retry

Forever == MaxClock + 1
Passes == {"compact", "consolidate"}
Batches == {"compactAll", "consolidateAll"}
Ops == {"set", "get", "delete", "clear"} \cup Passes \cup Batches
Own(t) == WriterOf[InstanceOf[t]]

\* A torn frame: `_read_records` resyncs past it, no frame at its offset parses.
Torn == [key |-> NoKey, time |-> 0, dies |-> 0, dead |-> TRUE, id |-> 0]

Frames == [key : Keys, time : 0 .. MaxClock, dies : Nat, dead : BOOLEAN,
           id : 1 .. MaxRecords] \cup {Torn}
Places == [log : Writers, at : 1 .. MaxRecords + MaxCrashes]
Indexes == [packed : [Keys -> Places \cup {NoLoc}],
            overlay : [Keys -> Places \cup {NoLoc, Deleted}]]

ASSUME ThreadsAssumption ==
    /\ IsFiniteSet(Threads) /\ InstanceOf \in [Threads -> Instances]
    /\ IsFiniteSet(Writers) /\ WriterOf \in [Instances -> Writers]
ASSUME WorldsAssumption ==
    Worlds \subseteq [does : [Threads -> SUBSET Ops],
                      mortal : SUBSET Instances,
                      lifetimes : [Threads -> SUBSET (0 .. Forever)]]
ASSUME LogsAssumption ==
    /\ Rank \in [Writers -> Nat] /\ IsInjective(Rank)
    /\ MaxLog \in [Writers -> Nat]
ASSUME BoundsAssumption ==
    /\ MaxClock \in Nat /\ MaxRecords \in Nat /\ MaxPasses \in Nat
    /\ MaxClears \in Nat /\ MaxCrashes \in Nat
ASSUME NoneAssumption ==
    /\ Nobody \notin Threads /\ NoKey \notin Keys
    /\ NoLoc \notin Places /\ Deleted \notin Places \cup {NoLoc}
    /\ NoIndex \notin Indexes
    /\ Missing \notin Frames \cup [writer : Writers, frame : Frames]
    /\ Retry \notin Frames \cup {Missing}

VARIABLES
    world,   \* the one of Worlds that this behaviour is in
    clock,
    files,   \* the writers whose log exists
    log,     \* its frames
    lock,    \* the generation of its lock file
    index,   \* per instance: the packed array and the overlay, or NoIndex
    sig,     \* the log sizes the index stands for
    fresh,   \* whether the last check is younger than index_ttl
    cooled,  \* whether the auto-consolidation cooldown has passed
    guard,   \* the thread that holds self._lock
    pc, call,
    count,   \* the records stamped, the passes and clears begun, the crashes
    best,    \* history: the record that should win each key
    mine,    \* history: the record of each key an instance wrote last, and the
             \* one that was newest then
    split    \* history: the writers whose lock was unlinked under a waiter

disk == <<files, log, lock>>
memory == <<index, sig, fresh, cooled>>
control == <<guard, pc, call>>
history == <<best, mine, split>>
vars == <<world, clock, disk, memory, control, count, history>>

-----------------------------------------------------------------------------
LiveAt(f, now) == ~f.dead /\ f.dies >= now

\* Where the records of k are, in the logs of W.
Locations(W, k) ==
    UNION {{[log |-> w, at |-> n] : n \in {m \in DOMAIN log[w] :
                                              log[w][m].key = k}} : w \in W}
FrameAt(loc) == log[loc.log][loc.at]

\* The order of the merges: latest store_time, then later log, then later frame.
After(a, b) ==
    \/ FrameAt(a).time > FrameAt(b).time
    \/ /\ FrameAt(a).time = FrameAt(b).time
       /\ \/ Rank[a.log] > Rank[b.log]
          \/ a.log = b.log /\ a.at > b.at
Winner(S) == CHOOSE a \in S : \A b \in S \ {a} : After(a, b)

\* The winners of the keys that occur in the logs of W.
Winners(W) ==
    {Winner(Locations(W, k)) : k \in {j \in Keys : Locations(W, j) # {}}}

-----------------------------------------------------------------------------
CurrentSig == [w \in files |-> Len(log[w])]

\* The scan of `_ensure_index`: only live winners are packed.
Build(now) ==
    [packed |-> [k \in Keys |->
         LET found == Locations(files, k)
         IN  IF found # {} /\ LiveAt(FrameAt(Winner(found)), now)
             THEN Winner(found) ELSE NoLoc],
     overlay |-> [k \in Keys |-> NoLoc]]

Lookup(ix, k) ==
    CASE ix.overlay[k] = Deleted -> NoLoc
      [] ix.overlay[k] # NoLoc /\ ix.overlay[k] # Deleted -> ix.overlay[k]
      [] OTHER -> ix.packed[k]

\* `_read_verified` finds a frame of k at loc.
Verified(loc, k) ==
    /\ loc.log \in files
    /\ loc.at \in DOMAIN log[loc.log]
    /\ FrameAt(loc).key = k

\* What a rewrite of w's log keeps: compaction looks at that log alone,
\* consolidation at every log; the winners that are dead are dropped.
Kept(w, pass, now) ==
    LET seen == IF pass = "compact" THEN {w} ELSE files
        kept == {a \in Winners(seen) : a.log = w /\ LiveAt(FrameAt(a), now)}
        earlier(a) == {b \in kept : After(a, b)}
    IN  [n \in 1 .. Cardinality(kept) |->
            FrameAt(CHOOSE a \in kept : Cardinality(earlier(a)) = n - 1)]

-----------------------------------------------------------------------------
Resting == [op |-> "none", key |-> NoKey, now |-> 0, dies |-> 0, id |-> 0,
            pass |-> "none", retried |-> FALSE, loc |-> NoLoc, fd |-> 0,
            sig |-> <<>>, built |-> NoIndex, hand |-> <<>>]

Init ==
    /\ world \in Worlds
    /\ clock = 0
    /\ files = {} /\ log = [w \in Writers |-> <<>>]
    /\ lock = [w \in Writers |-> 0]
    /\ index = [i \in Instances |-> NoIndex]
    /\ sig = [i \in Instances |-> <<>>]
    /\ fresh = [i \in Instances |-> FALSE]
    /\ cooled = [i \in Instances |-> TRUE]
    /\ guard = [i \in Instances |-> Nobody]
    /\ pc = [t \in Threads |-> "idle"]
    /\ call = [t \in Threads |-> Resting]
    /\ count = [records |-> 0, passes |-> 0, clears |-> 0, crashes |-> 0]
    /\ best = [k \in Keys |-> Missing]
    /\ mine = [i \in Instances |-> [k \in Keys |-> Missing]]
    /\ split = {}

Goto(t, label) == pc' = [pc EXCEPT ![t] = label]
Take(t) ==
    /\ guard[InstanceOf[t]] = Nobody
    /\ guard' = [guard EXCEPT ![InstanceOf[t]] = t]
Release(t) ==
    guard' = [guard EXCEPT ![InstanceOf[t]] = IF @ = t THEN Nobody ELSE @]

\* Defect: a return path that does not leave self._lock.
ReturnKeepsGuard(t) ==
    /\ Goto(t, "idle")
    /\ call' = [call EXCEPT ![t] = Resting]
    /\ UNCHANGED guard

Return(t) ==
    /\ Goto(t, "idle")
    /\ call' = [call EXCEPT ![t] = Resting]
    /\ Release(t)

Forget(t) ==
    /\ index' = [index EXCEPT ![InstanceOf[t]] = NoIndex]
    /\ sig' = [sig EXCEPT ![InstanceOf[t]] = <<>>]

\* `set` reads the clock (and pickles the value) before it takes self._lock.
Stamp(t, k, life) ==
    /\ pc[t] = "idle" /\ "set" \in world.does[t] /\ count.records < MaxRecords
    /\ count' = [count EXCEPT !.records = @ + 1]
    /\ call' = [call EXCEPT ![t] =
           [Resting EXCEPT !.op = "set", !.key = k, !.now = clock,
                !.dies = IF life = Forever THEN life ELSE clock + life,
                !.id = count.records + 1]]
    /\ Goto(t, "stamped")
    /\ UNCHANGED <<world, clock, disk, memory, guard, history>>

\* The other calls take self._lock at once; `compact()` and `consolidate()`
\* without a prefix (`_run_batch`) never take it.
Begin(t, op, k) ==
    /\ pc[t] = "idle" /\ op \in world.does[t] \ {"set"}
    /\ IF op \in Batches THEN UNCHANGED guard ELSE Take(t)
    /\ op = "clear" => count.clears < MaxClears
    /\ op = "delete" => count.records < MaxRecords
    /\ op \in Passes \cup Batches => count.passes < MaxPasses
    /\ count' = CASE op = "delete" -> [count EXCEPT !.records = @ + 1]
                  [] op \in Passes \cup Batches ->
                         [count EXCEPT !.passes = @ + 1]
                  [] op = "clear" -> [count EXCEPT !.clears = @ + 1]
                  [] OTHER -> count
    /\ call' = [call EXCEPT ![t] =
           [Resting EXCEPT !.op = op, !.key = k, !.now = clock,
                !.id = IF op = "delete" THEN count.records + 1 ELSE 0,
                !.pass = CASE op \in {"compact", "compactAll"} -> "compact"
                           [] op \in {"consolidate", "consolidateAll"} ->
                                  "consolidate"
                           [] OTHER -> "none"]]
    /\ Goto(t, CASE op \in {"get", "delete"} -> "check"
                 [] op = "clear" -> "open"
                 [] OTHER -> "pass")
    /\ UNCHANGED <<world, clock, disk, memory, history>>

Enter(t) ==
    /\ pc[t] \in {"stamped", "again"}
    /\ Take(t)
    /\ call' = IF pc[t] = "again" THEN [call EXCEPT ![t].now = clock] ELSE call
    /\ Goto(t, "check")
    /\ UNCHANGED <<world, clock, disk, memory, count, history>>

\* What the caller of `_ensure_index` does with the index it returns.
Use(t, ix) ==
    /\ call' = [call EXCEPT
           ![t].loc = IF call[t].op = "set" THEN NoLoc
                      ELSE Lookup(ix, call[t].key),
           ![t].built = NoIndex, ![t].sig = <<>>]
    /\ Goto(t, CASE call[t].op = "set" -> "open"
                 [] call[t].op = "get" -> "serve"
                 [] OTHER -> "verify")

\* `_ensure_index`: within index_ttl of the last check, or when no size has
\* changed, the index at hand is used.  The sizes are taken before the scan.
Check(t) ==
    LET i == InstanceOf[t]
        young == index[i] # NoIndex /\ fresh[i]
        same == index[i] # NoIndex /\ sig[i] = CurrentSig
    IN  /\ pc[t] = "check"
        /\ fresh' = [fresh EXCEPT ![i] = TRUE]
        /\ IF young \/ same
           THEN Goto(t, "fetch") /\ UNCHANGED call
           ELSE /\ call' = [call EXCEPT ![t].sig = CurrentSig]
                /\ Goto(t, "scan")
        /\ UNCHANGED <<world, clock, disk, index, sig, cooled, guard, count,
                       history>>

\* `return self._index[prefix]`: a batch pass, which does not hold self._lock,
\* may have popped it since; the KeyError then leaves the call.
Fetch(t) ==
    LET ix == index[InstanceOf[t]]
    IN  /\ pc[t] = "fetch"
        /\ \/ ix = NoIndex /\ Return(t)
           \/ ix # NoIndex /\ Use(t, ix) /\ UNCHANGED guard
        /\ UNCHANGED <<world, clock, disk, memory, count, history>>

Scan(t) ==
    /\ pc[t] = "scan"
    /\ call' = [call EXCEPT ![t].built = Build(clock)]
    /\ Goto(t, "keep")
    /\ UNCHANGED <<world, clock, disk, memory, guard, count, history>>

\* Defect: the sizes are taken after the scan.
KeepLateSig(t) ==
    LET i == InstanceOf[t]
    IN  /\ pc[t] = "keep"
        /\ index' = [index EXCEPT ![i] = call[t].built]
        /\ sig' = [sig EXCEPT ![i] = CurrentSig]
        /\ Use(t, call[t].built)
        /\ UNCHANGED <<world, clock, disk, fresh, cooled, guard, count,
                       history>>

Keep(t) ==
    LET i == InstanceOf[t]
    IN  /\ pc[t] = "keep"
        /\ index' = [index EXCEPT ![i] = call[t].built]
        /\ sig' = [sig EXCEPT ![i] = call[t].sig]
        /\ Use(t, call[t].built)
        /\ UNCHANGED <<world, clock, disk, fresh, cooled, guard, count,
                       history>>

-----------------------------------------------------------------------------
\* What `_shard_get` makes of the location it looked up: a record, a miss, or
\* a stale location, which is retried once.
Got(t) ==
    LET loc == call[t].loc
    IN  CASE loc = NoLoc -> Missing
          [] loc # NoLoc /\ ~Verified(loc, call[t].key) ->
                 IF call[t].retried THEN Missing ELSE Retry
          [] OTHER -> IF LiveAt(FrameAt(loc), call[t].now)
                      THEN FrameAt(loc) ELSE Missing

Serve(t) ==
    /\ pc[t] = "serve"
    /\ IF Got(t) = Retry
       THEN /\ Goto(t, "stale") /\ Release(t)
            /\ call' = [call EXCEPT ![t].retried = TRUE, ![t].loc = NoLoc]
       ELSE Return(t)
    /\ UNCHANGED <<world, clock, disk, memory, count, history>>

\* The invalidation between the two attempts, under self._lock of its own.
Invalidate(t) ==
    /\ pc[t] = "stale" /\ guard[InstanceOf[t]] = Nobody
    /\ Forget(t)
    /\ fresh' = [fresh EXCEPT ![InstanceOf[t]] = FALSE]
    /\ Goto(t, "again")
    /\ UNCHANGED <<world, clock, disk, cooled, guard, call, count, history>>

\* `delete` returns False unless it finds a live record to bury.
Verify(t) ==
    LET loc == call[t].loc
        live == /\ loc # NoLoc /\ Verified(loc, call[t].key)
                /\ LiveAt(FrameAt(loc), call[t].now)
    IN  /\ pc[t] = "verify"
        /\ IF live THEN Goto(t, "open") /\ UNCHANGED <<guard, call>>
                   ELSE Return(t)
        /\ UNCHANGED <<world, clock, disk, memory, count, history>>

-----------------------------------------------------------------------------
\* `_writer_lock` opens the lock file, then waits for the flock.
OpenLock(t) ==
    /\ pc[t] = "open"
    /\ call' = [call EXCEPT ![t].fd = lock[Own(t)]]
    /\ Goto(t, IF call[t].op = "clear" THEN "wipe" ELSE "append")
    /\ UNCHANGED <<world, clock, disk, memory, guard, count, history>>

\* Defect: no flock.
LockIgnored(t) == TRUE

\* The flock of the file t opened is held across steps by rewrites alone.
LockFree(t) ==
    \A u \in Threads \ {t} :
        Own(u) = Own(t) /\ pc[u] = "replace" => call[u].fd # call[t].fd

\* `_append`, from the acquisition of the flock to its release.
AppendFrame(t) ==
    LET w == Own(t)
        f == [key |-> call[t].key, time |-> call[t].now,
              dies |-> call[t].dies, dead |-> call[t].op = "delete",
              id |-> call[t].id]
        wins == \A a \in Locations(files, f.key) :
                    \/ f.time > FrameAt(a).time
                    \/ f.time = FrameAt(a).time /\ Rank[w] >= Rank[a.log]
    IN  /\ pc[t] = "append" /\ LockFree(t)
        /\ files' = files \cup {w}
        /\ log' = [log EXCEPT ![w] = Append(@, f)]
        /\ call' = [call EXCEPT ![t].loc =
                       [log |-> w, at |-> Len(log[w]) + 1]]
        /\ best' = IF wins
                   THEN [best EXCEPT ![f.key] = [writer |-> w, frame |-> f]]
                   ELSE best
        /\ mine' = [mine EXCEPT ![InstanceOf[t]][f.key] =
               [frame |-> f, newest |-> IF wins \/ best[f.key] = Missing
                                        THEN f ELSE best[f.key].frame]]
        /\ Goto(t, "fold")
        /\ UNCHANGED <<world, clock, lock, memory, guard, count, split>>

\* The sizes that instance i stands for, with its own log at n.
Resized(i, n) ==
    [v \in DOMAIN sig[i] \cup {WriterOf[i]} |->
        IF v = WriterOf[i] THEN n ELSE sig[i][v]]

\* Defect: the index is marked current but the append is not folded into it.
FoldSigOnly(t) ==
    LET i == InstanceOf[t]
        c == call[t]
    IN  /\ pc[t] = "fold"
        /\ sig' = [sig EXCEPT ![i] = Resized(i, c.loc.at)]
        /\ Return(t)
        /\ UNCHANGED <<world, clock, disk, index, fresh, cooled, count,
                       history>>

\* `_fold_own_append`, the own entry of `_sig`, and the size trigger.
Fold(t) ==
    LET i == InstanceOf[t]
        w == Own(t)
        c == call[t]
        pass == IF DOMAIN Resized(i, c.loc.at) = {w} /\ cooled[i]
                THEN "consolidate" ELSE "compact"
    IN  /\ pc[t] = "fold"
        /\ sig' = [sig EXCEPT ![i] = Resized(i, c.loc.at)]
        /\ index' = IF index[i] = NoIndex THEN index
                    ELSE [index EXCEPT ![i].overlay[c.key] =
                             IF c.op = "delete" THEN Deleted ELSE c.loc]
        /\ IF c.op = "set" /\ c.loc.at > MaxLog[w]
           THEN /\ call' = [call EXCEPT ![t].pass = pass, ![t].loc = NoLoc]
                /\ Goto(t, "pass") /\ UNCHANGED guard
           ELSE Return(t)
        /\ UNCHANGED <<world, clock, disk, fresh, cooled, count, history>>

-----------------------------------------------------------------------------
\* `_compact_prefix` and `_consolidate_prefix` (without a prune): begin,
StartPass(t) ==
    /\ pc[t] = "pass"
    /\ IF call[t].pass = "compact" /\ Own(t) \notin files
       THEN Return(t)
       ELSE /\ call' = [call EXCEPT ![t].now = clock, ![t].fd = lock[Own(t)]]
            /\ Goto(t, "read") /\ UNCHANGED guard
    /\ UNCHANGED <<world, clock, disk, memory, count, history>>

\* take the flock and read; compacting a log that `clear` has just unlinked
\* raises FileNotFoundError, out of `set` too,
ReadLogs(t) ==
    /\ pc[t] = "read" /\ LockFree(t)
    /\ IF call[t].pass = "compact" /\ Own(t) \notin files
       THEN Return(t)
       ELSE /\ call' = [call EXCEPT ![t].hand =
                           Kept(Own(t), call[t].pass, call[t].now)]
            /\ Goto(t, "replace") /\ UNCHANGED guard
    /\ UNCHANGED <<world, clock, disk, memory, count, history>>

\* replace our log (an empty consolidated one is unlinked), release the flock,
Replace(t) ==
    LET w == Own(t)
    IN  /\ pc[t] = "replace"
        /\ log' = [log EXCEPT ![w] = call[t].hand]
        /\ files' = IF call[t].pass = "consolidate" /\ call[t].hand = <<>>
                    THEN files \ {w} ELSE files \cup {w}
        /\ Goto(t, "pop")
        /\ UNCHANGED <<world, clock, lock, memory, guard, call, count,
                       history>>

\* and invalidate the index.
Pop(t) ==
    LET i == InstanceOf[t]
    IN  /\ pc[t] = "pop"
        /\ Forget(t)
        /\ IF call[t].pass = "consolidate"
           THEN /\ fresh' = [fresh EXCEPT ![i] = FALSE]
                /\ cooled' = [cooled EXCEPT ![i] = FALSE]
           ELSE UNCHANGED <<fresh, cooled>>
        /\ Return(t)
        /\ UNCHANGED <<world, clock, disk, count, history>>

\* u has opened the lock file of w that is in place, and waits for its flock.
Waiting(u, w) ==
    /\ Own(u) = w /\ pc[u] \in {"append", "read", "wipe"}
    /\ call[u].fd = lock[w]

\* A rewrite has read its logs and does not keep the frame at a.
LeftOut(a) ==
    \E u \in Threads : /\ pc[u] = "replace" /\ Own(u) = a.log
                       /\ FrameAt(a) \notin Range(call[u].hand)

\* `clear`: under the flock, unlink our log and the lock file.  The next record
\* of a key takes over, but for one that a consolidation under way in another
\* writer has left out for the sake of a record that is cleared here.
Wipe(t) ==
    LET i == InstanceOf[t]
        w == Own(t)
        left(k) == Locations(files \ {w}, k)
    IN  /\ pc[t] = "wipe" /\ LockFree(t)
        /\ files' = files \ {w}
        /\ log' = [log EXCEPT ![w] = <<>>]
        /\ lock' = [lock EXCEPT ![w] = @ + 1]
        /\ Forget(t)
        /\ fresh' = [fresh EXCEPT ![i] = FALSE]
        /\ best' = [k \in Keys |->
               IF best[k] = Missing \/ best[k].writer # w THEN best[k]
               ELSE IF left(k) = {} \/ LeftOut(Winner(left(k))) THEN Missing
               ELSE [writer |-> Winner(left(k)).log,
                     frame |-> FrameAt(Winner(left(k)))]]
        /\ mine' = [j \in Instances |->
               IF WriterOf[j] = w THEN [k \in Keys |-> Missing] ELSE mine[j]]
        /\ split' = IF \E u \in Threads \ {t} : Waiting(u, w)
                    THEN split \cup {w} ELSE split
        /\ Return(t)
        /\ UNCHANGED <<world, clock, cooled, count>>

-----------------------------------------------------------------------------
\* A process dies; one that was appending may leave a torn frame.
Crash(i) ==
    LET gone == {t \in Threads : InstanceOf[t] = i}
        w == WriterOf[i]
    IN  /\ count.crashes < MaxCrashes /\ i \in world.mortal
        /\ count' = [count EXCEPT !.crashes = @ + 1]
        /\ \/ UNCHANGED disk
           \/ /\ \E t \in gone : pc[t] = "append" /\ LockFree(t)
              /\ files' = files \cup {w}
              /\ log' = [log EXCEPT ![w] = Append(@, Torn)]
              /\ UNCHANGED lock
        /\ index' = [index EXCEPT ![i] = NoIndex]
        /\ sig' = [sig EXCEPT ![i] = <<>>]
        /\ fresh' = [fresh EXCEPT ![i] = FALSE]
        /\ cooled' = [cooled EXCEPT ![i] = TRUE]
        /\ guard' = [guard EXCEPT ![i] = Nobody]
        /\ pc' = [t \in Threads |-> IF t \in gone THEN "idle" ELSE pc[t]]
        /\ call' = [t \in Threads |->
                       IF t \in gone THEN Resting ELSE call[t]]
        /\ mine' = [mine EXCEPT ![i] = [k \in Keys |-> Missing]]
        /\ UNCHANGED <<world, clock, best, split>>

Tick ==
    /\ clock < MaxClock
    /\ clock' = clock + 1
    /\ UNCHANGED <<world, disk, memory, control, count, history>>

\* index_ttl passes; the cooldown of auto-consolidation passes.
Age(i) ==
    /\ \/ fresh[i] /\ fresh' = [fresh EXCEPT ![i] = FALSE] /\ UNCHANGED cooled
       \/ ~cooled[i] /\ cooled' = [cooled EXCEPT ![i] = TRUE]
              /\ UNCHANGED fresh
    /\ UNCHANGED <<world, clock, disk, index, sig, control, count, history>>

Step(t) ==
    \/ Enter(t) \/ Check(t) \/ Fetch(t) \/ Scan(t) \/ Keep(t)
    \/ Serve(t) \/ Invalidate(t) \/ Verify(t)
    \/ OpenLock(t) \/ AppendFrame(t) \/ Fold(t)
    \/ StartPass(t) \/ ReadLogs(t) \/ Replace(t) \/ Pop(t) \/ Wipe(t)

Next ==
    \/ \E t \in Threads :
           \/ \E k \in Keys, life \in world.lifetimes[t] : Stamp(t, k, life)
           \/ \E op \in {"get", "delete"}, k \in Keys : Begin(t, op, k)
           \/ \E op \in Ops \ {"set", "get", "delete"} : Begin(t, op, NoKey)
           \/ Step(t)
    \/ \E i \in Instances : Crash(i) \/ Age(i)
    \/ Tick

Spec == Init /\ [][Next]_vars

-----------------------------------------------------------------------------
Unguarded == {"idle", "stamped", "stale", "again"}

\* Every variable has its type, and self._lock is held by exactly the thread
\* that is inside a guarded operation.
TypeOK ==
    /\ world \in Worlds /\ clock \in 0 .. MaxClock
    /\ files \subseteq Writers /\ lock \in [Writers -> 0 .. MaxClears]
    /\ \A w \in Writers : \A n \in DOMAIN log[w] : log[w][n] \in Frames
    /\ \A w \in Writers \ files : log[w] = <<>>
    /\ index \in [Instances -> Indexes \cup {NoIndex}]
    /\ \A i \in Instances : DOMAIN sig[i] \subseteq Writers
    /\ fresh \in [Instances -> BOOLEAN] /\ cooled \in [Instances -> BOOLEAN]
    /\ \A i \in Instances, t \in Threads :
           guard[i] = t <=> /\ InstanceOf[t] = i /\ pc[t] \notin Unguarded
                            /\ call[t].op \notin Batches
    /\ \A t \in Threads : pc[t] = "idle" <=> call[t] = Resting
    /\ \A k \in Keys : best[k] # Missing =>
           best[k].writer \in Writers /\ best[k].frame \in Frames
    /\ split \subseteq Writers

\* The newest record of key k is on disk and is the one that wins.
Stands(k) ==
    best[k] # Missing /\ LiveAt(best[k].frame, clock) =>
        /\ Locations(files, k) # {}
        /\ FrameAt(Winner(Locations(files, k))) = best[k].frame

\* Whatever the siblings append, compact, consolidate and clear at the same
\* time, and whenever a process dies, the newest record of a key stands for as
\* long as it is live and its writer has not cleared it (_append, compact,
\* consolidate).  The one exception is a `clear` that unlinked the lock file
\* under a waiter: two processes of that writer then hold two flocks, and what
\* one of them writes back may win over the records of any writer.
LiveWinnersStand == split = {} => \A k \in Keys : Stands(k)

\* The newest record of key k has died, or was cleared.
Over(k) == best[k] = Missing \/ ~LiveAt(best[k].frame, clock)

\* An instance at rest whose signature equals the sizes on disk serves the
\* winner of each key, or the one it wrote last itself, or finds its location
\* stale and rebuilds: it never misses a newest record that lives.  (When that
\* one has died, a rewrite may uncover an older one, which is missed.)
Serves(i) ==
    (/\ \A t \in Threads : InstanceOf[t] = i => pc[t] \in Unguarded
     /\ index[i] # NoIndex /\ sig[i] = CurrentSig)
        => \A k \in Keys :
               LET loc == Lookup(index[i], k)
                   own == Locations({WriterOf[i]}, k)
                   last == CHOOSE a \in own : \A b \in own : a.at >= b.at
               IN  \/ loc # NoLoc /\ ~Verified(loc, k)
                   \/ /\ index[i].overlay[k] # NoLoc /\ own # {}
                      /\ IF loc = NoLoc THEN FrameAt(last).dead
                         ELSE FrameAt(loc) = FrameAt(last)
                   \/ /\ index[i].overlay[k] = NoLoc
                      /\ IF loc = NoLoc THEN Over(k)
                         ELSE FrameAt(loc) = FrameAt(Winner(Locations(files, k)))

\* It holds of an instance that is alone on its writer, until its lock file is
\* unlinked under a waiter, while its peers' logs only grow (the size of a log
\* that was rewritten may recur).
Idle(i) == \A t \in Threads : InstanceOf[t] = i => world.does[t] = {}
Sole(i) == \A j \in Instances \ {i} : Idle(j) \/ WriterOf[j] # WriterOf[i]
OnlyGrows(w) == \A t \in Threads : Own(t) = w =>
                    /\ world.does[t] \subseteq {"set", "get", "delete"}
                    /\ MaxLog[w] > MaxRecords + MaxCrashes
Alone(i) == Sole(i) /\ \A w \in Writers \ {WriterOf[i]} : OnlyGrows(w)
SoleIndexServes ==
    split = {} => \A i \in Instances : Alone(i) => Serves(i)

\* And is promised of every instance: "only a peer's writes can be missed -
\* for up to index_ttl" (_ensure_index).
EveryIndexServes == \A i \in Instances : Serves(i)

\* A get that follows a set of its key by the same instance, alone on its
\* writer as above, returns that record or a newer one, through rebuilds, batch
\* compactions and retries, as long as it lives and so does the record that was
\* newest when it was appended (a set that read its clock early may be older
\* than what it follows).  It misses only if a newer record has died, or if the
\* log was rewritten twice under it ("own writes immediate").
ReadOwnWrites ==
    \A t \in Threads :
        LET k == call[t].key
            wrote == mine[InstanceOf[t]][k]
            got == Got(t)
        IN  (/\ pc[t] = "serve" /\ Alone(InstanceOf[t]) /\ split = {}
             /\ wrote # Missing
             /\ LiveAt(wrote.frame, clock) /\ LiveAt(wrote.newest, clock)) =>
                \/ got = Retry
                \/ got \notin {Missing, Retry} /\ got.time >= wrote.frame.time
                \/ /\ got = Missing
                   /\ \/ /\ call[t].retried /\ call[t].loc # NoLoc
                         /\ ~Verified(call[t].loc, k)
                      \/ \E a \in Locations(files, k) :
                             /\ FrameAt(a).time >= wrote.frame.time
                             /\ ~LiveAt(FrameAt(a), clock)

\* A get that follows a delete of its key by the same instance never returns a
\* record older than the tombstone ("or a deleted key resurrects").
DeletesStand ==
    \A t \in Threads :
        LET wrote == mine[InstanceOf[t]][call[t].key]
        IN  (pc[t] = "serve" /\ wrote # Missing /\ wrote.frame.dead) =>
                \/ Got(t) \in {Missing, Retry}
                \/ Got(t).time >= wrote.frame.time

=============================================================================
