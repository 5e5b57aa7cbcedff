---------------------------- MODULE Consolidation ----------------------------
(***************************************************************************)
(* The consolidation pass of LogCache (src/emboss/_log_cache.py) over one  *)
(* prefix: the logs of its writers and their conflict copies, the shared   *)
(* content-addressed pool of spilled values, and the legacy namespaces     *)
(* `<writer>.spill/` that the pass migrates into it.  Writers go on        *)
(* spilling and appending, a file syncer goes on delivering, reads of the  *)
(* pass may fail, and its process may die between any two steps.           *)
(*                                                                         *)
(* LogCache models the order of records and the rewriting of one log; here *)
(* a log is the set of its records, each stamped apart, and it exists when *)
(* the set is not empty.  As a log only grows until a pass replaces it,    *)
(* its set stands for the (size, mtime) of the snapshot.  A file is young  *)
(* while it is within _SHARED_SPILL_GRACE_S.                               *)
(***************************************************************************)
EXTENDS Naturals, FiniteSets

CONSTANTS
    Writers,    \* the canonical logs
    Copies,     \* the syncer's conflict copies
    Janitors,   \* the writers whose processes consolidate
    Prune,      \* the writers named in prune_writer_ids
    Putters,    \* the writers that still write
    Rank,       \* the place of each log in the sorted directory
    Keys, Blobs,
    Worlds,     \* the directories to begin with, and what is due to arrive
    Start,      \* the stamps up to Start are those of the first records
    MaxPuts, MaxPasses, MaxFaults, MaxCrashes,  \* bounds
    Pool, Inline, None

Logs == Writers \cup Copies
Files == [ns : Writers \cup {Pool}, blob : Blobs]
PoolFiles == {f \in Files : f.ns = Pool}
Records == [key : Keys, time : 1 .. Start + MaxPuts, dead : BOOLEAN,
            ref : Files \cup {Inline}]
Ages == {"absent", "old", "young"}
FaultKinds == {"stat", "read", "adopt", "restat"}

ASSUME LogsAssumption ==
    /\ IsFiniteSet(Logs) /\ Writers \cap Copies = {}
    /\ Janitors \subseteq Writers /\ Prune \subseteq Writers
    /\ Putters \subseteq Writers
    /\ Rank \in [Logs -> Nat]
    /\ \A l, m \in Logs : Rank[l] = Rank[m] => l = m
ASSUME NumbersAssumption ==
    Start \in Nat /\ MaxPuts \in Nat /\ MaxPasses \in Nat
\* Each record has a stamp of its own, or is a copy; the syncer never writes to
\* the log of a node that consolidates, and a value is not past its grace when
\* the record that names it has yet to arrive.
ASSUME WorldsAssumption ==
    \A w \in Worlds :
        /\ w.log \in [Logs -> SUBSET Records]
        /\ w.file \in [Files -> Ages]
        /\ w.due \in [logs : [Logs -> SUBSET Records], files : SUBSET Files,
                      faults : SUBSET FaultKinds]
        /\ \A l, m \in Logs :
               \A r \in w.log[l] \cup w.due.logs[l],
                  s \in w.log[m] \cup w.due.logs[m] :
                   r.time <= Start /\ (r.key = s.key /\ r.time = s.time => r = s)
        /\ \A j \in Janitors : w.due.logs[j] = {}
        /\ \A l \in Logs : \A r \in w.due.logs[l] :
               r.ref = Inline \/ w.file[r.ref] # "old"
ASSUME NoneAssumption ==
    /\ Pool \notin Logs /\ Inline \notin Files
    /\ None \notin Records \cup Logs \cup Files

VARIABLES
    log, file,
    due,     \* what the syncer has yet to deliver, and the faults to expect
    flight,  \* per writer: the record whose value is spilled, or None
    pass,    \* per janitor: its pass
    count,   \* the puts, passes, faults and crashes so far
    newest   \* history: the latest stamp of each key ever on disk

disk == <<log, file>>
vars == <<log, file, due, flight, pass, count, newest>>

-----------------------------------------------------------------------------
\* The merge: the latest record of each key, in the later log of two that hold
\* it; `found` is a set of records with the log each was read from.
Beats(a, b) ==
    \/ a.rec.time > b.rec.time
    \/ a.rec.time = b.rec.time /\ Rank[a.src] > Rank[b.src]
Latest(found) ==
    {a \in found : \A b \in found :
         (b.rec.key = a.rec.key /\ b # a) => Beats(a, b)}
OnDisk == UNION {[rec : log[l], src : {l}] : l \in Logs}

Present(ref) == ref = Inline \/ file[ref] # "absent"

Idle == [at |-> "idle", snap |-> <<>>, unread |-> {}, todo |-> {},
         found |-> {}, out |-> {}, failed |-> {}, dropped |-> {},
         victim |-> None]

StampOf(logs, k) ==
    LET times == {r.time : r \in {s \in UNION {logs[l] : l \in Logs} :
                                      s.key = k}}
    IN  IF times = {} THEN 0
        ELSE CHOOSE n \in times : \A m \in times : n >= m

Init ==
    \E w \in Worlds :
        /\ log = w.log /\ file = w.file /\ due = w.due
        /\ flight = [v \in Writers |-> None]
        /\ pass = [j \in Janitors |-> Idle]
        /\ count = [puts |-> 0, passes |-> 0, faults |-> 0, crashes |-> 0]
        /\ newest = [k \in Keys |-> StampOf(w.log, k)]

Later(n, m) == IF n > m THEN n ELSE m
Seen(logs) == [k \in Keys |-> Later(newest[k], StampOf(logs, k))]

\* n calls of this kind meet a transient OSError.
Faulty(kind, n) ==
    /\ n > 0 => kind \in due.faults
    /\ count.faults + n <= MaxFaults
    /\ count' = [count EXCEPT !.faults = @ + n]

-----------------------------------------------------------------------------
\* `set` stamps its record and spills the value, or finds it in the pool and
\* refreshes its age; `delete` has nothing to spill.
Put(w, r) ==
    /\ w \in Putters /\ flight[w] = None /\ count.puts < MaxPuts
    /\ r.time = Start + count.puts + 1
    /\ count' = [count EXCEPT !.puts = @ + 1]
    /\ flight' = [flight EXCEPT ![w] = r]
    /\ file' = IF r.ref = Inline THEN file
               ELSE [file EXCEPT ![r.ref] = "young"]
    /\ UNCHANGED <<log, due, pass, newest>>

\* The record is appended under the flock, which a pass holds to its end.
Land(w) ==
    /\ flight[w] # None
    /\ w \in Janitors => pass[w].at = "idle"
    /\ log' = [log EXCEPT ![w] = @ \cup {flight[w]}]
    /\ newest' = Seen(log')
    /\ flight' = [flight EXCEPT ![w] = None]
    /\ UNCHANGED <<file, due, pass, count>>

\* The syncer delivers a log's records, or a value.
ArriveLog(l) ==
    /\ due.logs[l] # {}
    /\ log' = [log EXCEPT ![l] = @ \cup due.logs[l]]
    /\ due' = [due EXCEPT !.logs[l] = {}]
    /\ newest' = Seen(log')
    /\ UNCHANGED <<file, flight, pass, count>>

ArriveFile(f) ==
    /\ f \in due.files
    /\ due' = [due EXCEPT !.files = @ \ {f}]
    /\ file' = [file EXCEPT ![f] = "young"]
    /\ UNCHANGED <<log, flight, pass, count, newest>>

\* The grace window passes, but not within a pass, nor while a set is between
\* its spill and its append or a record lags behind its value.
Age(f) ==
    /\ file[f] = "young"
    /\ \A j \in Janitors : pass[j].at = "idle"
    /\ \A w \in Writers : flight[w] # None => flight[w].ref # f
    /\ \A l \in Logs : \A r \in due.logs[l] : r.ref # f
    /\ file' = [file EXCEPT ![f] = "old"]
    /\ UNCHANGED <<log, due, flight, pass, count, newest>>

-----------------------------------------------------------------------------
\* What the pass may fold and remove: the writers named, and every conflict
\* copy of the snapshot; never its own log.
PruneLogs(j) == (Prune \cup (Copies \cap DOMAIN pass[j].snap)) \ {j}

\* `keep` of `_collect_live_across_logs`, and the part of it that we rewrite.
Live(j) == {a \in Latest(pass[j].found) : ~a.rec.dead}
Ours(j) == {a \in Live(j) : a.src = j \/ a.src \in PruneLogs(j)}

\* Defect: a log is deleted though a value it names has yet to arrive.
KeepSourcesBlindly(j) == pass[j].unread \cup pass[j].failed

\* The logs that outlive the prune: those not read, those of failed adoptions,
\* the copies whose record has no value yet.
KeepSources(j) ==
    pass[j].unread \cup pass[j].failed
        \cup (Copies \cap {a.src : a \in pass[j].dropped})

\* Defect: superseded records still hold their values.
KeptSpillsOfAll(j) == {r.ref : r \in pass[j].out}
                          \cup {a.rec.ref : a \in pass[j].found}

\* The reference set of the sweeps.
KeptSpills(j) ==
    {r.ref : r \in pass[j].out}
        \cup {a.rec.ref : a \in Live(j) \ Ours(j)}

-----------------------------------------------------------------------------
\* Under the flock: stat every log; those in `blind` cannot be.
Snapshot(j, blind) ==
    LET there == {l \in Logs : log[l] # {}}
    IN  /\ pass[j].at = "idle" /\ count.passes < MaxPasses
        /\ blind \subseteq there
        /\ blind # {} => "stat" \in due.faults
        /\ count.faults + Cardinality(blind) <= MaxFaults
        /\ count' = [count EXCEPT !.passes = @ + 1,
                                  !.faults = @ + Cardinality(blind)]
        /\ pass' = [pass EXCEPT ![j] =
               [Idle EXCEPT !.at = "read", !.unread = blind,
                            !.todo = there \ blind,
                            !.snap = [l \in there \ blind |-> log[l]]]]
        /\ UNCHANGED <<disk, due, flight, newest>>

\* Read the logs in their order; one that is gone or faulty is unread.
ReadLog(j) ==
    LET p == pass[j]
        l == CHOOSE m \in p.todo : \A n \in p.todo : Rank[m] <= Rank[n]
        rest == [p EXCEPT !.todo = @ \ {l}]
    IN  /\ p.at = "read" /\ p.todo # {}
        /\ \/ /\ log[l] # {} /\ UNCHANGED count
              /\ pass' = [pass EXCEPT ![j] =
                     [rest EXCEPT !.found = @ \cup [rec : log[l], src : {l}]]]
           \/ /\ IF log[l] = {} THEN UNCHANGED count ELSE Faulty("read", 1)
              /\ pass' = [pass EXCEPT ![j] = [rest EXCEPT !.unread = @ \cup {l}]]
        /\ UNCHANGED <<disk, due, flight, newest>>

\* A pass that could not read its own log changes nothing.
Abort(j) ==
    /\ pass[j].at = "read" /\ pass[j].todo = {} /\ j \in pass[j].unread
    /\ pass' = [pass EXCEPT ![j] = Idle]
    /\ UNCHANGED <<disk, due, flight, count, newest>>

\* Defect: the pass goes on without its own log.
MayRewriteAnyway(j) == pass[j].at = "read" /\ pass[j].todo = {}

MayRewrite(j) ==
    pass[j].at = "read" /\ pass[j].todo = {} /\ j \notin pass[j].unread

\* Defect: a migrated record keeps its old path.
RepointedNot(r) == r

Repointed(r) == [r EXCEPT !.ref = [ns |-> Pool, blob |-> r.ref.blob]]

\* Make every reference point into the pool: a pool file that is absent drops
\* its record, one that cannot be stat'ed keeps it; a legacy file is linked
\* into the pool, its absence drops the record and a fault (`broken`) defers
\* it, in our own log by carrying the record over as it is.  A link refreshes
\* the age of both names, a copy (`linked` is FALSE) that of the new one; a file
\* already in the pool under that name serves, with the age it has.
Resolve(j, broken, linked) ==
    LET p == pass[j]
        ours == Ours(j)
        legacy == {a \in ours : a.rec.ref # Inline /\ a.rec.ref \notin PoolFiles}
        absent == {a \in ours \ broken : ~Present(a.rec.ref)}
        adopted == legacy \ (broken \cup absent)
        deferred == legacy \cap broken
        new == {a \in adopted : ~Present(Repointed(a.rec).ref)}
        touched == {Repointed(a.rec).ref : a \in new}
                       \cup (IF linked THEN {a.rec.ref : a \in new} ELSE {})
    IN  /\ MayRewrite(j)
        /\ broken \subseteq {a \in ours : a.rec.ref # Inline}
        /\ Faulty("adopt", Cardinality(broken))
        /\ file' = [f \in Files |-> IF f \in touched THEN "young" ELSE file[f]]
        /\ pass' = [pass EXCEPT ![j] = [p EXCEPT
               !.at = "write",
               !.out = {a.rec : a \in ours \ (legacy \cup absent)}
                           \cup {Repointed(a.rec) : a \in adopted}
                           \cup {a.rec : a \in {d \in deferred : d.src = j}},
               !.failed = {a.rec.ref.ns : a \in deferred}
                              \cup {a.src : a \in {d \in deferred : d.src # j}},
               !.dropped = absent]]
        /\ UNCHANGED <<log, due, flight, newest>>

\* Replace our log; with nothing live it is unlinked.
Write(j) ==
    /\ pass[j].at = "write"
    /\ log' = [log EXCEPT ![j] = pass[j].out]
    /\ pass' = [pass EXCEPT ![j].at = "prune",
                            ![j].todo = (DOMAIN pass[j].snap \cap PruneLogs(j))
                                            \ KeepSources(j)]
    /\ UNCHANGED <<file, due, flight, count, newest>>

\* Stat a source again: one that changed, or cannot be stat'ed, is kept.
Restat(j, l) ==
    LET same == log[l] = pass[j].snap[l]
    IN  /\ pass[j].at = "prune" /\ l \in pass[j].todo
        /\ \/ /\ same /\ UNCHANGED count
              /\ pass' = [pass EXCEPT ![j].at = "unlink", ![j].victim = l]
           \/ /\ IF same THEN Faulty("restat", 1) ELSE UNCHANGED count
              /\ pass' = [pass EXCEPT ![j].todo = @ \ {l}]
        /\ UNCHANGED <<disk, due, flight, newest>>

\* and unlink it, with its writer's legacy namespace.
Unlink(j) ==
    LET l == pass[j].victim
    IN  /\ pass[j].at = "unlink"
        /\ log' = [log EXCEPT ![l] = {}]
        /\ file' = [f \in Files |-> IF f.ns = l THEN "absent" ELSE file[f]]
        /\ pass' = [pass EXCEPT ![j].at = "prune", ![j].todo = @ \ {l},
                                ![j].victim = None]
        /\ UNCHANGED <<due, flight, count, newest>>

\* The sweeps are skipped when a log was not read.
StartSweep(j) ==
    /\ pass[j].at = "prune" /\ pass[j].todo = {}
    /\ pass' = [pass EXCEPT
           ![j].at = IF pass[j].unread = {} THEN "sweep" ELSE "own",
           ![j].todo = IF pass[j].unread # {} THEN {}
                       ELSE {f \in PoolFiles : Present(f)} \ KeptSpills(j)]
    /\ UNCHANGED <<disk, due, flight, count, newest>>

\* A file of the pool that nothing refers to: stat it, and if it is old
Probe(j, f) ==
    /\ pass[j].at = "sweep" /\ f \in pass[j].todo
    /\ pass' = [pass EXCEPT
           ![j].todo = @ \ {f},
           ![j].at = IF file[f] = "old" THEN "delete" ELSE @,
           ![j].victim = IF file[f] = "old" THEN f ELSE None]
    /\ UNCHANGED <<disk, due, flight, count, newest>>

\* delete it.
Delete(j) ==
    /\ pass[j].at = "delete"
    /\ file' = [file EXCEPT ![pass[j].victim] = "absent"]
    /\ pass' = [pass EXCEPT ![j].at = "sweep", ![j].victim = None]
    /\ UNCHANGED <<log, due, flight, count, newest>>

\* The old files of our own namespace and of the writers named, unless an
\* adoption from there failed or a kept record refers to them.
SweepLegacy(j) ==
    LET scope == ({j} \cup Prune) \ pass[j].failed
    IN  /\ pass[j].at = "sweep" /\ pass[j].todo = {}
        /\ file' = [f \in Files |->
               IF f.ns \in scope /\ file[f] = "old" /\ f \notin KeptSpills(j)
               THEN "absent" ELSE file[f]]
        /\ pass' = [pass EXCEPT ![j].at = "own"]
        /\ UNCHANGED <<log, due, flight, count, newest>>

\* Our own namespace goes as a whole, and the pass ends.
RemoveOwn(j) ==
    /\ pass[j].at = "own"
    /\ file' = IF j \in pass[j].failed THEN file
               ELSE [f \in Files |-> IF f.ns = j THEN "absent" ELSE file[f]]
    /\ pass' = [pass EXCEPT ![j] = Idle]
    /\ UNCHANGED <<log, due, flight, count, newest>>

-----------------------------------------------------------------------------
\* The process of a writer dies: its pass stops, its set never lands.
Crash(w) ==
    /\ count.crashes < MaxCrashes
    /\ count' = [count EXCEPT !.crashes = @ + 1]
    /\ flight' = [flight EXCEPT ![w] = None]
    /\ pass' = [j \in Janitors |-> IF j = w THEN Idle ELSE pass[j]]
    /\ UNCHANGED <<disk, due, newest>>

Pass(j) ==
    \/ \E blind \in SUBSET Logs : Snapshot(j, blind)
    \/ ReadLog(j) \/ Abort(j)
    \/ \E broken \in SUBSET Ours(j), linked \in BOOLEAN :
           Resolve(j, broken, linked)
    \/ Write(j) \/ \E l \in Logs : Restat(j, l)
    \/ Unlink(j) \/ StartSweep(j)
    \/ \E f \in PoolFiles : Probe(j, f)
    \/ Delete(j) \/ SweepLegacy(j) \/ RemoveOwn(j)

Next ==
    \/ \E w \in Writers :
           \/ \E k \in Keys, ref \in PoolFiles \cup {Inline}, dead \in BOOLEAN :
                  /\ dead => ref = Inline
                  /\ Put(w, [key |-> k, time |-> Start + count.puts + 1,
                             dead |-> dead, ref |-> ref])
           \/ Land(w) \/ Crash(w)
    \/ \E l \in Logs : ArriveLog(l)
    \/ \E f \in Files : ArriveFile(f) \/ Age(f)
    \/ \E j \in Janitors : Pass(j)

Spec == Init /\ [][Next]_vars

-----------------------------------------------------------------------------
\* Every variable has its type; once the spills are resolved, what the pass
\* writes names a legacy file only where an adoption failed, and what it
\* unlinks or deletes is of the right kind.
TypeOK ==
    /\ log \in [Logs -> SUBSET Records] /\ file \in [Files -> Ages]
    /\ due.logs \in [Logs -> SUBSET Records] /\ due.files \subseteq Files
    /\ \A w \in Writers : flight[w] \in Records \cup {None}
    /\ newest \in [Keys -> 0 .. Start + MaxPuts]
    /\ \A j \in Janitors :
           LET p == pass[j]
           IN  /\ DOMAIN p.snap \cap p.unread \subseteq Logs
               /\ p.failed \subseteq Logs /\ p.dropped \subseteq p.found
               /\ \A r \in p.out :
                      /\ r \in Records /\ ~r.dead
                      /\ \/ r.ref = Inline \/ r.ref \in PoolFiles
                         \/ r.ref.ns \in p.failed
               /\ p.at = "unlink" => p.victim \in PruneLogs(j)
               /\ p.at = "delete" => p.victim \in PoolFiles

\* A reader finds the newest record of k and its value.
Served(k) ==
    \E a \in Latest(OnDisk) :
        /\ a.rec.key = k /\ a.rec.time = newest[k]
        /\ ~a.rec.dead /\ Present(a.rec.ref)
Superseded(k) == newest'[k] # newest[k]

\* The windows the code leaves open: a set may refresh a pool file between its
\* stat and its deletion, a log may grow between its second stat and its
\* unlinking, and a value may arrive after its absence dropped the record.
Raced ==
    \E j \in Janitors :
        \/ /\ pass[j].at = "delete" /\ pass'[j].at = "sweep"
           /\ file[pass[j].victim] = "young"
        \/ /\ pass[j].at = "unlink" /\ pass'[j].at = "prune"
           /\ log[pass[j].victim] # pass[j].snap[pass[j].victim]
        \/ /\ pass[j].at \in {"write", "unlink"} /\ pass'[j].at = "prune"
           /\ \E a \in pass[j].dropped : Present(a.rec.ref)

\* Once a key's newest record can be read it can be read until a newer one
\* supersedes it, whatever the pass folds, prunes, adopts and sweeps, and
\* wherever it fails or dies (consolidate: "never lost", the grace window).
ReadableStaysReadable ==
    [][\A k \in Keys : Served(k) => Served(k)' \/ Superseded(k) \/ Raced]_vars

Carried(k, logs) ==
    \E l \in logs : \E r \in log[l] : r.key = k /\ r.time = newest[k] /\ ~r.dead

\* The newest record of a key that a conflict copy carries stays on disk, its
\* value delivered or not: "kept until that spill lands, so no record is lost".
UnsyncedCopiesStay ==
    [][\A k \in Keys :
          Carried(k, Copies) => Carried(k, Logs)' \/ Superseded(k) \/ Raced]_vars

\* A pass that has read every log leaves no file in the pool that was past its
\* grace when the pass began and that no live record on disk refers to.
GarbageIsSwept ==
    \A j \in Janitors :
        (pass[j].at = "own" /\ pass[j].unread = {}) =>
            \A f \in PoolFiles : file[f] = "old" =>
                \E l \in Logs : \E r \in log[l] : r.ref = f
=============================================================================
