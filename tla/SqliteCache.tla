---------------------------- MODULE SqliteCache ----------------------------
(***************************************************************************)
(* src/emboss/_sqlite_cache.py: one database shared by the SqliteCache     *)
(* instances of several processes, each used by several threads.  Large    *)
(* values live in spill files, which no transaction covers: a spill is     *)
(* written before the lock is taken, removed before the transaction that   *)
(* drops its row commits, and read after both are released.                *)
(*                                                                         *)
(* A call is executed once; a value is the call that stored it.  Between   *)
(* BEGIN IMMEDIATE and COMMIT other connections read the committed `db`    *)
(* (WAL) while the writer works on `draft`.                                *)
(***************************************************************************)
EXTENDS Integers, FiniteSetsExt, Functions

CONSTANTS
    Calls, Instances, Keys,
    InstanceOf,   \* the instance (process) each call uses
    Does,         \* the requests each call may be
    Earlier,      \* the sets completed before any of the calls
    InitRows,     \* the rows they may have left
    MinFileSize, SizeLimit,
    Policies,     \* the eviction policies the cache may be opened with
    MaxClock, MaxFaults,   \* bounds
    NoRow, NoFile, NoRequest, Nobody, Pending

LRU == "least-recently-used"
Forever == MaxClock + 1
Setters == Calls \cup Earlier
Requests == [op : {"get", "set", "delete", "clear", "expire"}, key : Keys,
             size : Nat, life : {0, Forever}]

Rows == [id : Nat \ {0}, val : Setters, size : Nat,
         file : Setters \cup Keys \cup {NoFile},
         stored : 0 .. MaxClock, used : 0 .. MaxClock, dies : 0 .. Forever]

Sizes(rows) == [k \in Keys |-> IF rows[k] = NoRow THEN 0 ELSE rows[k].size]

ASSUME CallsAssumption ==
    /\ InstanceOf \in [Calls -> Instances]
    /\ Does \in [Calls -> SUBSET Requests]
    /\ Calls \cap Earlier = {}
\* Earlier calls kept the same limit, and named their spills as these do.
ASSUME RowsAssumption ==
    /\ IsFiniteSet(Keys)
    /\ InitRows \subseteq [Keys -> Rows \cup {NoRow}]
    /\ \A rows \in InitRows :
          /\ SumFunctionOnSet(Sizes(rows), Keys) <= SizeLimit
          /\ \A k \in Keys : rows[k] # NoRow =>
                /\ rows[k].val \in Earlier
                /\ rows[k].file \in {rows[k].val, NoFile}
                /\ \A j \in Keys : rows[j] # NoRow =>
                                     rows[j].val # rows[k].val \/ j = k
ASSUME NumbersAssumption ==
    /\ MinFileSize \in Nat /\ SizeLimit \in Nat
    /\ MaxClock \in Nat /\ MaxFaults \in Nat
ASSUME NoneAssumption ==
    /\ NoRow \notin Rows \cup [val : Setters, mortal : BOOLEAN]
    /\ NoFile \notin Setters \cup Keys
    /\ NoRequest \notin Requests
    /\ Nobody \notin Calls
    /\ Pending \notin Setters \cup {"miss", "done", "raised", "killed"}

VARIABLES
    clock,
    policy,   \* self.eviction_policy
    db,       \* the committed rows, and Settings 'size'
    draft,    \* the same inside the open transaction
    spills,   \* the contents of the spill files
    writer,   \* the call that holds SQLite's write lock
    guard,    \* the call that holds each self._lock
    pc, req,
    now,      \* time.time() at the start of the call
    hand,     \* the row a get has selected
    answer,
    faults,   \* how many transactions have failed and processes died
    swept     \* history: the spills that a clear's rmtree or a retry found gone

disk == <<db, draft, spills, writer>>
control == <<guard, pc, req, now, hand, answer>>
vars == <<clock, policy, disk, control, faults, swept>>

-----------------------------------------------------------------------------
Present(t) == {k \in Keys : t.rows[k] # NoRow}
SizeOf(t, S) == SumFunctionOnSet(Sizes(t.rows), S)
Expired(row, time) == row # NoRow /\ row.dies < time

\* rowid INTEGER PRIMARY KEY: one more than the largest in use.
NextId(t) == Max({0} \cup {t.rows[k].id : k \in Present(t)}) + 1

\* Defect: no Settings_size_update trigger.
UpsertUncounted(t, k, row) ==
    IF t.rows[k] # NoRow
    THEN [t EXCEPT !.rows[k] = [row EXCEPT !.id = t.rows[k].id]]
    ELSE [rows |-> [t.rows EXCEPT ![k] = row], size |-> t.size + row.size]

\* INSERT ... ON CONFLICT(key) DO UPDATE, with the triggers on size.
Upsert(t, k, row) ==
    IF t.rows[k] # NoRow
    THEN [rows |-> [t.rows EXCEPT ![k] = [row EXCEPT !.id = t.rows[k].id]],
          size |-> t.size + row.size - t.rows[k].size]
    ELSE [rows |-> [t.rows EXCEPT ![k] = row], size |-> t.size + row.size]

\* DELETE, with its trigger.
Delete(t, S) ==
    [rows |-> [k \in Keys |-> IF k \in S THEN NoRow ELSE t.rows[k]],
     size |-> t.size - SizeOf(t, S)]

\* The row a rowid names by now.
WithId(t, id) == {k \in Present(t) : t.rows[k].id = id}

FilesOf(t, S) == {t.rows[k].file : k \in S \cap Present(t)} \ {NoFile}

\* The order of _cull: the policy's column, then the rowid.
Age(row) == IF policy = LRU THEN row.used ELSE row.stored
Before(a, b) == \/ Age(a) < Age(b)
                \/ Age(a) = Age(b) /\ a.id < b.id

\* _cull: above the limit, the oldest rows go until 90 % of it is reached.
Victims(t) ==
    IF t.size <= SizeLimit THEN {}
    ELSE {k \in Present(t) :
             LET gone == {j \in Present(t) : Before(t.rows[j], t.rows[k])}
             IN  10 * (t.size - SizeOf(t, gone)) > 9 * SizeLimit}

-----------------------------------------------------------------------------
Spilled(r) == r.op = "set" /\ r.size >= MinFileSize

\* Defect: the spill file is named by the key.
SpillByKey(c, r) == IF Spilled(r) THEN r.key ELSE NoFile

\* uuid4: no two sets share a name.
SpillOf(c, r) == IF Spilled(r) THEN c ELSE NoFile

Row(c) == [id |-> NextId(db), val |-> c, size |-> req[c].size,
           file |-> SpillOf(c, req[c]), stored |-> now[c], used |-> now[c],
           dies |-> IF req[c].life = Forever THEN Forever
                    ELSE now[c] + req[c].life]

\* _remove_spill.
Unlink(F) == spills' = [f \in DOMAIN spills |->
                           IF f \in F THEN Pending ELSE spills[f]]

Init ==
    /\ clock = 0 /\ policy \in Policies
    /\ \E rows \in InitRows :
          LET t == [rows |-> rows, size |-> 0]
          IN  /\ db = [t EXCEPT !.size = SizeOf(t, Keys)]
              /\ spills = [f \in Setters \cup Keys |->
                              IF f \in FilesOf(t, Keys) THEN f ELSE Pending]
    /\ draft = db
    /\ writer = Nobody
    /\ guard = [i \in Instances |-> Nobody]
    /\ pc = [c \in Calls |-> "idle"]
    /\ req = [c \in Calls |-> NoRequest]
    /\ now = [c \in Calls |-> 0]
    /\ hand = [c \in Calls |-> NoRow]
    /\ answer = [c \in Calls |-> Pending]
    /\ faults = 0
    /\ swept = {}

Goto(c, label) == pc' = [pc EXCEPT ![c] = label]
Reply(c, a) ==
    /\ Goto(c, "end")
    /\ answer' = [answer EXCEPT ![c] = a]
    /\ hand' = [hand EXCEPT ![c] = NoRow]
Release(c) == guard' = [guard EXCEPT ![InstanceOf[c]] = Nobody]

\* The clock is read and a large value spilled before any lock is taken.
Begin(c) ==
    /\ pc[c] = "idle"
    /\ \E r \in Does[c] :
          /\ req' = [req EXCEPT ![c] = r]
          /\ spills' = [f \in DOMAIN spills |->
                           IF f = SpillOf(c, r) THEN c ELSE spills[f]]
    /\ now' = [now EXCEPT ![c] = clock]
    /\ Goto(c, "enter")
    /\ UNCHANGED <<clock, policy, db, draft, writer, guard, hand, answer,
                   faults, swept>>

\* The rmtree of a clear takes the shard directory from under _write_spill.
SpillFails(c) ==
    /\ pc[c] = "idle"
    /\ \E d \in Calls : pc[d] = "sweep"
    /\ \E r \in Does[c] : Spilled(r) /\ req' = [req EXCEPT ![c] = r]
    /\ Reply(c, "raised")
    /\ UNCHANGED <<clock, policy, disk, guard, now, faults, swept>>

\* KeyboardInterrupt in the wait for self._lock, outside of set's `try`.
Interrupt(c) ==
    /\ pc[c] = "enter"
    /\ guard[InstanceOf[c]] # Nobody
    /\ Reply(c, "raised")
    /\ UNCHANGED <<clock, policy, disk, guard, req, now, faults, swept>>

\* set, delete, clear and expire take self._lock; _write follows.
EnterWrite(c) ==
    /\ pc[c] = "enter" /\ req[c].op # "get"
    /\ guard[InstanceOf[c]] = Nobody
    /\ guard' = [guard EXCEPT ![InstanceOf[c]] = c]
    /\ Goto(c, "begin")
    /\ UNCHANGED <<clock, policy, disk, req, now, hand, answer, faults, swept>>

Touches(row, time) == policy = LRU /\ row.used < time

\* get under self._lock: the SELECT, and what needs no transaction.
Select(c) ==
    /\ pc[c] = "enter" /\ req[c].op = "get"
    /\ guard[InstanceOf[c]] = Nobody
    /\ LET row == db.rows[req[c].key]
       IN  \/ row = NoRow /\ Reply(c, "miss") /\ UNCHANGED guard
           \/ /\ row # NoRow
              /\ Expired(row, now[c]) \/ Touches(row, now[c])
              /\ guard' = [guard EXCEPT ![InstanceOf[c]] = c]
              /\ hand' = [hand EXCEPT ![c] = row]
              /\ Goto(c, "begin") /\ UNCHANGED answer
           \/ /\ row # NoRow /\ row.file = NoFile
              /\ ~Expired(row, now[c]) /\ ~Touches(row, now[c])
              /\ Reply(c, row.val) /\ UNCHANGED guard
           \/ /\ row # NoRow /\ row.file # NoFile
              /\ ~Expired(row, now[c]) /\ ~Touches(row, now[c])
              /\ hand' = [hand EXCEPT ![c] = row]
              /\ Goto(c, "open") /\ UNCHANGED <<guard, answer>>
    /\ UNCHANGED <<clock, policy, disk, req, now, faults, swept>>

\* _read_spill, after self._lock; FileNotFoundError if the file has gone.
ReadSpill(c) ==
    /\ pc[c] = "open"
    /\ LET value == spills[hand[c].file]
       IN  Reply(c, IF value = Pending THEN "raised" ELSE value)
    /\ UNCHANGED <<clock, policy, disk, guard, req, now, faults, swept>>

-----------------------------------------------------------------------------
Touch(t, id, time) ==
    [t EXCEPT !.rows = [k \in Keys |-> IF k \in WithId(t, id)
                                       THEN [t.rows[k] EXCEPT !.used = time]
                                       ELSE t.rows[k]]]

\* The body of set: upsert, remove the overwritten spill, cull.
StoreBody(c) ==
    LET k == req[c].key
        t == Upsert(db, k, Row(c))
        V == Victims(t)
    IN  /\ draft' = Delete(t, V)
        /\ Unlink((FilesOf(db, {k}) \ {SpillOf(c, req[c])}) \cup FilesOf(t, V))

DropBody(S) == draft' = Delete(db, S) /\ Unlink(FilesOf(db, S))

\* get of an expired row deletes by the rowid and the filename it has read.
ExpireBody(c) ==
    /\ draft' = Delete(db, WithId(db, hand[c].id))
    /\ Unlink({hand[c].file})

TouchBody(c) ==
    draft' = Touch(db, hand[c].id, now[c]) /\ UNCHANGED spills

Body(c) ==
    LET r == req[c]
    IN  CASE r.op = "set" -> StoreBody(c)
          [] r.op = "delete" -> DropBody({r.key})
          [] r.op = "expire" ->
                DropBody({k \in Keys : Expired(db.rows[k], now[c])})
          [] r.op = "clear" -> draft' = Delete(db, Keys) /\ UNCHANGED spills
          [] OTHER -> IF Expired(hand[c], now[c]) THEN ExpireBody(c)
                                                  ELSE TouchBody(c)

\* BEGIN IMMEDIATE and the body: the files it unlinks are gone at once.
Transact(c) ==
    /\ pc[c] = "begin" /\ writer = Nobody
    /\ writer' = c
    /\ Body(c)
    /\ Goto(c, "commit")
    /\ UNCHANGED <<clock, policy, db, guard, req, now, hand, answer, faults,
                   swept>>

\* COMMIT, and what the call does next.
Commit(c) ==
    /\ pc[c] = "commit"
    /\ db' = draft /\ writer' = Nobody
    /\ \/ /\ req[c].op = "clear"
          /\ Goto(c, "sweep") /\ UNCHANGED <<guard, answer, hand>>
       \/ /\ req[c].op \in {"set", "delete", "expire"}
          /\ Reply(c, "done") /\ Release(c)
       \/ /\ req[c].op = "get" /\ Release(c)
          /\ \/ Expired(hand[c], now[c]) /\ Reply(c, "miss")
             \/ /\ ~Expired(hand[c], now[c]) /\ hand[c].file = NoFile
                /\ Reply(c, hand[c].val)
             \/ /\ ~Expired(hand[c], now[c]) /\ hand[c].file # NoFile
                /\ Goto(c, "open") /\ UNCHANGED <<answer, hand>>
    /\ UNCHANGED <<clock, policy, draft, spills, req, now, faults, swept>>

\* Defect: a set that fails keeps its spill.
RaiseOrphaning(c) == Reply(c, "raised") /\ Release(c) /\ UNCHANGED spills

\* The call raises; a set removes its spill first.
Raise(c) == Reply(c, "raised") /\ Release(c) /\ Unlink({SpillOf(c, req[c])})

\* Defect: the spill is removed although the transaction will be retried.
RetryDropping(c) ==
    /\ Goto(c, "begin") /\ Unlink({SpillOf(c, req[c])})
    /\ UNCHANGED <<guard, hand, answer>>

\* "database is locked": once more from BEGIN.
Retry(c) == Goto(c, "begin") /\ UNCHANGED <<guard, hand, answer, spills>>

\* Defect: no ROLLBACK.
RollbackNot(c) ==
    /\ pc[c] = "commit" /\ faults < MaxFaults
    /\ faults' = faults + 1
    /\ Raise(c)
    /\ UNCHANGED <<clock, policy, db, draft, writer, req, now, swept>>

\* The body or the COMMIT fails: the rows are back, the unlinked files are not.
Rollback(c) ==
    /\ pc[c] = "commit" /\ faults < MaxFaults
    /\ faults' = faults + 1
    /\ draft' = db /\ writer' = Nobody
    /\ Retry(c) \/ Raise(c)
    /\ swept' = swept \cup {f \in {SpillOf(c, req[c])} \ {NoFile} :
                               spills[f] = Pending}
    /\ UNCHANGED <<clock, policy, db, req, now>>

\* Every retry found the database locked.
GiveUp(c) ==
    /\ pc[c] = "begin" /\ writer # Nobody
    /\ Raise(c)
    /\ UNCHANGED <<clock, policy, db, draft, writer, req, now, faults, swept>>

\* The rmtree of clear, under self._lock, after the transaction.
Sweep(c) ==
    /\ pc[c] = "sweep"
    /\ Unlink(DOMAIN spills)
    /\ swept' = swept \cup {f \in DOMAIN spills : spills[f] # Pending}
    /\ Reply(c, "done") /\ Release(c)
    /\ UNCHANGED <<clock, policy, db, draft, writer, req, now, faults>>

-----------------------------------------------------------------------------
Tick ==
    /\ clock < MaxClock
    /\ clock' = clock + 1
    /\ UNCHANGED <<policy, disk, control, faults, swept>>

Running == {c \in Calls : pc[c] \notin {"idle", "end"}}

\* A process dies: SQLite drops its open transaction and its lock.
Crash(i) ==
    LET dying == {c \in Running : InstanceOf[c] = i}
    IN  /\ faults < MaxFaults /\ dying # {}
        /\ faults' = faults + 1
        /\ pc' = [c \in Calls |-> IF c \in dying THEN "end" ELSE pc[c]]
        /\ answer' = [c \in Calls |->
                         IF c \in dying THEN "killed" ELSE answer[c]]
        /\ hand' = [c \in Calls |-> IF c \in dying THEN NoRow ELSE hand[c]]
        /\ guard' = [guard EXCEPT ![i] = Nobody]
        /\ \/ writer \in dying /\ writer' = Nobody /\ draft' = db
           \/ writer \notin dying /\ UNCHANGED <<writer, draft>>
        /\ UNCHANGED <<clock, policy, db, spills, req, now, swept>>

Finished == Running = {} /\ UNCHANGED vars

Step(c) ==
    \/ EnterWrite(c) \/ Select(c) \/ ReadSpill(c) \/ Transact(c)
    \/ Commit(c) \/ Sweep(c)

Next ==
    \/ \E c \in Calls : \/ Begin(c) \/ SpillFails(c) \/ Step(c)
                        \/ Interrupt(c) \/ Rollback(c) \/ GiveUp(c)
    \/ \E i \in Instances : Crash(i)
    \/ Tick
    \/ Finished

\* While a call can go on, some call does: no more is asked of the scheduler,
\* nor any order of the locks.
Fairness == WF_vars(\E c \in Calls : Step(c))

Spec == Init /\ [][Next]_vars
FairSpec == Spec /\ Fairness

-----------------------------------------------------------------------------
\* Every variable has its type; a lock is held by the call that is in its
\* section, and there is a draft only inside a transaction.
TypeOK ==
    LET IsTable(t) == t.rows \in [Keys -> Rows \cup {NoRow}] /\ t.size \in Nat
    IN  /\ clock \in 0 .. MaxClock /\ policy \in Policies
        /\ IsTable(db) /\ IsTable(draft)
        /\ writer = Nobody => draft = db
        /\ spills \in [Setters \cup Keys -> Setters \cup {Pending}]
        /\ \A c \in Calls :
              /\ pc[c] \in {"idle", "enter", "begin", "commit", "sweep", "open",
                            "end"}
              /\ req[c] \in Requests \cup {NoRequest}
              /\ now[c] \in 0 .. MaxClock
              /\ hand[c] \in Rows \cup {NoRow}
              /\ answer[c] \in Setters \cup {Pending, "miss", "done", "raised",
                                             "killed"}
              /\ pc[c] = "end" <=> answer[c] # Pending
              /\ writer = c <=> pc[c] = "commit"
              /\ guard[InstanceOf[c]] = c
                    <=> pc[c] \in {"begin", "commit", "sweep"}
        /\ faults \in 0 .. MaxFaults
        /\ swept \subseteq DOMAIN spills

\* The rows never exceed the limit, whoever wrote them, and Settings 'size'
\* says what they hold: overwriting, culling, a rollback and a crash keep it
\* exact ("`size_limit` is enforced correctly even across processes").
WithinLimit == SizeOf(db, Keys) = db.size /\ db.size <= SizeLimit

Dangling == {f \in FilesOf(db, Keys) : spills[f] = Pending}

\* A committed row loses its spill file only to a transaction that drops the
\* row (and may yet be rolled back, or die), to the rmtree of a clear, or to a
\* cull of its own set in an attempt that was rolled back and retried; a failed
\* set, a reader and any other cull never take the file of a row that stays.
RowsKeepTheirSpills ==
    [][\A f \in Dangling' \ Dangling :
          \/ f \in swept'
          \/ writer' # Nobody /\ f \notin FilesOf(draft', Keys)]_vars

\* The spill files that no row names and that no running call will name or
\* remove.
Orphans ==
    {f \in DOMAIN spills :
        /\ spills[f] # Pending /\ f \notin FilesOf(db, Keys)
        /\ \A c \in Running : f # SpillOf(c, req[c]) /\ pc[c] # "sweep"}

\* A spill file is orphaned only by the death of a process, by an interrupt of
\* its set in the wait for self._lock, or by a reader that deletes a row by a
\* rowid it read before an overwrite; no failing transaction, overwrite, cull
\* or clear leaves one ("don't orphan the spill file on failure").
NoNewOrphans ==
    [][\A f \in Orphans' \ Orphans :
          \/ \E c \in Calls : answer'[c] = "killed" /\ answer[c] # "killed"
          \/ f \in Calls /\ pc[f] = "enter" /\ pc'[f] = "end"
          \/ \E c \in Calls : /\ pc[c] = "commit" /\ pc'[c] = "end"
                              /\ req[c].op = "get"
                              /\ Expired(hand[c], now[c])]_vars

\* Every call returns, raises or dies, also when transactions fail or are
\* retried and when another process dies in the middle of one.
EveryCallEnds == []<>(Running = {})

\* One cell per key, for the readers that open a spill file after they have
\* left the lock too: a get answers what its key held when it was selected.
Outcome == [c \in Calls |->
    CASE answer[c] # Pending -> answer[c]
      [] answer[c] = Pending /\ hand[c] = NoRow -> Pending
      [] OTHER -> IF Expired(hand[c], now[c]) THEN "miss" ELSE hand[c].val]
Cell == [k \in Keys |->
    IF db.rows[k] = NoRow THEN NoRow
    ELSE [val |-> db.rows[k].val, mortal |-> db.rows[k].dies # Forever]]
Abstract == INSTANCE CacheProtocol WITH
    Empty <- NoRow, cell <- Cell, outcome <- Outcome
ImplementsCacheProtocol == Abstract!Spec

\* A row that names a spill file has it, whenever no transaction is open
\* ("Large values spill to files ... written beside the DB and referenced by
\* filename", "Multi-process safe").
RowsHaveTheirSpills == writer = Nobody => Dangling = {}

=============================================================================
