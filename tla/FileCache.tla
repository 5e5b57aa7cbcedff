----------------------------- MODULE FileCache -----------------------------
(***************************************************************************)
(* src/emboss/_file_cache.py: a directory with one file per key, shared    *)
(* without any lock by the FileCache instances of several processes and    *)
(* by their threads.  A call is executed once; a value is the call that    *)
(* stored it.  Every file-system call that another process can see is a    *)
(* step; a scan of the tree is one step.                                   *)
(*                                                                         *)
(* A key stands for its path (`_key_to_path`), alone in its shard.         *)
(***************************************************************************)
EXTENDS Integers, FiniteSetsExt, Functions

CONSTANTS
    Calls, Instances, Keys,
    InstanceOf,   \* the instance each call uses
    After,        \* the calls that its thread makes before a call
    Does,         \* the requests each call may be
    Earlier,      \* the sets completed before any of the calls
    InitFiles,    \* the files they may have left
    SizeLimit,
    MaxClock, MaxFaults,   \* bounds
    NoFile, NoRequest, Unknown, Pending

Setters == Calls \cup Earlier
Requests == [op : {"get", "set", "delete", "clear", "nuke"}, key : Keys,
             size : Nat]

ASSUME CallsAssumption ==
    /\ InstanceOf \in [Calls -> Instances]
    /\ Does \in [Calls -> SUBSET Requests]
ASSUME ThreadsAssumption ==
    /\ After \in [Calls -> SUBSET Calls]
    /\ \A c \in Calls : \A d \in After[c] : InstanceOf[d] = InstanceOf[c]
ASSUME FilesAssumption ==
    /\ IsFiniteSet(Keys)
    /\ InitFiles \subseteq
           [Keys -> [val : Earlier, size : Nat, used : {0}] \cup {NoFile}]
ASSUME NumbersAssumption ==
    SizeLimit \in Nat /\ MaxClock \in Nat /\ MaxFaults \in Nat
ASSUME NoneAssumption ==
    /\ NoFile \notin [val : Setters, size : Nat, used : Nat]
                     \cup [val : Setters, mortal : BOOLEAN]
    /\ NoRequest \notin Requests
    /\ Unknown \notin Int
    /\ Pending \notin Setters \cup {"miss", "unread", "done", "raised",
                                    "killed"}
    /\ "unread" \notin Setters

VARIABLES
    clock,
    files,    \* the file of each key: value, size, mtime
    temps,    \* the temporary files
    shards,   \* the keys whose directory exists
    total,    \* self._size of each instance
    pc, req,
    delta,    \* of a set: the old size, then by how much the file has grown
    scanned,  \* what an eviction or a clear has found
    answer,
    faults,   \* how many reads and sets have failed and processes died
    slack     \* history: by how much the first total of an instance is too low

tree == <<files, temps, shards>>
control == <<pc, req, delta, scanned, answer>>
fileVars == <<clock, tree, total, control, faults, slack>>

-----------------------------------------------------------------------------
Present == {k \in Keys : files[k] # NoFile}
Key(c) == req[c].key
Inst(c) == InstanceOf[c]

SizeAt(k) == IF files[k] = NoFile THEN 0 ELSE files[k].size

\* _scan_size.
Volume == SumFunction([k \in Keys |-> SizeAt(k)])

\* Defect: the temporary file is named by the key alone.
TempByKey(c) == Key(c)

\* mkstemp: a name of its own.
TempOf(c) == c

Init ==
    /\ clock = 0
    /\ files \in InitFiles
    /\ temps = [n \in Calls \cup Keys |-> Pending]
    /\ shards = Present
    /\ total = [i \in Instances |-> Unknown]
    /\ pc = [c \in Calls |-> "idle"]
    /\ req = [c \in Calls |-> NoRequest]
    /\ delta = [c \in Calls |-> 0]
    /\ scanned = [c \in Calls |-> {}]
    /\ answer = [c \in Calls |-> Pending]
    /\ faults = 0
    /\ slack = [i \in Instances |-> 0]

Goto(c, label) ==
    pc' = [pc EXCEPT ![c] = label] /\ UNCHANGED <<answer, scanned>>

Reply(c, a) ==
    /\ pc' = [pc EXCEPT ![c] = "end"]
    /\ answer' = [answer EXCEPT ![c] = a]
    /\ scanned' = [scanned EXCEPT ![c] = {}]

Fault == faults < MaxFaults /\ faults' = faults + 1

Remember(c, n) == total' = [total EXCEPT ![Inst(c)] = n]
Unlink(k) == files' = [files EXCEPT ![k] = NoFile]
DropTemp(c) == temps' = [temps EXCEPT ![TempOf(c)] = Pending]

Begin(c) ==
    /\ pc[c] = "idle"
    /\ \A d \in After[c] : pc[d] = "end"
    /\ \E r \in Does[c] :
          /\ req' = [req EXCEPT ![c] = r]
          /\ shards' = IF r.op = "set" THEN shards \cup {r.key} ELSE shards
          /\ Goto(c, r.op)
    /\ UNCHANGED <<clock, files, temps, total, delta, faults, slack>>

-----------------------------------------------------------------------------
\* get: exists, and utime on what is there.
Touch(c) ==
    /\ pc[c] = "get"
    /\ \/ /\ files[Key(c)] = NoFile /\ Reply(c, "miss") /\ UNCHANGED files
       \/ /\ files[Key(c)] # NoFile /\ Goto(c, "read")
          /\ files' = [files EXCEPT ![Key(c)].used = clock]
    /\ UNCHANGED <<clock, temps, shards, total, req, delta, faults, slack>>

\* A file that has gone in between reads as a miss, and so does one that is
\* there and cannot be read: "unread".
Read(c) ==
    /\ pc[c] = "read"
    /\ \/ files[Key(c)] = NoFile /\ Reply(c, "miss") /\ UNCHANGED faults
       \/ /\ files[Key(c)] # NoFile /\ Reply(c, files[Key(c)].val)
          /\ UNCHANGED faults
       \/ files[Key(c)] # NoFile /\ Reply(c, "unread") /\ Fault
    /\ UNCHANGED <<clock, tree, total, req, delta, slack>>

-----------------------------------------------------------------------------
\* set, its directory made: exists,
Exists(c) ==
    /\ pc[c] = "set"
    /\ Goto(c, IF files[Key(c)] = NoFile THEN "temp" ELSE "stat")
    /\ UNCHANGED <<clock, tree, total, req, delta, faults, slack>>

\* stat, which raises if the file has gone,
StatOld(c) ==
    /\ pc[c] = "stat"
    /\ \/ files[Key(c)] = NoFile /\ Reply(c, "raised") /\ UNCHANGED delta
       \/ /\ files[Key(c)] # NoFile /\ Goto(c, "temp")
          /\ delta' = [delta EXCEPT ![c] = files[Key(c)].size]
    /\ UNCHANGED <<clock, tree, total, req, faults, slack>>

\* mkstemp, which raises if a clear has removed the directory, and the dump,
Dump(c) ==
    /\ pc[c] = "temp"
    /\ \/ Key(c) \notin shards /\ Reply(c, "raised") /\ UNCHANGED temps
       \/ /\ Key(c) \in shards /\ Goto(c, "replace")
          /\ temps' = [temps EXCEPT ![TempOf(c)] = c]
    /\ UNCHANGED <<clock, files, shards, total, req, delta, faults, slack>>

\* Defect: a failing set leaves its temporary file.
AbandonTemp(c) ==
    /\ pc[c] = "replace"
    /\ IF temps[TempOf(c)] = Pending THEN UNCHANGED faults ELSE Fault
    /\ Reply(c, "raised")
    /\ UNCHANGED <<clock, tree, total, req, delta, slack>>

\* The dump or the replace fails (always when a nuke took the file).
Abandon(c) ==
    /\ pc[c] = "replace"
    /\ IF temps[TempOf(c)] = Pending THEN UNCHANGED faults ELSE Fault
    /\ DropTemp(c)
    /\ Reply(c, "raised")
    /\ UNCHANGED <<clock, files, shards, total, req, delta, slack>>

\* os.replace.
Replace(c) ==
    /\ pc[c] = "replace" /\ temps[TempOf(c)] # Pending
    /\ files' = [files EXCEPT ![Key(c)] =
           [val |-> temps[TempOf(c)], size |-> req[c].size, used |-> clock]]
    /\ DropTemp(c)
    /\ Goto(c, "account")
    /\ UNCHANGED <<clock, shards, total, req, delta, faults, slack>>

\* The stat of what is now at the path; it raises if that has gone.
StatNew(c) ==
    /\ pc[c] = "account"
    /\ \/ files[Key(c)] = NoFile /\ Reply(c, "raised") /\ UNCHANGED delta
       \/ /\ files[Key(c)] # NoFile
          /\ delta' = [delta EXCEPT ![c] = files[Key(c)].size - @]
          /\ Goto(c, IF total[Inst(c)] = Unknown THEN "scan" ELSE "add")
    /\ UNCHANGED <<clock, tree, total, req, faults, slack>>

Shrinks(c) == Max({0, 0 - delta[c]})

\* Defect: an unknown total is taken for nothing.
ScanNothing(c) ==
    /\ pc[c] = "scan"
    /\ Remember(c, 0) /\ slack' = [slack EXCEPT ![Inst(c)] = Shrinks(c)]
    /\ Goto(c, "add")
    /\ UNCHANGED <<clock, tree, req, delta, faults>>

\* An unknown total is taken from the tree, in which the replacement is
\* counted already.
Scan(c) ==
    /\ pc[c] = "scan"
    /\ Remember(c, Volume) /\ slack' = [slack EXCEPT ![Inst(c)] = Shrinks(c)]
    /\ Goto(c, "add")
    /\ UNCHANGED <<clock, tree, req, delta, faults>>

\* `self._size += delta`: a TypeError if a delete has just made it None.
Add(c) ==
    LET sum == total[Inst(c)] + delta[c]
    IN  /\ pc[c] = "add"
        /\ \/ total[Inst(c)] = Unknown /\ Reply(c, "raised") /\ UNCHANGED total
           \/ /\ total[Inst(c)] # Unknown /\ Remember(c, sum)
              /\ \/ sum > SizeLimit /\ Goto(c, "evict")
                 \/ sum <= SizeLimit /\ Reply(c, "done")
        /\ UNCHANGED <<clock, tree, req, delta, faults, slack>>

-----------------------------------------------------------------------------
\* The files a glob finds, with their stat.
Found == {[key |-> k, size |-> files[k].size, used |-> files[k].used] :
             k \in Present}

\* _evict: the total is taken anew,
StartEvict(c) ==
    /\ pc[c] = "evict"
    /\ Remember(c, Volume) /\ slack' = [slack EXCEPT ![Inst(c)] = 0]
    /\ \/ Volume <= SizeLimit /\ Reply(c, "done")
       \/ /\ Volume > SizeLimit /\ pc' = [pc EXCEPT ![c] = "unlink"]
          /\ scanned' = [scanned EXCEPT ![c] = Found] /\ UNCHANGED answer
    /\ UNCHANGED <<clock, tree, req, delta, faults>>

Oldest(E) == {e \in E : \A f \in E : \/ e.used < f.used
                                     \/ e.used = f.used /\ e.size <= f.size}

\* and the oldest of what was found go, until 90 % of the limit is reached.
EvictOne(c) ==
    /\ pc[c] = "unlink" /\ total[Inst(c)] # Unknown
    /\ scanned[c] # {} /\ 10 * total[Inst(c)] > 9 * SizeLimit
    /\ \E e \in Oldest(scanned[c]) :
          /\ Unlink(e.key)
          /\ Remember(c, IF e.key \in Present THEN total[Inst(c)] - e.size
                                              ELSE total[Inst(c)])
          /\ scanned' = [scanned EXCEPT ![c] = @ \ {e}]
    /\ UNCHANGED <<clock, temps, shards, pc, req, delta, answer, faults,
                   slack>>

EndEvict(c) ==
    /\ pc[c] = "unlink"
    /\ \/ total[Inst(c)] = Unknown /\ scanned[c] # {} /\ Reply(c, "raised")
       \/ scanned[c] = {} /\ Reply(c, "done")
       \/ /\ total[Inst(c)] # Unknown /\ 10 * total[Inst(c)] <= 9 * SizeLimit
          /\ Reply(c, "done")
    /\ UNCHANGED <<clock, tree, total, req, delta, faults, slack>>

-----------------------------------------------------------------------------
Delete(c) ==
    /\ pc[c] = "delete"
    /\ Unlink(Key(c))
    /\ IF Key(c) \in Present THEN Remember(c, Unknown) ELSE UNCHANGED total
    /\ Reply(c, "done")
    /\ UNCHANGED <<clock, temps, shards, req, delta, faults, slack>>

\* clear: the files found are unlinked one by one,
StartClear(c) ==
    /\ pc[c] = "clear"
    /\ pc' = [pc EXCEPT ![c] = "wipe"]
    /\ scanned' = [scanned EXCEPT ![c] = Found]
    /\ UNCHANGED <<clock, tree, total, req, delta, answer, faults, slack>>

ClearOne(c) ==
    /\ pc[c] = "wipe"
    /\ \E e \in scanned[c] :
          Unlink(e.key) /\ scanned' = [scanned EXCEPT ![c] = @ \ {e}]
    /\ UNCHANGED <<clock, temps, shards, total, pc, req, delta, answer, faults,
                   slack>>

\* then the empty directories.
EndClear(c) ==
    LET busy == {Key(d) : d \in {d \in Calls : req[d] # NoRequest
                                               /\ temps[TempOf(d)] # Pending}}
    IN  /\ pc[c] = "wipe" /\ scanned[c] = {}
        /\ shards' = shards \cap (Present \cup busy)
        /\ Remember(c, 0)
        /\ Reply(c, "done")
        /\ UNCHANGED <<clock, files, temps, req, delta, faults, slack>>

Nuke(c) ==
    /\ pc[c] = "nuke"
    /\ files' = [k \in Keys |-> NoFile]
    /\ temps' = [n \in DOMAIN temps |-> Pending]
    /\ shards' = {}
    /\ Remember(c, 0)
    /\ Reply(c, "done")
    /\ UNCHANGED <<clock, req, delta, faults, slack>>

-----------------------------------------------------------------------------
Tick ==
    /\ clock < MaxClock
    /\ clock' = clock + 1
    /\ UNCHANGED <<tree, total, control, faults, slack>>

Running == {c \in Calls : pc[c] \notin {"idle", "end"}}

\* A process dies, and its temporary files stay.
Crash(i) ==
    LET dying == {c \in Running : Inst(c) = i}
    IN  /\ dying # {} /\ Fault
        /\ pc' = [c \in Calls |-> IF c \in dying THEN "end" ELSE pc[c]]
        /\ answer' = [c \in Calls |->
                         IF c \in dying THEN "killed" ELSE answer[c]]
        /\ scanned' = [c \in Calls |-> IF c \in dying THEN {} ELSE scanned[c]]
        /\ total' = [total EXCEPT ![i] = Unknown]
        /\ UNCHANGED <<clock, tree, req, delta, slack>>

Set(c) ==
    \/ Exists(c) \/ StatOld(c) \/ Dump(c) \/ Abandon(c) \/ Replace(c)
    \/ StatNew(c) \/ Scan(c) \/ Add(c)
    \/ StartEvict(c) \/ EvictOne(c) \/ EndEvict(c)

Step(c) ==
    \/ Touch(c) \/ Read(c) \/ Set(c) \/ Delete(c)
    \/ StartClear(c) \/ ClearOne(c) \/ EndClear(c) \/ Nuke(c)

=============================================================================
