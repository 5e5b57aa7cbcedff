------------------------------ MODULE Transfer ------------------------------
(***************************************************************************)
(* src/emboss/_transfer.py: transfer(source, destination, clear_source),   *)
(* out of a FileCache that other threads and processes go on using.  The   *)
(* clear at its end is an ordinary FileCache call, `Clearer`.              *)
(*                                                                         *)
(* The destination is private to the transfer, so that a `get` from the    *)
(* source and the `set` that follows it are one step, taken at the read.   *)
(***************************************************************************)
EXTENDS FileCache

CONSTANTS
    Clearer,
    Bare      \* the values in files of the older format, without their key

ASSUME ClearerAssumption == Clearer \in Calls /\ Bare \subseteq Earlier

VARIABLES
    phase,    \* "list", "copy" or "end"
    todo,     \* the keys yielded and not yet copied
    skipped,  \* whether a key was left behind
    dest,     \* the value of each key at the destination
    late,     \* history: the keys stored since they were copied, or listed
    unread    \* history: the keys whose file the listing could not read

transferVars == <<phase, todo, skipped, dest, late, unread>>
vars == <<fileVars, transferVars>>

-----------------------------------------------------------------------------
TransferInit ==
    /\ Init
    /\ phase = "list" /\ todo = {} /\ skipped = FALSE
    /\ dest = [k \in Keys |-> NoFile]
    /\ late = {} /\ unread = {}

\* FileCache.__iter__ yields every key whose file can be read and holds it.
Listed(lost) == {k \in Present \ lost : files[k].val \notin Bare}

\* Files that cannot be read are passed over, and not counted as skipped.  An
\* error of another kind (a value's class that is gone) ends the transfer.
List ==
    /\ phase = "list"
    /\ \/ \E lost \in SUBSET Present :
             /\ phase' = "copy" /\ todo' = Listed(lost) /\ unread' = lost
             /\ faults' = faults + Cardinality(lost) /\ faults' <= MaxFaults
       \/ Fault /\ phase' = "end" /\ UNCHANGED <<todo, unread>>
    /\ UNCHANGED <<clock, tree, total, control, slack, skipped, dest, late>>

Skip(k) ==
    todo' = todo \ {k} /\ skipped' = TRUE /\ UNCHANGED <<phase, dest, late>>

\* The key reads as a miss: its file has gone, or cannot be read.
CopyMissed(k) ==
    /\ k \notin Present \/ faults < MaxFaults
    /\ faults' = IF k \in Present THEN faults + 1 ELSE faults
    /\ Skip(k)
    /\ UNCHANGED files

Mark(k) == files' = [files EXCEPT ![k].used = clock]

\* destination.set returns or refuses (False), or one of the two calls raises.
CopyRead(k) ==
    /\ k \in Present
    /\ Mark(k)
    /\ \/ /\ dest' = [dest EXCEPT ![k] = files[k].val]
          /\ todo' = todo \ {k} /\ late' = late \ {k}
          /\ UNCHANGED <<phase, skipped, faults>>
       \/ Fault /\ Skip(k)
       \/ Fault /\ phase' = "end" /\ UNCHANGED <<todo, skipped, dest, late>>

Copy(k) ==
    /\ phase = "copy" /\ k \in todo
    /\ CopyMissed(k) \/ CopyRead(k)
    /\ UNCHANGED <<clock, temps, shards, total, control, slack, unread>>

\* Defect: the source is cleared although keys were left behind.
FinishAnyway ==
    /\ phase = "copy" /\ todo = {} /\ phase' = "end"
    /\ Begin(Clearer)
    /\ UNCHANGED <<todo, skipped, dest, late, unread>>

\* `if clear_source and not skipped: source.clear()`.
Finish ==
    /\ phase = "copy" /\ todo = {} /\ phase' = "end"
    /\ \/ ~skipped /\ Begin(Clearer)
       \/ UNCHANGED fileVars
    /\ UNCHANGED <<todo, skipped, dest, late, unread>>

-----------------------------------------------------------------------------
\* A step of the source's other users, or of the clear once it has begun.
SourceStep(c) ==
    /\ (c # Clearer /\ Begin(c)) \/ Step(c)
    /\ late' = IF pc[c] = "replace" /\ pc'[c] = "account"
               THEN late \cup {Key(c)} ELSE late
    /\ UNCHANGED <<phase, todo, skipped, dest, unread>>

\* The transfer dies with the process that runs it.
ProcessDies(i) ==
    /\ Crash(i)
    /\ phase' = IF i = Inst(Clearer) THEN "end" ELSE phase
    /\ UNCHANGED <<todo, skipped, dest, late, unread>>

Finished ==
    /\ phase = "end" /\ Running = {}
    /\ \A c \in Calls : pc[c] = "end" \/ c = Clearer
    /\ UNCHANGED vars

Next ==
    \/ List
    \/ \E k \in Keys : Copy(k)
    \/ Finish
    \/ \E c \in Calls : SourceStep(c)
    \/ \E i \in Instances : ProcessDies(i)
    \/ Tick /\ UNCHANGED transferVars
    \/ Finished

Spec == TransferInit /\ [][Next]_vars

-----------------------------------------------------------------------------
\* Every variable has its type, and a temporary file is that of a set between
\* its dump and its replace, or of one whose process died there: a failing set
\* leaves none behind.
TypeOK ==
    LET File == [val : Setters, size : Nat, used : 0 .. MaxClock]
        Stat == [key : Keys, size : Nat, used : 0 .. MaxClock]
    IN  /\ clock \in 0 .. MaxClock /\ faults \in 0 .. MaxFaults
        /\ files \in [Keys -> File \cup {NoFile}]
        /\ shards \subseteq Keys
        /\ total \in [Instances -> Int \cup {Unknown}]
        /\ slack \in [Instances -> Nat] /\ delta \in [Calls -> Int]
        /\ \A n \in DOMAIN temps : temps[n] # Pending =>
              /\ temps[n] \in Calls
              /\ pc[temps[n]] = "replace" \/ answer[temps[n]] = "killed"
        /\ \A c \in Calls :
              /\ req[c] \in Requests \cup {NoRequest}
              /\ scanned[c] \subseteq Stat
              /\ scanned[c] # {} => pc[c] \in {"unlink", "wipe"}
              /\ answer[c] \in Setters \cup {Pending, "miss", "unread", "done",
                                             "raised", "killed"}
              /\ pc[c] = "end" <=> answer[c] # Pending
        /\ phase \in {"list", "copy", "end"} /\ todo \subseteq Keys
        /\ skipped \in BOOLEAN /\ late \subseteq Keys /\ unread \subseteq Keys
        /\ dest \in [Keys -> Setters \cup {NoFile}]

\* One cell per key without any lock: a set lands at its os.replace, even if it
\* raises afterwards, a get answers what was at the path when it was opened,
\* and an unreadable file is a failed call, never another value.
Outcome == [c \in Calls |->
    CASE answer[c] = "unread" -> "raised"
      [] answer[c] \notin {"unread", Pending} -> answer[c]
      [] /\ answer[c] = Pending
         /\ pc[c] \in {"account", "scan", "add", "evict", "unlink"} -> "done"
      [] OTHER -> Pending]
Cell == [k \in Keys |->
    IF files[k] = NoFile THEN NoFile
    ELSE [val |-> files[k].val, mortal |-> FALSE]]
Abstract == INSTANCE CacheProtocol WITH
    Empty <- NoFile, cell <- Cell, outcome <- Outcome
ImplementsCacheProtocol == Abstract!Spec

\* While the sets of a cache come from one thread and nothing clears it, its
\* instance never counts less than there is, and each set that returns leaves
\* the cache within its limit, whatever other threads and processes read and
\* delete meanwhile: but for the shrinking of an entry by the first set of an
\* instance, which is counted twice ("so a pre-existing cache is accounted
\* for").
SoleWriterStaysBounded ==
    LET Begun(op) == {c \in Calls : req[c] # NoRequest /\ req[c].op = op}
        sets == Begun("set")
    IN  /\ \A c, d \in sets : c = d \/ c \in After[d] \/ d \in After[c]
        /\ sets \cap Running = {}
        /\ Begun("clear") \cup Begun("nuke") = {}
        => \A c \in sets :
              /\ total[Inst(c)] # Unknown =>
                    Volume <= total[Inst(c)] + slack[Inst(c)]
              /\ (\A d \in sets : answer[d] = "done") =>
                    Volume <= SizeLimit + slack[Inst(c)]

\* clear_source removes no value that the destination does not have, unless it
\* was stored after its key was copied or the keys were listed, or is one that
\* __iter__ did not yield, in a file that holds no key or that could not be read
\* during the listing: "Deleting the only copy of what wasn't transferred is
\* never safe", but "the refusal can only guard keys the source actually
\* yielded".
TransferLosesNothing ==
    [][\A k \in Present \ Present' :
          scanned'[Clearer] # scanned[Clearer] =>
             \/ dest[k] = files[k].val
             \/ k \in late
             \/ files[k].val \in Bare \/ k \in unread]_vars

=============================================================================
