------------------------ MODULE ConsolidationProofs ------------------------
(***************************************************************************)
(* A consolidation pass keeps its types; where one writer consolidates, it *)
(* leaves no garbage, and where moreover every legacy namespace is named   *)
(* by the log of its own writer alone, and that one is not being pruned,   *)
(* what can be read stays readable: for every set of writers, copies,      *)
(* keys, values and directories.                                           *)
(***************************************************************************)
EXTENDS Consolidation, SumTheorems

Phases == {"idle", "read", "write", "prune", "unlink", "sweep", "delete", "own"}
Tagged == [rec : Records, src : Logs]
Snaps == UNION {[D -> SUBSET Records] : D \in SUBSET Logs}
Passes == [at : Phases, snap : Snaps, unread : SUBSET Logs,
           todo : SUBSET (Logs \cup Files), found : SUBSET Tagged,
           out : SUBSET Records, failed : SUBSET Logs, dropped : SUBSET Tagged,
           victim : Logs \cup Files \cup {None}]
Dues == [logs : [Logs -> SUBSET Records], files : SUBSET Files,
         faults : SUBSET FaultKinds]

Typed ==
    /\ log \in [Logs -> SUBSET Records] /\ file \in [Files -> Ages]
    /\ due \in Dues
    /\ flight \in [Writers -> Records \cup {None}]
    /\ pass \in [Janitors -> Passes]
    /\ newest \in [Keys -> 0 .. Start + MaxPuts]
    /\ DOMAIN count = {"puts", "passes", "faults", "crashes"}
    /\ count.puts \in 0 .. MaxPuts

\* What is to be pruned.
Prunable(j) == (DOMAIN pass[j].snap \cap PruneLogs(j)) \ KeepSources(j)

\* What the place of a pass says about its sets.
Placed(j) ==
    LET p == pass[j]
    IN  /\ p.dropped \subseteq p.found
        /\ \A r \in p.out : /\ ~r.dead
                            /\ \/ r.ref = Inline \/ r.ref \in PoolFiles
                               \/ r.ref.ns \in p.failed
        /\ p.at \in {"idle", "read"} => p.out = {} /\ p.dropped = {}
        /\ p.at = "read" => p.todo \subseteq DOMAIN p.snap
        /\ p.at = "write" => p.todo = {}
        /\ p.at \in {"prune", "unlink"} => p.todo \subseteq Prunable(j)
        /\ p.at = "unlink" => p.victim \in Prunable(j)
        /\ p.at \in {"sweep", "delete"} =>
               p.unread = {} /\ p.todo \subseteq PoolFiles \ KeptSpills(j)
        /\ p.at = "delete" => p.victim \in PoolFiles \ KeptSpills(j)

Control == Typed /\ \A j \in Janitors : Placed(j)

-----------------------------------------------------------------------------
LEMMA RecordFacts ==
    ASSUME NEW r \in Records
    PROVE  /\ r.key \in Keys /\ r.time \in 1 .. Start + MaxPuts
           /\ r.time \in Nat /\ r.time <= Start + MaxPuts
           /\ r.dead \in BOOLEAN /\ r.ref \in Files \cup {Inline}
           /\ r.ref \in Files =>
                 /\ r.ref.ns \in Writers \cup {Pool} /\ r.ref.blob \in Blobs
                 /\ r.ref \notin PoolFiles => r.ref.ns \in Writers
           /\ r.ref = Inline => r.ref \notin PoolFiles
  BY NumbersAssumption, NoneAssumption DEF Records, Files, PoolFiles

LEMMA RepointedFacts ==
    ASSUME NEW r \in Records, r.ref \in Files
    PROVE  /\ Repointed(r) \in Records
           /\ Repointed(r).key = r.key /\ Repointed(r).time = r.time
           /\ Repointed(r).dead = r.dead /\ Repointed(r).ref \in PoolFiles
           /\ Repointed(r).ref = [ns |-> Pool, blob |-> r.ref.blob]
  <1>1. [ns |-> Pool, blob |-> r.ref.blob] \in PoolFiles
    BY DEF PoolFiles, Files
  <1>. QED
    BY <1>1 DEF Repointed, Records, PoolFiles

LEMMA StampTyped ==
    ASSUME NEW logs \in [Logs -> SUBSET Records], NEW k \in Keys
    PROVE  /\ StampOf(logs, k) \in 0 .. Start + MaxPuts
           /\ \A l \in Logs : \A r \in logs[l] :
                 r.key = k => r.time <= StampOf(logs, k)
           /\ StampOf(logs, k) # 0 =>
                 \E l \in Logs : \E r \in logs[l] :
                    r.key = k /\ r.time = StampOf(logs, k)
  <1>. DEFINE S == {s \in UNION {logs[l] : l \in Logs} : s.key = k}
              times == {r.time : r \in S}
              N == Start + MaxPuts
  <1>1. N \in Nat /\ S \subseteq Records
    BY NumbersAssumption
  <1>2. times \subseteq 1 .. N
    BY <1>1, RecordFacts
  <1>3. CASE times = {}
    <2>1. StampOf(logs, k) = 0
      BY <1>3 DEF StampOf
    <2>2. S = {}
      BY <1>3
    <2>. QED
      BY <1>1, <2>1, <2>2
  <1>4. CASE times # {}
    <2>. DEFINE M == {N - t : t \in times}
    <2>1. M \in SUBSET Nat /\ M # {}
      BY <1>1, <1>2, <1>4
    <2>2. PICK j \in M : \A m \in M : j <= m
      <3>. HIDE DEF M
      <3>. QED
        BY <2>1, Least
    <2>3. PICK n \in times : j = N - n
      OBVIOUS
    <2>4. ASSUME NEW m \in times PROVE n >= m
      <3>1. n \in Nat /\ m \in Nat /\ N - m \in M /\ N \in Nat
        BY <1>1, <1>2
      <3>2. j <= N - m /\ j = N - n
        BY <2>2, <2>3, <3>1
      <3>. QED
        BY <3>1, <3>2
    <2>5. StampOf(logs, k) = CHOOSE q \in times : \A m \in times : q >= m
      BY <1>4 DEF StampOf
    <2>6. /\ StampOf(logs, k) \in times
          /\ \A m \in times : StampOf(logs, k) >= m
      <3>. HIDE DEF times
      <3>. QED
        BY <2>4, <2>5
    <2>7. StampOf(logs, k) \in 0 .. N
      BY <1>1, <1>2, <2>6
    <2>8. ASSUME NEW l \in Logs, NEW r \in logs[l], r.key = k
          PROVE  r.time <= StampOf(logs, k)
      <3>1. r.time \in times
        BY <2>8
      <3>. QED
        BY <1>1, <1>2, <2>6, <3>1
    <2>. QED
      BY <2>6, <2>7, <2>8
  <1>. QED
    BY <1>3, <1>4

LEMMA SeenTyped ==
    ASSUME newest \in [Keys -> 0 .. Start + MaxPuts],
           NEW logs \in [Logs -> SUBSET Records]
    PROVE  /\ Seen(logs) \in [Keys -> 0 .. Start + MaxPuts]
           /\ \A k \in Keys : /\ newest[k] <= Seen(logs)[k]
                              /\ StampOf(logs, k) <= Seen(logs)[k]
  BY NumbersAssumption, StampTyped DEF Seen, Later

-----------------------------------------------------------------------------
LEMMA PassFacts ==
    ASSUME Typed, NEW j \in Janitors
    PROVE  /\ pass[j] \in Passes /\ pass[j].at \in Phases
           /\ pass[j].snap \in Snaps /\ DOMAIN pass[j].snap \subseteq Logs
           /\ \A l \in DOMAIN pass[j].snap : pass[j].snap[l] \subseteq Records
           /\ pass[j].unread \subseteq Logs
           /\ pass[j].todo \subseteq Logs \cup Files
           /\ pass[j].found \subseteq Tagged /\ pass[j].out \subseteq Records
           /\ pass[j].failed \subseteq Logs /\ pass[j].dropped \subseteq Tagged
           /\ pass[j].victim \in Logs \cup Files \cup {None}
  BY DEF Typed, Passes, Snaps

LEMMA PassTyped ==
    ASSUME Typed, NEW j \in Janitors, NEW q \in Passes,
           pass' = [pass EXCEPT ![j] = q]
    PROVE  /\ pass' \in [Janitors -> Passes] /\ pass'[j] = q
           /\ \A i \in Janitors \ {j} : pass'[i] = pass[i]
  BY DEF Typed

LEMMA IdleTyped ==
    /\ Idle \in Passes /\ Idle.at = "idle"
    /\ Idle.out = {} /\ Idle.dropped = {} /\ Idle.found = {}
  <1>1. <<>> \in [{} -> SUBSET Records]
    OBVIOUS
  <1>2. <<>> \in Snaps
    BY <1>1 DEF Snaps
  <1>. QED
    BY <1>2 DEF Idle, Passes, Phases

\* The sets of a pass whose logs and records do not change.
LEMMA SameSets ==
    ASSUME NEW j, pass'[j].snap = pass[j].snap, pass'[j].found = pass[j].found
    PROVE  /\ PruneLogs(j)' = PruneLogs(j)
           /\ Live(j)' = Live(j) /\ Ours(j)' = Ours(j)
           /\ /\ pass'[j].unread = pass[j].unread
              /\ pass'[j].failed = pass[j].failed
              /\ pass'[j].dropped = pass[j].dropped
              => /\ KeepSources(j)' = KeepSources(j)
                 /\ Prunable(j)' = Prunable(j)
           /\ pass'[j].out = pass[j].out => KeptSpills(j)' = KeptSpills(j)
  <1>1. /\ PruneLogs(j)' = PruneLogs(j)
        /\ Live(j)' = Live(j)
    BY DEF PruneLogs, Live, Latest
  <1>2. Ours(j)' = Ours(j)
    BY <1>1 DEF Ours
  <1>. QED
    BY <1>1, <1>2 DEF KeepSources, Prunable, KeptSpills

LEMMA SamePlace ==
    ASSUME NEW i, pass'[i] = pass[i], Placed(i)
    PROVE  Placed(i)'
  BY SameSets DEF Placed

-----------------------------------------------------------------------------
LEMMA InitControl == Init => Control
  <1>. SUFFICES ASSUME Init PROVE Control
    OBVIOUS
  <1>1. PICK w \in Worlds : /\ log = w.log /\ file = w.file /\ due = w.due
                            /\ newest = [k \in Keys |-> StampOf(w.log, k)]
    BY DEF Init
  <1>2. /\ log \in [Logs -> SUBSET Records] /\ file \in [Files -> Ages]
        /\ due \in Dues
    BY <1>1, WorldsAssumption DEF Dues
  <1>3. newest \in [Keys -> 0 .. Start + MaxPuts]
    BY <1>1, <1>2, StampTyped
  <1>4. pass \in [Janitors -> Passes] /\ \A j \in Janitors : pass[j] = Idle
    BY IdleTyped DEF Init
  <1>5. \A j \in Janitors : Placed(j)
    BY <1>4, IdleTyped DEF Placed
  <1>6. /\ flight \in [Writers -> Records \cup {None}]
        /\ DOMAIN count = {"puts", "passes", "faults", "crashes"}
        /\ count.puts \in 0 .. MaxPuts
    BY NumbersAssumption DEF Init
  <1>. QED
    BY <1>2, <1>3, <1>4, <1>5, <1>6 DEF Control, Typed

\* The steps of the others.
LEMMA PutControls ==
    ASSUME Control, NEW w \in Writers, NEW k \in Keys,
           NEW ref \in PoolFiles \cup {Inline}, NEW dead \in BOOLEAN,
           Put(w, [key |-> k, time |-> Start + count.puts + 1,
                   dead |-> dead, ref |-> ref])
    PROVE  /\ Control'
           /\ [key |-> k, time |-> Start + count.puts + 1,
               dead |-> dead, ref |-> ref] \in Records
  <1>. DEFINE r == [key |-> k, time |-> Start + count.puts + 1,
                    dead |-> dead, ref |-> ref]
  <1>1. /\ count.puts \in Nat /\ count.puts < MaxPuts
        /\ DOMAIN count = {"puts", "passes", "faults", "crashes"}
    BY NumbersAssumption DEF Put, Control, Typed
  <1>2. r \in Records
    BY <1>1, NumbersAssumption DEF Records, PoolFiles
  <1>3. /\ DOMAIN count' = {"puts", "passes", "faults", "crashes"}
        /\ count'.puts = count.puts + 1
    BY <1>1 DEF Put
  <1>4. file' \in [Files -> Ages]
    BY DEF Put, Control, Typed, Ages, PoolFiles
  <1>5. flight' \in [Writers -> Records \cup {None}]
    BY <1>2 DEF Put, Control, Typed
  <1>6. Typed'
    BY <1>1, <1>3, <1>4, <1>5, NumbersAssumption DEF Put, Control, Typed
  <1>7. \A j \in Janitors : Placed(j)'
    BY SamePlace DEF Put, Control
  <1>. QED
    BY <1>2, <1>6, <1>7 DEF Control

LEMMA LandControls ==
    ASSUME Control, NEW w \in Writers, Land(w)
    PROVE  Control'
  <1>1. flight[w] \in Records
    BY DEF Land, Control, Typed
  <1>2. log' \in [Logs -> SUBSET Records]
    BY <1>1 DEF Land, Control, Typed, Logs
  <1>3. newest' \in [Keys -> 0 .. Start + MaxPuts]
    BY <1>2, SeenTyped DEF Land, Control, Typed
  <1>4. Typed'
    BY <1>2, <1>3 DEF Land, Control, Typed
  <1>5. \A j \in Janitors : Placed(j)'
    BY SamePlace DEF Land, Control
  <1>. QED
    BY <1>4, <1>5 DEF Control

LEMMA ArriveLogFacts ==
    ASSUME Control, NEW l \in Logs, ArriveLog(l)
    PROVE  /\ log' \in [Logs -> SUBSET Records]
           /\ log'[l] = log[l] \cup due.logs[l]
           /\ \A m \in Logs \ {l} : log'[m] = log[m]
           /\ due' \in Dues /\ due'.logs[l] = {} /\ due'.files = due.files
           /\ \A m \in Logs \ {l} : due'.logs[m] = due.logs[m]
  <1>1. due.logs \in [Logs -> SUBSET Records] /\ due \in Dues
    BY DEF Control, Typed, Dues
  <1>2. due' = [due EXCEPT !.logs = [due.logs EXCEPT ![l] = {}]]
    BY DEF ArriveLog
  <1>3. [due.logs EXCEPT ![l] = {}] \in [Logs -> SUBSET Records]
    BY <1>1
  <1>4. due' \in Dues /\ due'.logs = [due.logs EXCEPT ![l] = {}]
        /\ due'.files = due.files
    BY <1>1, <1>2, <1>3 DEF Dues
  <1>. QED
    BY <1>1, <1>4 DEF ArriveLog, Control, Typed

LEMMA ArriveLogControls ==
    ASSUME Control, NEW l \in Logs, ArriveLog(l)
    PROVE  Control'
  <1>1. newest' \in [Keys -> 0 .. Start + MaxPuts]
    BY ArriveLogFacts, SeenTyped DEF ArriveLog, Control, Typed
  <1>2. Typed'
    BY <1>1, ArriveLogFacts DEF ArriveLog, Control, Typed
  <1>3. \A j \in Janitors : Placed(j)'
    BY SamePlace DEF ArriveLog, Control
  <1>. QED
    BY <1>2, <1>3 DEF Control

LEMMA ArriveFileFacts ==
    ASSUME Control, NEW f \in Files, ArriveFile(f)
    PROVE  due' \in Dues /\ due'.logs = due.logs
  <1>1. due \in Dues /\ due' = [due EXCEPT !.files = due.files \ {f}]
        /\ due.files \ {f} \in SUBSET Files
    BY DEF ArriveFile, Control, Typed, Dues
  <1>. QED
    BY <1>1 DEF Dues

LEMMA FileControls ==
    ASSUME Control, NEW f \in Files, ArriveFile(f) \/ Age(f)
    PROVE  Control'
  <1>1. file' \in [Files -> Ages]
    BY DEF ArriveFile, Age, Control, Typed, Ages
  <1>2. Typed'
    BY <1>1, ArriveFileFacts DEF ArriveFile, Age, Control, Typed
  <1>3. \A j \in Janitors : Placed(j)'
    BY SamePlace DEF ArriveFile, Age, Control
  <1>. QED
    BY <1>2, <1>3 DEF Control

LEMMA CrashControls ==
    ASSUME Control, NEW w \in Writers, Crash(w)
    PROVE  Control'
  <1>1. /\ DOMAIN count' = {"puts", "passes", "faults", "crashes"}
        /\ count'.puts = count.puts
    BY DEF Crash, Control, Typed
  <1>2. pass' \in [Janitors -> Passes]
        /\ \A j \in Janitors : pass'[j] = IF j = w THEN Idle ELSE pass[j]
    BY IdleTyped DEF Crash, Control, Typed
  <1>3. Typed'
    BY <1>1, <1>2 DEF Crash, Control, Typed, disk
  <1>4. ASSUME NEW j \in Janitors PROVE Placed(j)'
    <2>1. CASE j = w
      <3>1. pass'[j] = Idle
        BY <1>2, <2>1
      <3>. QED
        BY <3>1, IdleTyped DEF Placed
    <2>2. CASE j # w
      BY <1>2, <2>2, SamePlace DEF Control
    <2>. QED
      BY <2>1, <2>2
  <1>. QED
    BY <1>3, <1>4 DEF Control

-----------------------------------------------------------------------------
\* The steps of a pass, by what they make of it.
LEMMA PassControls ==
    ASSUME Control, NEW j \in Janitors,
           pass' \in [Janitors -> Passes],
           \A i \in Janitors \ {j} : pass'[i] = pass[i],
           log' \in [Logs -> SUBSET Records], file' \in [Files -> Ages],
           due' = due, flight' = flight, newest' = newest,
           DOMAIN count' = DOMAIN count, count'.puts = count.puts,
           Placed(j)'
    PROVE  Control'
  <1>1. Typed'
    BY DEF Control, Typed
  <1>2. \A i \in Janitors : Placed(i)'
    BY SamePlace DEF Control
  <1>. QED
    BY <1>1, <1>2 DEF Control

There == {l \in Logs : log[l] # {}}

LEMMA SnapshotFacts ==
    ASSUME Control, NEW j \in Janitors, NEW blind \in SUBSET Logs,
           Snapshot(j, blind)
    PROVE  /\ pass' \in [Janitors -> Passes]
           /\ \A i \in Janitors \ {j} : pass'[i] = pass[i]
           /\ pass'[j].at = "read" /\ pass'[j].unread = blind
           /\ pass'[j].todo = There \ blind
           /\ pass'[j].snap = [l \in There \ blind |-> log[l]]
           /\ pass'[j].found = {} /\ pass'[j].out = {}
           /\ pass'[j].failed = {} /\ pass'[j].dropped = {}
           /\ pass'[j].victim = None
           /\ DOMAIN count' = DOMAIN count /\ count'.puts = count.puts
  <1>. DEFINE s == [l \in There \ blind |-> log[l]]
              q == [Idle EXCEPT !.at = "read", !.unread = blind,
                                !.todo = There \ blind, !.snap = s]
  <1>1. s \in [There \ blind -> SUBSET Records]
    BY DEF Control, Typed, There
  <1>2. s \in Snaps
    BY <1>1 DEF Snaps, There
  <1>3. /\ q \in Passes /\ q.at = "read" /\ q.unread = blind
        /\ q.todo = There \ blind /\ q.snap = s
        /\ q.found = {} /\ q.out = {} /\ q.failed = {} /\ q.dropped = {}
        /\ q.victim = None
    BY <1>2 DEF Idle, Passes, Phases, There
  <1>4. pass' = [pass EXCEPT ![j] = q]
    BY DEF Snapshot, There
  <1>5. DOMAIN count' = DOMAIN count /\ count'.puts = count.puts
    BY DEF Snapshot, Control, Typed
  <1>. HIDE DEF q
  <1>6. /\ pass' \in [Janitors -> Passes] /\ pass'[j] = q
        /\ \A i \in Janitors \ {j} : pass'[i] = pass[i]
    BY <1>3, <1>4, PassTyped DEF Control
  <1>. QED
    BY <1>3, <1>5, <1>6

LEMMA SnapshotControls ==
    ASSUME Control, NEW j \in Janitors, NEW blind \in SUBSET Logs,
           Snapshot(j, blind)
    PROVE  Control'
  <1>1. Placed(j)'
    BY SnapshotFacts DEF Placed
  <1>. QED
    BY <1>1, SnapshotFacts, PassControls DEF Snapshot, disk, Control, Typed

Foremost(j) ==
    CHOOSE m \in pass[j].todo : \A n \in pass[j].todo : Rank[m] <= Rank[n]

\* There is a first log.
LEMMA ForemostIn ==
    ASSUME Control, NEW j \in Janitors, pass[j].at = "read", pass[j].todo # {}
    PROVE  Foremost(j) \in pass[j].todo /\ Foremost(j) \in DOMAIN pass[j].snap
           /\ Foremost(j) \in Logs
  <1>1. pass[j].todo \subseteq Logs /\ pass[j].todo \subseteq DOMAIN pass[j].snap
    BY PassFacts DEF Control, Placed
  <1>. DEFINE R == {Rank[m] : m \in pass[j].todo}
  <1>2. R \in SUBSET Nat /\ R # {}
    BY <1>1, LogsAssumption
  <1>3. PICK n \in R : \A m \in R : n <= m
    <2>. HIDE DEF R
    <2>. QED
      BY <1>2, Least
  <1>4. \E m \in pass[j].todo : \A n1 \in pass[j].todo : Rank[m] <= Rank[n1]
    BY <1>3
  <1>5. Foremost(j) \in pass[j].todo
    BY <1>4 DEF Foremost
  <1>. QED
    BY <1>1, <1>5

LEMMA ReadLogFacts ==
    ASSUME Control, NEW j \in Janitors, ReadLog(j)
    PROVE  /\ pass' \in [Janitors -> Passes]
           /\ \A i \in Janitors \ {j} : pass'[i] = pass[i]
           /\ pass[j].at = "read" /\ pass[j].todo # {}
           /\ Foremost(j) \in pass[j].todo /\ Foremost(j) \in Logs
           /\ pass'[j].at = "read" /\ pass'[j].snap = pass[j].snap
           /\ pass'[j].todo = pass[j].todo \ {Foremost(j)}
           /\ pass'[j].out = pass[j].out /\ pass'[j].failed = pass[j].failed
           /\ pass'[j].dropped = pass[j].dropped
           /\ \/ /\ pass'[j].found = pass[j].found
                       \cup [rec : log[Foremost(j)], src : {Foremost(j)}]
                 /\ pass'[j].unread = pass[j].unread
              \/ /\ pass'[j].found = pass[j].found
                 /\ pass'[j].unread = pass[j].unread \cup {Foremost(j)}
           /\ DOMAIN count' = DOMAIN count /\ count'.puts = count.puts
  <1>. DEFINE l == Foremost(j)
              p == pass[j]
              rest == [p EXCEPT !.todo = p.todo \ {l}]
              q1 == [rest EXCEPT !.found = p.found \cup [rec : log[l], src : {l}]]
              q2 == [rest EXCEPT !.unread = p.unread \cup {l}]
  <1>1. p.at = "read" /\ p.todo # {} /\ p \in Passes
    BY PassFacts DEF ReadLog, Control
  <1>2. l \in p.todo /\ l \in Logs /\ log[l] \in SUBSET Records
    BY <1>1, ForemostIn DEF Control, Typed
  <1>3. /\ rest \in Passes /\ rest.at = "read" /\ rest.snap = p.snap
        /\ rest.todo = p.todo \ {l} /\ rest.out = p.out
        /\ rest.failed = p.failed /\ rest.dropped = p.dropped
        /\ rest.found = p.found /\ rest.unread = p.unread
    BY <1>1 DEF Passes
  <1>4. \/ /\ log[l] # {} /\ UNCHANGED count
           /\ pass' = [pass EXCEPT ![j] =
                 [rest EXCEPT !.found = @ \cup [rec : log[l], src : {l}]]]
        \/ /\ IF log[l] = {} THEN UNCHANGED count ELSE Faulty("read", 1)
           /\ pass' = [pass EXCEPT ![j] = [rest EXCEPT !.unread = @ \cup {l}]]
    BY DEF ReadLog, Foremost
  <1>5. DOMAIN count' = DOMAIN count /\ count'.puts = count.puts
    BY <1>4 DEF Faulty, Control, Typed
  <1>6. [rec : log[l], src : {l}] \subseteq Tagged
    BY <1>2 DEF Tagged
  <1>7. /\ q1 \in Passes /\ q1.at = "read" /\ q1.snap = p.snap
        /\ q1.todo = p.todo \ {l} /\ q1.out = p.out
        /\ q1.failed = p.failed /\ q1.dropped = p.dropped
        /\ q1.found = p.found \cup [rec : log[l], src : {l}]
        /\ q1.unread = p.unread
    <2>. HIDE DEF rest, l
    <2>1. p.found \cup [rec : log[l], src : {l}] \in SUBSET Tagged
      BY <1>1, <1>6 DEF Passes
    <2>. QED
      BY <1>3, <2>1 DEF Passes
  <1>8. /\ q2 \in Passes /\ q2.at = "read" /\ q2.snap = p.snap
        /\ q2.todo = p.todo \ {l} /\ q2.out = p.out
        /\ q2.failed = p.failed /\ q2.dropped = p.dropped
        /\ q2.found = p.found /\ q2.unread = p.unread \cup {l}
    <2>. HIDE DEF rest, l
    <2>1. p.unread \cup {l} \in SUBSET Logs
      BY <1>1, <1>2 DEF Passes
    <2>. QED
      BY <1>3, <2>1 DEF Passes
  <1>9. pass' = [pass EXCEPT ![j] = q1] \/ pass' = [pass EXCEPT ![j] = q2]
    <2>. HIDE DEF l
    <2>. QED
      BY <1>3, <1>4
  <1>. HIDE DEF q1, q2, l
  <1>10. CASE pass' = [pass EXCEPT ![j] = q1]
    <2>1. /\ pass' \in [Janitors -> Passes] /\ pass'[j] = q1
          /\ \A i \in Janitors \ {j} : pass'[i] = pass[i]
      BY <1>7, <1>10, PassTyped DEF Control
    <2>. QED
      BY <1>1, <1>2, <1>5, <1>7, <2>1 DEF l
  <1>11. CASE pass' = [pass EXCEPT ![j] = q2]
    <2>1. /\ pass' \in [Janitors -> Passes] /\ pass'[j] = q2
          /\ \A i \in Janitors \ {j} : pass'[i] = pass[i]
      BY <1>8, <1>11, PassTyped DEF Control
    <2>. QED
      BY <1>1, <1>2, <1>5, <1>8, <2>1 DEF l
  <1>. QED
    BY <1>9, <1>10, <1>11

LEMMA ReadLogControls ==
    ASSUME Control, NEW j \in Janitors, ReadLog(j)
    PROVE  Control'
  <1>1. Placed(j)'
    BY ReadLogFacts DEF Placed, Control
  <1>. QED
    BY <1>1, ReadLogFacts, PassControls DEF ReadLog, disk, Control, Typed

LEMMA AbortFacts ==
    ASSUME Control, NEW j \in Janitors, Abort(j) \/ RemoveOwn(j)
    PROVE  /\ pass' \in [Janitors -> Passes] /\ pass'[j] = Idle
           /\ \A i \in Janitors \ {j} : pass'[i] = pass[i]
           /\ file' \in [Files -> Ages]
           /\ \A f \in Files : file'[f] = file[f]
                 \/ /\ pass[j].at = "own" /\ j \notin pass[j].failed
                    /\ f.ns = j /\ file'[f] = "absent"
  <1>1. file' \in [Files -> Ages]
    BY DEF Abort, RemoveOwn, disk, Control, Typed, Ages
  <1>. QED
    BY <1>1, IdleTyped, PassTyped DEF Abort, RemoveOwn, disk, Control, Typed

LEMMA AbortControls ==
    ASSUME Control, NEW j \in Janitors, Abort(j) \/ RemoveOwn(j)
    PROVE  Control'
  <1>1. Placed(j)'
    BY AbortFacts, IdleTyped DEF Placed
  <1>. QED
    BY <1>1, AbortFacts, PassControls DEF Abort, RemoveOwn, disk, Control, Typed

\* What Resolve makes of our records.
Legacy(j) == {a \in Ours(j) : a.rec.ref # Inline /\ a.rec.ref \notin PoolFiles}
Absent(j, broken) == {a \in Ours(j) \ broken : ~Present(a.rec.ref)}
Adopted(j, broken) == Legacy(j) \ (broken \cup Absent(j, broken))
Deferred(j, broken) == Legacy(j) \cap broken
Outcome(j, broken) ==
    {a.rec : a \in Ours(j) \ (Legacy(j) \cup Absent(j, broken))}
        \cup {Repointed(a.rec) : a \in Adopted(j, broken)}
        \cup {a.rec : a \in {d \in Deferred(j, broken) : d.src = j}}
Failed(j, broken) ==
    {a.rec.ref.ns : a \in Deferred(j, broken)}
        \cup {a.src : a \in {d \in Deferred(j, broken) : d.src # j}}

LEMMA LatestFacts ==
    ASSUME NEW found
    PROVE  /\ Latest(found) \subseteq found
           /\ \A a, b \in Latest(found) :
                 b.rec.key = a.rec.key /\ b # a => Beats(a, b) /\ Beats(b, a)
  BY DEF Latest

LEMMA OursFacts ==
    ASSUME Control, NEW j \in Janitors
    PROVE  /\ Ours(j) \subseteq Live(j) /\ Live(j) \subseteq pass[j].found
           /\ Live(j) \subseteq Tagged
           /\ \A a \in Live(j) : ~a.rec.dead /\ a.rec \in Records /\ a.src \in Logs
           /\ Legacy(j) \subseteq Ours(j)
           /\ \A a \in Legacy(j) : a.rec.ref \in Files /\ a.rec.ref.ns \in Writers
           /\ Live(j) \ Ours(j) \subseteq Live(j)
           /\ \A a \in Live(j) : a \in Ours(j)
                 <=> (a.src = j \/ a.src \in PruneLogs(j))
  <1>1. pass[j].found \subseteq Tagged
    BY PassFacts DEF Control
  <1>2. Ours(j) \subseteq Live(j) /\ Live(j) \subseteq pass[j].found
        /\ Legacy(j) \subseteq Ours(j)
    BY DEF Ours, Live, Latest, Legacy
  <1>3. \A a \in Live(j) : ~a.rec.dead /\ a.rec \in Records /\ a.src \in Logs
    BY <1>1, <1>2 DEF Live, Tagged
  <1>4. \A a \in Legacy(j) : a.rec.ref \in Files /\ a.rec.ref.ns \in Writers
    <2>. SUFFICES ASSUME NEW a \in Legacy(j)
                  PROVE  a.rec.ref \in Files /\ a.rec.ref.ns \in Writers
      OBVIOUS
    <2>1. a.rec \in Records /\ a.rec.ref # Inline /\ a.rec.ref \notin PoolFiles
      BY <1>2, <1>3 DEF Legacy
    <2>. QED
      BY <2>1, RecordFacts
  <1>. QED
    BY <1>1, <1>2, <1>3, <1>4 DEF Ours

LEMMA OutcomeFacts ==
    ASSUME Control, NEW j \in Janitors, NEW broken \in SUBSET Ours(j)
    PROVE  /\ Outcome(j, broken) \subseteq Records
           /\ Failed(j, broken) \subseteq Logs
           /\ Absent(j, broken) \subseteq pass[j].found
           /\ Absent(j, broken) \subseteq Tagged
           /\ \A r \in Outcome(j, broken) :
                 /\ ~r.dead
                 /\ \/ r.ref = Inline \/ r.ref \in PoolFiles
                    \/ r.ref.ns \in Failed(j, broken)
  <1>1. ASSUME NEW a \in Adopted(j, broken)
        PROVE  /\ Repointed(a.rec) \in Records /\ ~Repointed(a.rec).dead
               /\ Repointed(a.rec).ref \in PoolFiles
    <2>1. a \in Legacy(j) /\ a \in Live(j)
      BY OursFacts DEF Adopted
    <2>2. a.rec \in Records /\ a.rec.ref \in Files /\ ~a.rec.dead
      BY <2>1, OursFacts
    <2>. QED
      BY <2>2, RepointedFacts
  <1>2. ASSUME NEW a \in Deferred(j, broken)
        PROVE  /\ a.rec \in Records /\ ~a.rec.dead /\ a.src \in Logs
               /\ a.rec.ref.ns \in Logs /\ a.rec.ref.ns \in Failed(j, broken)
    <2>1. a \in Legacy(j) /\ a \in Live(j)
      BY OursFacts DEF Deferred
    <2>2. a.rec.ref.ns \in Failed(j, broken)
      BY DEF Failed
    <2>. QED
      BY <2>1, <2>2, OursFacts DEF Logs
  <1>3. ASSUME NEW a \in Ours(j) \ (Legacy(j) \cup Absent(j, broken))
        PROVE  /\ a.rec \in Records /\ ~a.rec.dead
               /\ a.rec.ref = Inline \/ a.rec.ref \in PoolFiles
    BY OursFacts DEF Legacy
  <1>4. /\ Outcome(j, broken) \subseteq Records
        /\ \A r \in Outcome(j, broken) :
              /\ ~r.dead
              /\ \/ r.ref = Inline \/ r.ref \in PoolFiles
                 \/ r.ref.ns \in Failed(j, broken)
    BY <1>1, <1>2, <1>3 DEF Outcome
  <1>5. Failed(j, broken) \subseteq Logs
    BY <1>2 DEF Failed
  <1>6. Absent(j, broken) \subseteq pass[j].found /\ Absent(j, broken) \subseteq Tagged
    BY OursFacts DEF Absent
  <1>. QED
    BY <1>4, <1>5, <1>6

LEMMA ResolveFacts ==
    ASSUME Control, NEW j \in Janitors, NEW broken \in SUBSET Ours(j),
           NEW linked \in BOOLEAN, Resolve(j, broken, linked)
    PROVE  /\ pass' \in [Janitors -> Passes]
           /\ \A i \in Janitors \ {j} : pass'[i] = pass[i]
           /\ pass[j].at = "read" /\ pass[j].todo = {} /\ j \notin pass[j].unread
           /\ pass'[j].at = "write" /\ pass'[j].snap = pass[j].snap
           /\ pass'[j].unread = pass[j].unread /\ pass'[j].todo = {}
           /\ pass'[j].found = pass[j].found
           /\ pass'[j].out = Outcome(j, broken)
           /\ pass'[j].failed = Failed(j, broken)
           /\ pass'[j].dropped = Absent(j, broken)
           /\ DOMAIN count' = DOMAIN count /\ count'.puts = count.puts
           /\ file' \in [Files -> Ages]
           /\ \A f \in Files : file'[f] \in {file[f], "young"}
           /\ \A a \in Adopted(j, broken) :
                 Repointed(a.rec).ref \in Files
                     /\ file'[Repointed(a.rec).ref] # "absent"
  <1>. DEFINE p == pass[j]
              q == [p EXCEPT !.at = "write", !.out = Outcome(j, broken),
                             !.failed = Failed(j, broken),
                             !.dropped = Absent(j, broken)]
  <1>1. p \in Passes /\ p.at = "read" /\ p.todo = {} /\ j \notin p.unread
    BY PassFacts DEF Control, Resolve, MayRewrite
  <1>2. /\ q \in Passes /\ q.at = "write" /\ q.snap = p.snap
        /\ q.unread = p.unread /\ q.todo = p.todo /\ q.found = p.found
        /\ q.out = Outcome(j, broken) /\ q.failed = Failed(j, broken)
        /\ q.dropped = Absent(j, broken)
    BY <1>1, OutcomeFacts DEF Passes, Phases
  <1>3. pass' = [pass EXCEPT ![j] = q]
    BY DEF Resolve, Outcome, Failed, Absent, Adopted, Deferred, Legacy
  <1>4. DOMAIN count' = DOMAIN count /\ count'.puts = count.puts
    BY DEF Resolve, Faulty, Control, Typed
  <1>. DEFINE new == {a \in Adopted(j, broken) : ~Present(Repointed(a.rec).ref)}
              touched == {Repointed(a.rec).ref : a \in new}
                            \cup (IF linked THEN {a.rec.ref : a \in new} ELSE {})
  <1>5. file' = [f \in Files |-> IF f \in touched THEN "young" ELSE file[f]]
    BY DEF Resolve, Absent, Adopted, Legacy
  <1>6. file' \in [Files -> Ages] /\ \A f \in Files : file'[f] \in {file[f], "young"}
    <2>. HIDE DEF touched
    <2>. QED
      BY <1>5 DEF Control, Typed, Ages
  <1>7. ASSUME NEW a \in Adopted(j, broken)
        PROVE  Repointed(a.rec).ref \in Files
                   /\ file'[Repointed(a.rec).ref] # "absent"
    <2>1. a \in Legacy(j) /\ a \in Live(j)
      BY OursFacts DEF Adopted
    <2>2. Repointed(a.rec).ref \in PoolFiles
      BY <2>1, OursFacts, RepointedFacts
    <2>3. Repointed(a.rec).ref \in Files /\ Repointed(a.rec).ref # Inline
      BY <2>2, NoneAssumption DEF PoolFiles
    <2>4. CASE a \in new
      <3>1. Repointed(a.rec).ref \in touched
        BY <2>4
      <3>. HIDE DEF touched
      <3>. QED
        BY <1>5, <2>3, <3>1
    <2>5. CASE a \notin new
      <3>1. file[Repointed(a.rec).ref] # "absent"
        BY <2>3, <2>5 DEF Present
      <3>. QED
        BY <1>6, <2>3, <3>1
    <2>. QED
      BY <2>4, <2>5
  <1>. HIDE DEF q
  <1>8. /\ pass' \in [Janitors -> Passes] /\ pass'[j] = q
        /\ \A i \in Janitors \ {j} : pass'[i] = pass[i]
    BY <1>2, <1>3, PassTyped DEF Control
  <1>. QED
    BY <1>1, <1>2, <1>4, <1>6, <1>7, <1>8

LEMMA ResolveControls ==
    ASSUME Control, NEW j \in Janitors, NEW broken \in SUBSET Ours(j),
           NEW linked \in BOOLEAN, Resolve(j, broken, linked)
    PROVE  Control'
  <1>1. Placed(j)'
    BY ResolveFacts, OutcomeFacts DEF Placed
  <1>2. log' = log /\ due' = due /\ flight' = flight /\ newest' = newest
    BY DEF Resolve
  <1>3. log' \in [Logs -> SUBSET Records]
    BY <1>2 DEF Control, Typed
  <1>4. /\ pass' \in [Janitors -> Passes]
        /\ \A i \in Janitors \ {j} : pass'[i] = pass[i]
        /\ file' \in [Files -> Ages]
        /\ DOMAIN count' = DOMAIN count /\ count'.puts = count.puts
    BY ResolveFacts
  <1>. QED
    BY <1>1, <1>2, <1>3, <1>4, PassControls

LEMMA WriteFacts ==
    ASSUME Control, NEW j \in Janitors, Write(j)
    PROVE  /\ pass' \in [Janitors -> Passes]
           /\ \A i \in Janitors \ {j} : pass'[i] = pass[i]
           /\ pass[j].at = "write" /\ pass'[j].at = "prune"
           /\ pass'[j].snap = pass[j].snap /\ pass'[j].unread = pass[j].unread
           /\ pass'[j].todo = Prunable(j) /\ pass'[j].found = pass[j].found
           /\ pass'[j].out = pass[j].out /\ pass'[j].failed = pass[j].failed
           /\ pass'[j].dropped = pass[j].dropped
           /\ j \in Logs /\ log' \in [Logs -> SUBSET Records]
           /\ log'[j] = pass[j].out
           /\ \A l \in Logs \ {j} : log'[l] = log[l]
  <1>. DEFINE p == pass[j]
              q == [p EXCEPT !.at = "prune", !.todo = Prunable(j)]
  <1>1. p \in Passes /\ p.at = "write" /\ p.out \subseteq Records
    BY PassFacts DEF Control, Write
  <1>2. Prunable(j) \subseteq Logs
    BY PassFacts DEF Prunable, Control
  <1>3. /\ q \in Passes /\ q.at = "prune" /\ q.snap = p.snap
        /\ q.unread = p.unread /\ q.todo = Prunable(j) /\ q.found = p.found
        /\ q.out = p.out /\ q.failed = p.failed /\ q.dropped = p.dropped
    BY <1>1, <1>2 DEF Passes, Phases
  <1>4. pass' = [pass EXCEPT ![j] = q]
    BY DEF Write, Prunable, Control, Typed
  <1>5. j \in Logs
    BY LogsAssumption DEF Logs
  <1>. HIDE DEF q
  <1>6. /\ pass' \in [Janitors -> Passes] /\ pass'[j] = q
        /\ \A i \in Janitors \ {j} : pass'[i] = pass[i]
    BY <1>3, <1>4, PassTyped DEF Control
  <1>7. /\ log' \in [Logs -> SUBSET Records] /\ log'[j] = p.out
        /\ \A l \in Logs \ {j} : log'[l] = log[l]
    BY <1>1, <1>5 DEF Write, Control, Typed
  <1>. QED
    BY <1>1, <1>3, <1>5, <1>6, <1>7

LEMMA WriteControls ==
    ASSUME Control, NEW j \in Janitors, Write(j)
    PROVE  Control'
  <1>1. Prunable(j)' = Prunable(j)
    BY WriteFacts, SameSets
  <1>2. Placed(j)'
    BY <1>1, WriteFacts DEF Placed, Control
  <1>. QED
    BY <1>2, WriteFacts, PassControls DEF Write, Control, Typed

LEMMA RestatFacts ==
    ASSUME Control, NEW j \in Janitors, NEW l \in Logs, Restat(j, l)
    PROVE  /\ pass' \in [Janitors -> Passes]
           /\ \A i \in Janitors \ {j} : pass'[i] = pass[i]
           /\ pass[j].at = "prune" /\ l \in pass[j].todo /\ l \in Prunable(j)
           /\ pass'[j].snap = pass[j].snap /\ pass'[j].unread = pass[j].unread
           /\ pass'[j].found = pass[j].found
           /\ pass'[j].out = pass[j].out /\ pass'[j].failed = pass[j].failed
           /\ pass'[j].dropped = pass[j].dropped
           /\ \/ /\ log[l] = pass[j].snap[l] /\ pass'[j].at = "unlink"
                 /\ pass'[j].victim = l /\ pass'[j].todo = pass[j].todo
              \/ /\ pass'[j].at = "prune" /\ pass'[j].todo = pass[j].todo \ {l}
           /\ DOMAIN count' = DOMAIN count /\ count'.puts = count.puts
  <1>. DEFINE p == pass[j]
              q1 == [p EXCEPT !.at = "unlink", !.victim = l]
              q2 == [p EXCEPT !.todo = p.todo \ {l}]
  <1>1. p \in Passes /\ p.at = "prune" /\ l \in p.todo /\ l \in Prunable(j)
    BY PassFacts DEF Control, Placed, Restat
  <1>2. /\ q1 \in Passes /\ q1.at = "unlink" /\ q1.snap = p.snap
        /\ q1.unread = p.unread /\ q1.todo = p.todo /\ q1.found = p.found
        /\ q1.out = p.out /\ q1.failed = p.failed /\ q1.dropped = p.dropped
        /\ q1.victim = l
    BY <1>1 DEF Passes, Phases
  <1>3. /\ q2 \in Passes /\ q2.at = "prune" /\ q2.snap = p.snap
        /\ q2.unread = p.unread /\ q2.todo = p.todo \ {l} /\ q2.found = p.found
        /\ q2.out = p.out /\ q2.failed = p.failed /\ q2.dropped = p.dropped
    BY <1>1 DEF Passes, Phases
  <1>4. \/ log[l] = pass[j].snap[l] /\ pass' = [pass EXCEPT ![j] = q1]
        \/ pass' = [pass EXCEPT ![j] = q2]
    BY DEF Restat, Control, Typed
  <1>5. DOMAIN count' = DOMAIN count /\ count'.puts = count.puts
    BY DEF Restat, Faulty, Control, Typed
  <1>. HIDE DEF q1, q2
  <1>6. \/ log[l] = pass[j].snap[l] /\ pass'[j] = q1
        \/ pass'[j] = q2
    BY <1>2, <1>3, <1>4, PassTyped DEF Control
  <1>7. /\ pass' \in [Janitors -> Passes]
        /\ \A i \in Janitors \ {j} : pass'[i] = pass[i]
    BY <1>2, <1>3, <1>4, PassTyped DEF Control
  <1>. QED
    BY <1>1, <1>2, <1>3, <1>5, <1>6, <1>7

LEMMA RestatControls ==
    ASSUME Control, NEW j \in Janitors, NEW l \in Logs, Restat(j, l)
    PROVE  Control'
  <1>1. Prunable(j)' = Prunable(j)
    BY RestatFacts, SameSets
  <1>2. Placed(j)'
    BY <1>1, RestatFacts DEF Placed, Control
  <1>. QED
    BY <1>2, RestatFacts, PassControls DEF Restat, disk, Control, Typed

LEMMA UnlinkFacts ==
    ASSUME Control, NEW j \in Janitors, Unlink(j)
    PROVE  /\ pass' \in [Janitors -> Passes]
           /\ \A i \in Janitors \ {j} : pass'[i] = pass[i]
           /\ pass[j].at = "unlink" /\ pass'[j].at = "prune"
           /\ pass[j].victim \in Prunable(j) /\ pass[j].victim \in Logs
           /\ pass[j].victim # j /\ pass[j].victim \in PruneLogs(j)
           /\ pass'[j].snap = pass[j].snap /\ pass'[j].unread = pass[j].unread
           /\ pass'[j].todo = pass[j].todo \ {pass[j].victim}
           /\ pass'[j].found = pass[j].found
           /\ pass'[j].out = pass[j].out /\ pass'[j].failed = pass[j].failed
           /\ pass'[j].dropped = pass[j].dropped
           /\ log' \in [Logs -> SUBSET Records] /\ log'[pass[j].victim] = {}
           /\ \A l \in Logs \ {pass[j].victim} : log'[l] = log[l]
           /\ file' \in [Files -> Ages]
           /\ \A f \in Files : file'[f] =
                 IF f.ns = pass[j].victim THEN "absent" ELSE file[f]
  <1>. DEFINE p == pass[j]
              q == [p EXCEPT !.at = "prune", !.todo = p.todo \ {p.victim},
                             !.victim = None]
  <1>1. p \in Passes /\ p.at = "unlink" /\ p.victim \in Prunable(j)
    BY PassFacts DEF Control, Placed, Unlink
  <1>2. p.victim \in Logs /\ p.victim # j /\ p.victim \in PruneLogs(j)
    BY <1>1, PassFacts DEF Prunable, PruneLogs, Control
  <1>3. /\ q \in Passes /\ q.at = "prune" /\ q.snap = p.snap
        /\ q.unread = p.unread /\ q.todo = p.todo \ {p.victim}
        /\ q.found = p.found
        /\ q.out = p.out /\ q.failed = p.failed /\ q.dropped = p.dropped
    BY <1>1 DEF Passes, Phases
  <1>4. pass' = [pass EXCEPT ![j] = q]
    BY DEF Unlink, Control, Typed
  <1>. HIDE DEF q
  <1>5. /\ pass' \in [Janitors -> Passes] /\ pass'[j] = q
        /\ \A i \in Janitors \ {j} : pass'[i] = pass[i]
    BY <1>3, <1>4, PassTyped DEF Control
  <1>6. /\ log' \in [Logs -> SUBSET Records] /\ log'[p.victim] = {}
        /\ \A l \in Logs \ {p.victim} : log'[l] = log[l]
    BY <1>2 DEF Unlink, Control, Typed
  <1>7. /\ file' \in [Files -> Ages]
        /\ \A f \in Files : file'[f] =
                 IF f.ns = p.victim THEN "absent" ELSE file[f]
    BY DEF Unlink, Control, Typed, Ages
  <1>. QED
    BY <1>1, <1>2, <1>3, <1>5, <1>6, <1>7

LEMMA UnlinkControls ==
    ASSUME Control, NEW j \in Janitors, Unlink(j)
    PROVE  Control'
  <1>1. Prunable(j)' = Prunable(j)
    BY UnlinkFacts, SameSets
  <1>2. Placed(j)'
    BY <1>1, UnlinkFacts DEF Placed, Control
  <1>. QED
    BY <1>2, UnlinkFacts, PassControls DEF Unlink, Control, Typed

LEMMA StartSweepFacts ==
    ASSUME Control, NEW j \in Janitors, StartSweep(j)
    PROVE  /\ pass' \in [Janitors -> Passes]
           /\ \A i \in Janitors \ {j} : pass'[i] = pass[i]
           /\ pass[j].at = "prune" /\ pass[j].todo = {}
           /\ pass'[j].at = (IF pass[j].unread = {} THEN "sweep" ELSE "own")
           /\ pass'[j].snap = pass[j].snap /\ pass'[j].unread = pass[j].unread
           /\ pass'[j].todo = (IF pass[j].unread # {} THEN {}
                   ELSE {f \in PoolFiles : Present(f)} \ KeptSpills(j))
           /\ pass'[j].found = pass[j].found
           /\ pass'[j].out = pass[j].out /\ pass'[j].failed = pass[j].failed
           /\ pass'[j].dropped = pass[j].dropped
  <1>. DEFINE p == pass[j]
              to == IF p.unread # {} THEN {}
                    ELSE {f \in PoolFiles : Present(f)} \ KeptSpills(j)
              q == [p EXCEPT !.at = IF p.unread = {} THEN "sweep" ELSE "own",
                             !.todo = to]
  <1>1. p \in Passes /\ p.at = "prune" /\ p.todo = {}
    BY PassFacts DEF Control, Placed, StartSweep
  <1>2. to \subseteq Files
    BY DEF PoolFiles
  <1>3. pass' = [pass EXCEPT ![j] = q]
    BY DEF StartSweep, Control, Typed
  <1>. HIDE DEF to
  <1>4. /\ q \in Passes
        /\ q.at = (IF p.unread = {} THEN "sweep" ELSE "own") /\ q.snap = p.snap
        /\ q.unread = p.unread /\ q.todo = to /\ q.found = p.found
        /\ q.out = p.out /\ q.failed = p.failed /\ q.dropped = p.dropped
    BY <1>1, <1>2 DEF Passes, Phases
  <1>. HIDE DEF q
  <1>5. /\ pass' \in [Janitors -> Passes] /\ pass'[j] = q
        /\ \A i \in Janitors \ {j} : pass'[i] = pass[i]
    BY <1>3, <1>4, PassTyped DEF Control
  <1>. QED
    BY <1>1, <1>4, <1>5 DEF to

LEMMA StartSweepControls ==
    ASSUME Control, NEW j \in Janitors, StartSweep(j)
    PROVE  Control'
  <1>1. KeptSpills(j)' = KeptSpills(j)
    BY StartSweepFacts, SameSets
  <1>2. Placed(j)'
    <2>1. CASE pass[j].unread = {}
      <3>1. /\ pass'[j].at = "sweep" /\ pass'[j].unread = {}
            /\ pass'[j].todo \subseteq PoolFiles \ KeptSpills(j)
        BY <2>1, StartSweepFacts
      <3>. QED
        BY <1>1, <3>1, StartSweepFacts DEF Placed, Control
    <2>2. CASE pass[j].unread # {}
      <3>1. pass'[j].at = "own"
        BY <2>2, StartSweepFacts
      <3>. QED
        BY <3>1, StartSweepFacts DEF Placed, Control
    <2>. QED
      BY <2>1, <2>2
  <1>. QED
    BY <1>2, StartSweepFacts, PassControls DEF StartSweep, disk, Control, Typed

LEMMA ProbeFacts ==
    ASSUME Control, NEW j \in Janitors, NEW f \in PoolFiles, Probe(j, f)
    PROVE  /\ pass' \in [Janitors -> Passes]
           /\ \A i \in Janitors \ {j} : pass'[i] = pass[i]
           /\ pass[j].at = "sweep" /\ f \in pass[j].todo
           /\ pass'[j].snap = pass[j].snap /\ pass'[j].unread = pass[j].unread
           /\ pass'[j].todo = pass[j].todo \ {f}
           /\ pass'[j].found = pass[j].found
           /\ pass'[j].out = pass[j].out /\ pass'[j].failed = pass[j].failed
           /\ pass'[j].dropped = pass[j].dropped
           /\ \/ /\ file[f] = "old" /\ pass'[j].at = "delete"
                 /\ pass'[j].victim = f
              \/ file[f] # "old" /\ pass'[j].at = "sweep"
  <1>. DEFINE p == pass[j]
              q == [p EXCEPT !.todo = p.todo \ {f},
                       !.at = IF file[f] = "old" THEN "delete" ELSE p.at,
                       !.victim = IF file[f] = "old" THEN f ELSE None]
  <1>1. p \in Passes /\ p.at = "sweep" /\ f \in p.todo /\ f \in Files
    BY PassFacts DEF Control, Probe, PoolFiles
  <1>2. /\ q \in Passes /\ q.snap = p.snap
        /\ q.unread = p.unread /\ q.todo = p.todo \ {f} /\ q.found = p.found
        /\ q.out = p.out /\ q.failed = p.failed /\ q.dropped = p.dropped
        /\ \/ file[f] = "old" /\ q.at = "delete" /\ q.victim = f
           \/ file[f] # "old" /\ q.at = "sweep"
    BY <1>1 DEF Passes, Phases
  <1>3. pass' = [pass EXCEPT ![j] = q]
    BY DEF Probe, Control, Typed
  <1>. HIDE DEF q
  <1>4. /\ pass' \in [Janitors -> Passes] /\ pass'[j] = q
        /\ \A i \in Janitors \ {j} : pass'[i] = pass[i]
    BY <1>2, <1>3, PassTyped DEF Control
  <1>. QED
    BY <1>1, <1>2, <1>4

LEMMA ProbeControls ==
    ASSUME Control, NEW j \in Janitors, NEW f \in PoolFiles, Probe(j, f)
    PROVE  Control'
  <1>1. KeptSpills(j)' = KeptSpills(j)
    BY ProbeFacts, SameSets
  <1>2. Placed(j)'
    BY <1>1, ProbeFacts DEF Placed, Control
  <1>. QED
    BY <1>2, ProbeFacts, PassControls DEF Probe, disk, Control, Typed

\* Delete and SweepLegacy.
LEMMA SweepFacts ==
    ASSUME Control, NEW j \in Janitors, Delete(j) \/ SweepLegacy(j)
    PROVE  /\ pass' \in [Janitors -> Passes]
           /\ \A i \in Janitors \ {j} : pass'[i] = pass[i]
           /\ pass'[j].snap = pass[j].snap /\ pass'[j].unread = pass[j].unread
           /\ pass'[j].todo = pass[j].todo /\ pass'[j].found = pass[j].found
           /\ pass'[j].out = pass[j].out /\ pass'[j].failed = pass[j].failed
           /\ pass'[j].dropped = pass[j].dropped
           /\ file' \in [Files -> Ages]
           /\ \/ /\ Delete(j) /\ pass[j].at = "delete" /\ pass'[j].at = "sweep"
                 /\ pass[j].victim \in PoolFiles \ KeptSpills(j)
                 /\ file'[pass[j].victim] = "absent"
                 /\ \A f \in Files \ {pass[j].victim} : file'[f] = file[f]
              \/ /\ SweepLegacy(j) /\ pass[j].at = "sweep"
                 /\ pass'[j].at = "own" /\ pass[j].todo = {}
                 /\ \A f \in Files : file'[f] = file[f]
                       \/ /\ f \notin PoolFiles /\ f \notin KeptSpills(j)
                          /\ f.ns \in {j} \cup Prune
                          /\ f.ns \notin pass[j].failed
                          /\ file[f] = "old" /\ file'[f] = "absent"
  <1>. DEFINE p == pass[j]
              q1 == [p EXCEPT !.at = "sweep", !.victim = None]
              q2 == [p EXCEPT !.at = "own"]
  <1>1. p \in Passes
    BY PassFacts DEF Control
  <1>2. /\ q1 \in Passes /\ q1.snap = p.snap
        /\ q1.unread = p.unread /\ q1.todo = p.todo /\ q1.found = p.found
        /\ q1.out = p.out /\ q1.failed = p.failed /\ q1.dropped = p.dropped
        /\ q1.at = "sweep"
    BY <1>1 DEF Passes, Phases
  <1>3. /\ q2 \in Passes /\ q2.snap = p.snap
        /\ q2.unread = p.unread /\ q2.todo = p.todo /\ q2.found = p.found
        /\ q2.out = p.out /\ q2.failed = p.failed /\ q2.dropped = p.dropped
        /\ q2.at = "own"
    BY <1>1 DEF Passes, Phases
  <1>4. CASE Delete(j)
    <2>1. pass' = [pass EXCEPT ![j] = q1]
      BY <1>4 DEF Delete, Control, Typed
    <2>2. p.at = "delete" /\ p.victim \in PoolFiles \ KeptSpills(j)
      BY <1>4 DEF Delete, Control, Placed
    <2>3. p.victim \in Files
      BY <2>2 DEF PoolFiles
    <2>4. /\ file' \in [Files -> Ages] /\ file'[p.victim] = "absent"
          /\ \A f \in Files \ {p.victim} : file'[f] = file[f]
      BY <1>4, <2>3 DEF Delete, Control, Typed, Ages
    <2>. HIDE DEF q1
    <2>5. /\ pass' \in [Janitors -> Passes] /\ pass'[j] = q1
          /\ \A i \in Janitors \ {j} : pass'[i] = pass[i]
      BY <1>2, <2>1, PassTyped DEF Control
    <2>. QED
      BY <1>2, <1>4, <2>2, <2>4, <2>5
  <1>5. CASE SweepLegacy(j)
    <2>1. pass' = [pass EXCEPT ![j] = q2]
      BY <1>5 DEF SweepLegacy, Control, Typed
    <2>2. /\ file' \in [Files -> Ages]
          /\ p.at = "sweep" /\ p.todo = {}
          /\ \A f \in Files : file'[f] = file[f]
               \/ /\ f.ns \in ({j} \cup Prune) \ p.failed
                  /\ f \notin KeptSpills(j)
                  /\ file[f] = "old" /\ file'[f] = "absent"
      BY <1>5 DEF SweepLegacy, Control, Typed, Ages
    <2>3. \A f \in PoolFiles : f.ns \notin {j} \cup Prune
      BY LogsAssumption, NoneAssumption DEF PoolFiles, Logs
    <2>. HIDE DEF q2
    <2>4. /\ pass' \in [Janitors -> Passes] /\ pass'[j] = q2
          /\ \A i \in Janitors \ {j} : pass'[i] = pass[i]
      BY <1>3, <2>1, PassTyped DEF Control
    <2>. QED
      BY <1>3, <1>5, <2>2, <2>3, <2>4
  <1>. QED
    BY <1>4, <1>5

LEMMA SweepControls ==
    ASSUME Control, NEW j \in Janitors, Delete(j) \/ SweepLegacy(j)
    PROVE  Control'
  <1>1. KeptSpills(j)' = KeptSpills(j)
    BY SweepFacts, SameSets
  <1>2. Placed(j)'
    BY <1>1, SweepFacts DEF Placed, Control
  <1>3. log' = log /\ due' = due /\ flight' = flight /\ newest' = newest
        /\ count' = count
    BY DEF Delete, SweepLegacy
  <1>. QED
    BY <1>2, <1>3, SweepFacts, PassControls DEF Control, Typed

-----------------------------------------------------------------------------
LEMMA StutterControls ==
    ASSUME Control, UNCHANGED vars
    PROVE  Control'
  <1>1. \A j \in Janitors : Placed(j)'
    BY SamePlace DEF Control, vars
  <1>. QED
    BY <1>1 DEF Control, Typed, vars

LEMMA NextControls == Control /\ [Next]_vars => Control'
  <1>. SUFFICES ASSUME Control, [Next]_vars PROVE Control'
    OBVIOUS
  <1>1. CASE \E w \in Writers : \E k \in Keys, ref \in PoolFiles \cup {Inline},
                 dead \in BOOLEAN :
                 /\ dead => ref = Inline
                 /\ Put(w, [key |-> k, time |-> Start + count.puts + 1,
                            dead |-> dead, ref |-> ref])
    BY <1>1, PutControls
  <1>2. CASE \E w \in Writers : Land(w) \/ Crash(w)
    BY <1>2, LandControls, CrashControls
  <1>3. CASE \/ \E l \in Logs : ArriveLog(l)
             \/ \E f \in Files : ArriveFile(f) \/ Age(f)
    BY <1>3, ArriveLogControls, FileControls
  <1>4. CASE \E j \in Janitors : Pass(j)
    <2>1. PICK j \in Janitors : Pass(j)
      BY <1>4
    <2>2. CASE (\E blind \in SUBSET Logs : Snapshot(j, blind)) \/ ReadLog(j)
                   \/ Abort(j) \/ RemoveOwn(j)
      BY <2>2, SnapshotControls, ReadLogControls, AbortControls
    <2>3. CASE \E broken \in SUBSET Ours(j), linked \in BOOLEAN :
                   Resolve(j, broken, linked)
      BY <2>3, ResolveControls
    <2>4. CASE Write(j) \/ (\E l \in Logs : Restat(j, l)) \/ Unlink(j)
      BY <2>4, WriteControls, RestatControls, UnlinkControls
    <2>5. CASE StartSweep(j) \/ (\E f \in PoolFiles : Probe(j, f))
                   \/ Delete(j) \/ SweepLegacy(j)
      BY <2>5, StartSweepControls, ProbeControls, SweepControls
    <2>. QED
      BY <2>1, <2>2, <2>3, <2>4, <2>5 DEF Pass
  <1>5. CASE UNCHANGED vars
    BY <1>5, StutterControls
  <1>. QED
    BY <1>1, <1>2, <1>3, <1>4, <1>5 DEF Next

THEOREM ControlHolds == Spec => []Control
  BY InitControl, NextControls, PTL DEF Spec

\* Every variable keeps its type; what a pass writes names a legacy file only
\* where an adoption failed, and what it removes is of the right kind.
THEOREM TypeCorrect == Spec => []TypeOK
  <1>1. ASSUME Control PROVE TypeOK
    <2>1. ASSUME NEW j \in Janitors
          PROVE  LET p == pass[j]
                 IN  /\ DOMAIN p.snap \cap p.unread \subseteq Logs
                     /\ p.failed \subseteq Logs /\ p.dropped \subseteq p.found
                     /\ \A r \in p.out :
                           /\ r \in Records /\ ~r.dead
                           /\ \/ r.ref = Inline \/ r.ref \in PoolFiles
                              \/ r.ref.ns \in p.failed
                     /\ p.at = "unlink" => p.victim \in PruneLogs(j)
                     /\ p.at = "delete" => p.victim \in PoolFiles
      BY <1>1, PassFacts DEF Control, Placed, Prunable
    <2>. QED
      BY <1>1, <2>1 DEF TypeOK, Control, Typed, Dues
  <1>. QED
    BY <1>1, ControlHolds, PTL

-----------------------------------------------------------------------------
\* From here on one writer consolidates.
OneJanitor == \A i, j \in Janitors : i = j
Written == {"prune", "unlink", "sweep", "delete", "own"}

\* The pass and the logs: what it has read is there, until it removes it.
Grounded(j) ==
    LET p == pass[j]
    IN  /\ due.logs[j] = {}
        /\ p.at \in Written => log[j] = p.out
        /\ \A a \in p.found :
               \/ a.rec \in log[a.src]
               \/ p.at \in Written /\ a.src \in {j} \cup PruneLogs(j)

\* The pass and the pool: an old file that nothing holds is still to be visited.
Combed(j) ==
    LET p == pass[j]
    IN  \A f \in PoolFiles : file[f] = "old" =>
           /\ p.at = "sweep" => f \in KeptSpills(j) \cup p.todo
           /\ p.at = "delete" => f \in KeptSpills(j) \cup p.todo \cup {p.victim}
           /\ p.at = "own" /\ p.unread = {} => f \in KeptSpills(j)

LEMMA FoundFacts ==
    ASSUME Control, NEW j \in Janitors, NEW a \in pass[j].found
    PROVE  a.rec \in Records /\ a.src \in Logs /\ a = [rec |-> a.rec, src |-> a.src]
  BY PassFacts DEF Control, Tagged

\* A step that takes no record away and goes on from the same sets.
LEMMA GroundStays ==
    ASSUME Control, NEW j \in Janitors, Grounded(j),
           due'.logs[j] = {}, \A l \in Logs : log[l] \subseteq log'[l],
           pass'[j].snap = pass[j].snap, pass'[j].found = pass[j].found,
           pass'[j].at \in Written =>
               pass[j].at \in Written /\ pass'[j].out = pass[j].out
                   /\ log'[j] = log[j],
           pass[j].at \in Written => pass'[j].at \in Written
    PROVE  Grounded(j)'
  <1>1. PruneLogs(j)' = PruneLogs(j)
    BY SameSets
  <1>2. ASSUME NEW a \in pass'[j].found
        PROVE  \/ a.rec \in log'[a.src]
               \/ pass'[j].at \in Written /\ a.src \in {j} \cup PruneLogs(j)
    BY <1>2, FoundFacts DEF Grounded
  <1>. QED
    BY <1>1, <1>2 DEF Grounded

LEMMA IdleGrounds ==
    ASSUME NEW j \in Janitors, pass'[j] = Idle, due'.logs[j] = {}
    PROVE  Grounded(j)' /\ Combed(j)'
  <1>1. pass'[j].at = "idle" /\ pass'[j].found = {}
    BY IdleTyped
  <1>. QED
    BY <1>1 DEF Grounded, Combed, Written

LEMMA CombStays ==
    ASSUME NEW j \in Janitors, Combed(j),
           pass'[j].at = pass[j].at, pass'[j].unread = pass[j].unread,
           pass'[j].todo = pass[j].todo, pass'[j].victim = pass[j].victim,
           pass'[j].snap = pass[j].snap, pass'[j].found = pass[j].found,
           pass'[j].out = pass[j].out,
           \A f \in PoolFiles : file'[f] = "old" => file[f] = "old"
    PROVE  Combed(j)'
  <1>1. KeptSpills(j)' = KeptSpills(j)
    BY SameSets
  <1>. QED
    BY <1>1 DEF Combed

\* The steps of the others.
LEMMA OthersGround ==
    ASSUME Control, NEW j \in Janitors, Grounded(j), Combed(j),
           \/ \E w \in Writers : \E k \in Keys, ref \in PoolFiles \cup {Inline},
                 dead \in BOOLEAN :
                 Put(w, [key |-> k, time |-> Start + count.puts + 1,
                         dead |-> dead, ref |-> ref])
           \/ \E w \in Writers : Land(w) \/ Crash(w)
           \/ \E l \in Logs : ArriveLog(l)
           \/ \E f \in Files : ArriveFile(f) \/ Age(f)
    PROVE  Grounded(j)' /\ Combed(j)'
  <1>0. /\ due.logs[j] = {} /\ file \in [Files -> Ages]
        /\ log \in [Logs -> SUBSET Records] /\ j \in Writers /\ j \in Logs
    BY LogsAssumption DEF Grounded, Control, Typed, Logs
  <1>1. CASE \E w \in Writers : \E k \in Keys, ref \in PoolFiles \cup {Inline},
                 dead \in BOOLEAN :
                 Put(w, [key |-> k, time |-> Start + count.puts + 1,
                         dead |-> dead, ref |-> ref])
    <2>1. /\ log' = log /\ pass' = pass /\ due' = due
          /\ \A f \in PoolFiles : file'[f] = "old" => file[f] = "old"
      BY <1>0, <1>1 DEF Put, PoolFiles
    <2>. QED
      BY <1>0, <2>1, GroundStays, CombStays
  <1>2. ASSUME NEW w \in Writers, Land(w) PROVE Grounded(j)' /\ Combed(j)'
    <2>1. /\ \A l \in Logs : log[l] \subseteq log'[l]
          /\ pass' = pass /\ due' = due /\ file' = file
          /\ \A l \in Logs \ {w} : log'[l] = log[l]
      BY <1>0, <1>2 DEF Land, Logs
    <2>2. pass[j].at \in Written => log'[j] = log[j]
      BY <1>0, <1>2, <2>1 DEF Land, Written
    <2>. QED
      BY <1>0, <2>1, <2>2, GroundStays, CombStays
  <1>3. ASSUME NEW w \in Writers, Crash(w) PROVE Grounded(j)' /\ Combed(j)'
    <2>1. log' = log /\ due' = due /\ file' = file
          /\ pass'[j] = (IF j = w THEN Idle ELSE pass[j])
      BY <1>3 DEF Crash, disk
    <2>. QED
      BY <1>0, <2>1, IdleGrounds, GroundStays, CombStays
  <1>4. ASSUME NEW m \in Logs, ArriveLog(m) PROVE Grounded(j)' /\ Combed(j)'
    <2>1. /\ \A l \in Logs : log[l] \subseteq log'[l]
          /\ pass' = pass /\ due'.logs[j] = {} /\ file' = file
          /\ log'[j] = log[j]
      BY <1>0, <1>4, ArriveLogFacts DEF ArriveLog
    <2>. QED
      BY <1>0, <2>1, GroundStays, CombStays
  <1>5. ASSUME NEW f \in Files, ArriveFile(f) PROVE Grounded(j)' /\ Combed(j)'
    <2>1. /\ log' = log /\ pass' = pass /\ due'.logs[j] = {}
          /\ \A g \in PoolFiles : file'[g] = "old" => file[g] = "old"
      BY <1>0, <1>5, ArriveFileFacts DEF ArriveFile, PoolFiles
    <2>. QED
      BY <1>0, <2>1, GroundStays, CombStays
  <1>6. ASSUME NEW f \in Files, Age(f) PROVE Grounded(j)' /\ Combed(j)'
    <2>1. log' = log /\ pass' = pass /\ due' = due /\ pass[j].at = "idle"
      BY <1>6 DEF Age
    <2>2. Grounded(j)'
      BY <1>0, <2>1, GroundStays
    <2>. QED
      BY <2>1, <2>2 DEF Combed
  <1>. QED
    BY <1>1, <1>2, <1>3, <1>4, <1>5, <1>6

LEMMA PassGrounds ==
    ASSUME Control, NEW j \in Janitors, Grounded(j), Combed(j), Pass(j)
    PROVE  Grounded(j)' /\ Combed(j)'
  <1>0. /\ due.logs[j] = {} /\ file \in [Files -> Ages]
        /\ log \in [Logs -> SUBSET Records] /\ j \in Writers /\ j \in Logs
    BY LogsAssumption DEF Grounded, Control, Typed, Logs
  <1>1. ASSUME NEW blind \in SUBSET Logs, Snapshot(j, blind)
        PROVE  Grounded(j)' /\ Combed(j)'
    <2>1. due' = due /\ pass'[j].at = "read" /\ pass'[j].found = {}
      BY <1>1, SnapshotFacts DEF Snapshot
    <2>. QED
      BY <1>0, <2>1 DEF Grounded, Combed, Written
  <1>2. CASE ReadLog(j)
    <2>1. /\ log' = log /\ due' = due /\ pass[j].at = "read"
          /\ pass'[j].at = "read" /\ pass'[j].snap = pass[j].snap
          /\ Foremost(j) \in Logs
          /\ pass'[j].found \subseteq pass[j].found
                 \cup [rec : log[Foremost(j)], src : {Foremost(j)}]
      BY <1>2, ReadLogFacts DEF ReadLog, disk
    <2>2. \A a \in pass'[j].found : a.rec \in log[a.src]
      BY <2>1 DEF Grounded, Written
    <2>. QED
      BY <1>0, <2>1, <2>2 DEF Grounded, Combed, Written
  <1>3. CASE Abort(j) \/ RemoveOwn(j)
    <2>1. due' = due /\ pass'[j] = Idle
      BY <1>3, AbortFacts DEF Abort, RemoveOwn
    <2>. QED
      BY <1>0, <2>1, IdleGrounds
  <1>4. ASSUME NEW broken \in SUBSET Ours(j), NEW linked \in BOOLEAN,
               Resolve(j, broken, linked)
        PROVE  Grounded(j)' /\ Combed(j)'
    <2>1. /\ log' = log /\ due' = due /\ pass[j].at = "read"
          /\ pass'[j].at = "write" /\ pass'[j].snap = pass[j].snap
          /\ pass'[j].found = pass[j].found
      <3>1. log' = log /\ due' = due
        BY <1>4 DEF Resolve
      <3>. QED
        BY <1>4, <3>1, ResolveFacts
    <2>2. Grounded(j)'
      BY <1>0, <2>1, GroundStays DEF Written
    <2>. QED
      BY <2>1, <2>2 DEF Combed
  <1>5. CASE Write(j)
    <2>1. due' = due /\ pass'[j].at = "prune" /\ pass'[j].found = pass[j].found
          /\ log'[j] = pass'[j].out /\ pass[j].at = "write"
          /\ pass'[j].snap = pass[j].snap
          /\ \A l \in Logs \ {j} : log'[l] = log[l]
      BY <1>5, WriteFacts DEF Write
    <2>2. \A a \in pass'[j].found : a.rec \in log'[a.src] \/ a.src = j
      BY <2>1, FoundFacts DEF Grounded, Written
    <2>. QED
      BY <1>0, <2>1, <2>2 DEF Grounded, Combed, Written
  <1>6. ASSUME NEW l \in Logs, Restat(j, l) PROVE Grounded(j)' /\ Combed(j)'
    <2>1. /\ log' = log /\ due' = due /\ pass[j].at = "prune"
          /\ pass'[j].at \in {"prune", "unlink"} /\ pass'[j].snap = pass[j].snap
          /\ pass'[j].found = pass[j].found /\ pass'[j].out = pass[j].out
      BY <1>6, RestatFacts DEF Restat, disk
    <2>2. Grounded(j)'
      BY <1>0, <2>1, GroundStays DEF Written
    <2>. QED
      BY <2>1, <2>2 DEF Combed
  <1>7. CASE Unlink(j)
    <2>1. /\ due' = due /\ pass[j].at = "unlink" /\ pass'[j].at = "prune"
          /\ pass'[j].snap = pass[j].snap
          /\ pass'[j].found = pass[j].found /\ pass'[j].out = pass[j].out
          /\ pass[j].victim # j /\ pass[j].victim \in PruneLogs(j)
          /\ \A l \in Logs \ {pass[j].victim} : log'[l] = log[l]
      BY <1>7, UnlinkFacts DEF Unlink
    <2>2. PruneLogs(j)' = PruneLogs(j)
      BY <2>1, SameSets
    <2>3. log'[j] = pass'[j].out
      BY <1>0, <2>1 DEF Grounded, Written
    <2>4. \A a \in pass'[j].found :
              a.rec \in log'[a.src] \/ a.src \in {j} \cup PruneLogs(j)
      BY <2>1, FoundFacts DEF Grounded, Written
    <2>. QED
      BY <1>0, <2>1, <2>2, <2>3, <2>4 DEF Grounded, Combed, Written
  <1>8. CASE StartSweep(j)
    <2>1. /\ log' = log /\ due' = due /\ pass[j].at = "prune" /\ file' = file
          /\ pass'[j].at = (IF pass[j].unread = {} THEN "sweep" ELSE "own")
          /\ pass'[j].unread = pass[j].unread
          /\ pass'[j].todo = (IF pass[j].unread # {} THEN {}
                  ELSE {f \in PoolFiles : Present(f)} \ KeptSpills(j))
          /\ pass'[j].snap = pass[j].snap
          /\ pass'[j].found = pass[j].found /\ pass'[j].out = pass[j].out
      BY <1>8, StartSweepFacts DEF StartSweep, disk
    <2>2. Grounded(j)'
      BY <1>0, <2>1, GroundStays DEF Written
    <2>3. KeptSpills(j)' = KeptSpills(j)
      BY <2>1, SameSets
    <2>4. CASE pass[j].unread = {}
      <3>1. pass'[j].at = "sweep"
            /\ pass'[j].todo = {f \in PoolFiles : Present(f)} \ KeptSpills(j)
        BY <2>1, <2>4
      <3>. QED
        BY <2>1, <2>2, <2>3, <3>1 DEF Combed, Present
    <2>5. CASE pass[j].unread # {}
      <3>1. pass'[j].at = "own" /\ pass'[j].unread # {}
        BY <2>1, <2>5
      <3>. QED
        BY <2>2, <3>1 DEF Combed
    <2>. QED
      BY <2>4, <2>5
  <1>9. ASSUME NEW f \in PoolFiles, Probe(j, f) PROVE Grounded(j)' /\ Combed(j)'
    <2>1. /\ log' = log /\ due' = due /\ file' = file
          /\ pass[j].at = "sweep" /\ pass'[j].snap = pass[j].snap
          /\ pass'[j].found = pass[j].found /\ pass'[j].out = pass[j].out
          /\ pass'[j].todo = pass[j].todo \ {f}
          /\ \/ /\ pass'[j].at = "delete" /\ pass'[j].victim = f
             \/ file[f] # "old" /\ pass'[j].at = "sweep"
      BY <1>9, ProbeFacts DEF Probe, disk
    <2>2. Grounded(j)'
      BY <1>0, <2>1, GroundStays DEF Written
    <2>3. KeptSpills(j)' = KeptSpills(j)
      BY <2>1, SameSets
    <2>. QED
      BY <2>1, <2>2, <2>3 DEF Combed
  <1>10. CASE Delete(j) \/ SweepLegacy(j)
    <2>1. /\ pass'[j].snap = pass[j].snap /\ pass'[j].found = pass[j].found
          /\ pass'[j].out = pass[j].out /\ pass'[j].todo = pass[j].todo
          /\ log' = log /\ due' = due
      BY <1>10, SweepFacts DEF Delete, SweepLegacy
    <2>2. \/ /\ pass[j].at = "delete" /\ pass'[j].at = "sweep"
             /\ file'[pass[j].victim] = "absent"
             /\ \A f \in Files \ {pass[j].victim} : file'[f] = file[f]
          \/ /\ pass[j].at = "sweep" /\ pass'[j].at = "own"
             /\ pass[j].todo = {}
             /\ \A f \in PoolFiles : file'[f] = file[f]
      BY <1>10, SweepFacts DEF PoolFiles
    <2>3. Grounded(j)'
      BY <1>0, <2>1, <2>2, GroundStays DEF Written
    <2>4. KeptSpills(j)' = KeptSpills(j)
      BY <2>1, SameSets
    <2>5. PoolFiles \subseteq Files
      BY DEF PoolFiles
    <2>. QED
      BY <2>1, <2>2, <2>3, <2>4, <2>5 DEF Combed
  <1>. QED
    BY <1>1, <1>2, <1>3, <1>4, <1>5, <1>6, <1>7, <1>8, <1>9, <1>10 DEF Pass

SweptInv == Control /\ \A j \in Janitors : Grounded(j) /\ Combed(j)

LEMMA InitSwept == Init => SweptInv
  <1>. SUFFICES ASSUME Init PROVE SweptInv
    OBVIOUS
  <1>1. ASSUME NEW j \in Janitors PROVE Grounded(j) /\ Combed(j)
    <2>1. pass[j].at = "idle" /\ pass[j].found = {}
      BY IdleTyped DEF Init
    <2>2. PICK w \in Worlds : due = w.due
      BY DEF Init
    <2>3. due.logs[j] = {}
      BY <2>2, WorldsAssumption
    <2>. QED
      BY <2>1, <2>3 DEF Grounded, Combed, Written
  <1>. QED
    BY <1>1, InitControl DEF SweptInv

LEMMA NextSwept ==
    ASSUME OneJanitor, SweptInv, [Next]_vars
    PROVE  SweptInv'
  <1>1. Control'
    BY NextControls DEF SweptInv
  <1>2. ASSUME NEW j \in Janitors PROVE Grounded(j)' /\ Combed(j)'
    <2>1. Control /\ Grounded(j) /\ Combed(j)
      BY DEF SweptInv
    <2>2. CASE \E i \in Janitors : Pass(i)
      <3>1. Pass(j)
        BY <2>2 DEF OneJanitor
      <3>. QED
        BY <2>1, <3>1, PassGrounds
    <2>3. CASE UNCHANGED vars
      BY <2>1, <2>3, GroundStays, CombStays DEF vars, Grounded
    <2>4. CASE Next /\ ~\E i \in Janitors : Pass(i)
      <3>1. \/ \E w \in Writers : \E k \in Keys, ref \in PoolFiles \cup {Inline},
                 dead \in BOOLEAN :
                 Put(w, [key |-> k, time |-> Start + count.puts + 1,
                         dead |-> dead, ref |-> ref])
            \/ \E w \in Writers : Land(w) \/ Crash(w)
            \/ \E l \in Logs : ArriveLog(l)
            \/ \E f \in Files : ArriveFile(f) \/ Age(f)
        BY <2>4 DEF Next
      <3>. QED
        BY <2>1, <3>1, OthersGround
    <2>. QED
      BY <2>2, <2>3, <2>4
  <1>. QED
    BY <1>1, <1>2 DEF SweptInv

\* A pass that has read every log leaves no file in the pool that was past its
\* grace when it began and that no record on disk names: where one writer
\* consolidates, for another may remove the record that this one has read.
THEOREM Swept ==
    ASSUME OneJanitor
    PROVE  Spec => []GarbageIsSwept
  <1>1. ASSUME SweptInv PROVE GarbageIsSwept
    <2>. SUFFICES ASSUME NEW j \in Janitors, pass[j].at = "own",
                         pass[j].unread = {}, NEW f \in PoolFiles,
                         file[f] = "old"
                  PROVE  \E l \in Logs : \E r \in log[l] : r.ref = f
      BY DEF GarbageIsSwept
    <2>1. Control /\ Grounded(j) /\ Combed(j) /\ j \in Logs
      BY <1>1, LogsAssumption DEF SweptInv, Logs
    <2>2. f \in KeptSpills(j) /\ log[j] = pass[j].out
      BY <2>1 DEF Combed, Grounded, Written
    <2>3. CASE \E r \in pass[j].out : f = r.ref
      BY <2>1, <2>2, <2>3
    <2>4. CASE \E a \in Live(j) \ Ours(j) : f = a.rec.ref
      <3>1. PICK a \in Live(j) \ Ours(j) : f = a.rec.ref
        BY <2>4
      <3>2. a \in pass[j].found /\ a.src \in Logs
            /\ a.src \notin {j} \cup PruneLogs(j)
        BY <2>1, OursFacts
      <3>3. a.rec \in log[a.src]
        BY <2>1, <3>2 DEF Grounded
      <3>. QED
        BY <3>1, <3>2, <3>3
    <2>. QED
      BY <2>2, <2>3, <2>4 DEF KeptSpills
  <1>2. Spec => []SweptInv
    BY InitSwept, NextSwept, PTL DEF Spec
  <1>. QED
    BY <1>1, <1>2, PTL

-----------------------------------------------------------------------------
\* A legacy namespace is named by the log of its own writer alone, and that one
\* is not being pruned.
Home(l, r) ==
    \/ r.ref = Inline \/ r.ref \in PoolFiles
    \/ r.ref.ns = l /\ l \notin Prune
AtHome ==
    \A w \in Worlds : \A l \in Logs :
        \A r \in w.log[l] \cup w.due.logs[l] : Home(l, r)

InFlight == {flight[w] : w \in Writers} \ {None}
Due == UNION {due.logs[l] : l \in Logs}
Everywhere == (UNION {log[l] : l \in Logs}) \cup Due \cup InFlight

\* The records: each has a stamp of its own, no newer than the newest of its
\* key; one that is yet to land finds its value within the grace.
Stamps ==
    /\ \A r, s \in Everywhere : r.key = s.key /\ r.time = s.time => r = s
    /\ \A r \in Everywhere : r.time <= Start + count.puts
    /\ \A l \in Logs : \A r \in log[l] : r.time <= newest[r.key]
    /\ \A l \in Logs : \A r \in log[l] \cup due.logs[l] : Home(l, r)
    /\ \A r \in InFlight : r.ref = Inline \/ r.ref \in PoolFiles
    /\ \A r \in InFlight \cup Due : r.ref = Inline \/ file[r.ref] # "old"

LEMMA EverywhereTyped ==
    ASSUME Control
    PROVE  /\ Everywhere \subseteq Records /\ InFlight \subseteq Everywhere
           /\ Due \subseteq Everywhere
           /\ \A l \in Logs : /\ log[l] \subseteq Everywhere
                              /\ due.logs[l] \subseteq Due
           /\ \A w \in Writers : flight[w] # None => flight[w] \in InFlight
  <1>1. InFlight \subseteq Records
    BY DEF InFlight, Control, Typed
  <1>2. due.logs \in [Logs -> SUBSET Records] /\ log \in [Logs -> SUBSET Records]
    BY DEF Control, Typed, Dues
  <1>3. Due \subseteq Records
    BY <1>2 DEF Due
  <1>. QED
    BY <1>1, <1>2, <1>3 DEF Everywhere, Due, InFlight

LEMMA StampsStay ==
    ASSUME Control, Stamps,
           \A l \in Logs : log'[l] \subseteq log[l] \cup due.logs[l] \cup InFlight,
           \A l \in Logs : due'.logs[l] \subseteq due.logs[l],
           InFlight' \subseteq InFlight,
           count'.puts = count.puts,
           \A l \in Logs : \A r \in log'[l] : r.time <= newest'[r.key],
           \A r \in InFlight \cup Due : r.ref = Inline \/ file'[r.ref] # "old"
    PROVE  Stamps'
  <1>1. Due' \subseteq Due
    BY DEF Due
  <1>2. Everywhere' \subseteq Everywhere
    <2>1. \A l \in Logs : log'[l] \subseteq Everywhere
      BY EverywhereTyped
    <2>. QED
      BY <1>1, <2>1, EverywhereTyped DEF Everywhere
  <1>3. /\ \A r, s \in Everywhere' : r.key = s.key /\ r.time = s.time => r = s
        /\ \A r \in Everywhere' : r.time <= Start + count'.puts
    BY <1>2 DEF Stamps
  <1>4. ASSUME NEW l \in Logs, NEW r \in log'[l] \cup due'.logs[l]
        PROVE  Home(l, r)
    BY <1>4 DEF Stamps, Home
  <1>5. \A r \in InFlight' : r.ref = Inline \/ r.ref \in PoolFiles
    BY DEF Stamps
  <1>6. \A r \in (InFlight \cup Due)' : r.ref = Inline \/ file'[r.ref] # "old"
    BY <1>1
  <1>. QED
    BY <1>3, <1>4, <1>5, <1>6 DEF Stamps

\* What lags behind its value stays within the grace.
LEMMA FreshStays ==
    ASSUME Control, Stamps,
           \A f \in Files : file'[f] = "old" => file[f] = "old"
    PROVE  \A r \in InFlight \cup Due : r.ref = Inline \/ file'[r.ref] # "old"
  <1>. SUFFICES ASSUME NEW r \in InFlight \cup Due, r.ref # Inline
                PROVE  file'[r.ref] # "old"
    OBVIOUS
  <1>1. r \in Records
    BY EverywhereTyped
  <1>2. r.ref \in Files
    BY <1>1, RecordFacts
  <1>. QED
    BY <1>2 DEF Stamps

LEMMA InitStamps ==
    ASSUME AtHome, Init
    PROVE  Stamps
  <1>0. Control
    BY InitControl
  <1>1. PICK w \in Worlds : /\ log = w.log /\ file = w.file /\ due = w.due
                            /\ newest = [k \in Keys |-> StampOf(w.log, k)]
    BY DEF Init
  <1>2. InFlight = {} /\ count.puts = 0
    BY DEF Init, InFlight
  <1>3. Start + count.puts = Start
    BY <1>2, NumbersAssumption
  <1>4. ASSUME NEW r \in Everywhere
        PROVE  \E l \in Logs : r \in log[l] \cup due.logs[l]
    BY <1>2 DEF Everywhere, Due
  <1>5. \A l, m \in Logs :
            \A r \in log[l] \cup due.logs[l], s \in log[m] \cup due.logs[m] :
                r.time <= Start /\ (r.key = s.key /\ r.time = s.time => r = s)
    BY <1>1, WorldsAssumption
  <1>6. \A r, s \in Everywhere : r.key = s.key /\ r.time = s.time => r = s
    BY <1>4, <1>5
  <1>7. \A r \in Everywhere : r.time <= Start + count.puts
    BY <1>3, <1>4, <1>5
  <1>8. ASSUME NEW l \in Logs, NEW r \in log[l] PROVE r.time <= newest[r.key]
    <2>1. r \in Records /\ r.key \in Keys /\ log \in [Logs -> SUBSET Records]
      BY <1>0, RecordFacts DEF Control, Typed
    <2>. QED
      BY <1>1, <2>1, StampTyped
  <1>9. \A l \in Logs : \A r \in log[l] \cup due.logs[l] : Home(l, r)
    BY <1>1 DEF AtHome
  <1>10. ASSUME NEW r \in Due PROVE r.ref = Inline \/ file[r.ref] # "old"
    <2>1. PICK l \in Logs : r \in due.logs[l]
      BY DEF Due
    <2>. QED
      BY <1>1, <2>1, WorldsAssumption
  <1>. QED
    BY <1>2, <1>6, <1>7, <1>8, <1>9, <1>10 DEF Stamps

LEMMA PutStamps ==
    ASSUME Control, Stamps, NEW w \in Writers, NEW k \in Keys,
           NEW ref \in PoolFiles \cup {Inline}, NEW dead \in BOOLEAN,
           Put(w, [key |-> k, time |-> Start + count.puts + 1,
                   dead |-> dead, ref |-> ref])
    PROVE  Stamps'
  <1>. DEFINE n == [key |-> k, time |-> Start + count.puts + 1,
                    dead |-> dead, ref |-> ref]
  <1>1. n \in Records /\ n.ref = ref /\ n.time = Start + count.puts + 1 /\ n # None
    BY PutControls, NoneAssumption
  <1>2. /\ flight[w] = None /\ log' = log /\ due' = due /\ newest' = newest
        /\ flight' = [flight EXCEPT ![w] = n] /\ flight \in [Writers -> Records \cup {None}]
        /\ count'.puts = count.puts + 1 /\ count.puts \in Nat
        /\ file \in [Files -> Ages]
        /\ file' = IF n.ref = Inline THEN file ELSE [file EXCEPT ![n.ref] = "young"]
    BY NumbersAssumption DEF Put, Control, Typed
  <1>. HIDE DEF n
  <1>3. InFlight' \subseteq InFlight \cup {n}
    BY <1>2 DEF InFlight
  <1>4. Due' = Due
    BY <1>2 DEF Due
  <1>5. Everywhere' \subseteq Everywhere \cup {n}
    BY <1>2, <1>3, <1>4 DEF Everywhere
  <1>6. \A r \in Everywhere : r.time \in Nat /\ r.time <= Start + count.puts
    BY EverywhereTyped, RecordFacts DEF Stamps
  <1>7. \A r \in Everywhere : r.time # n.time
    BY <1>1, <1>2, <1>6, NumbersAssumption
  <1>8. /\ \A r, s \in Everywhere' : r.key = s.key /\ r.time = s.time => r = s
        /\ \A r \in Everywhere' : r.time <= Start + count'.puts
    <2>1. ASSUME NEW r \in Everywhere' PROVE r.time <= Start + count'.puts
      <3>1. CASE r = n
        BY <1>1, <1>2, <3>1, NumbersAssumption
      <3>2. CASE r \in Everywhere
        BY <1>2, <1>6, <3>2, NumbersAssumption
      <3>. QED
        BY <1>5, <3>1, <3>2
    <2>. QED
      BY <1>5, <1>7, <2>1 DEF Stamps
  <1>9. \A f \in Files : file'[f] = "old" => file[f] = "old"
    BY <1>2
  <1>10. \A r \in (InFlight \cup Due)' : r.ref = Inline \/ file'[r.ref] # "old"
    <2>1. n.ref = Inline \/ file'[n.ref] # "old"
      BY <1>1, <1>2, RecordFacts
    <2>. QED
      BY <1>3, <1>4, <1>9, <2>1, FreshStays
  <1>11. \A r \in InFlight' : r.ref = Inline \/ r.ref \in PoolFiles
    BY <1>1, <1>3 DEF Stamps
  <1>. QED
    BY <1>2, <1>8, <1>10, <1>11 DEF Stamps

\* What is landed or delivered is accounted for.
LEMMA SeenCovers ==
    ASSUME Control, Control', newest' = Seen(log')
    PROVE  /\ \A l \in Logs : \A r \in log'[l] : r.time <= newest'[r.key]
           /\ \A k \in Keys : newest[k] <= newest'[k]
  <1>1. log' \in [Logs -> SUBSET Records]
        /\ newest \in [Keys -> 0 .. Start + MaxPuts]
    BY DEF Control, Typed
  <1>2. ASSUME NEW l \in Logs, NEW r \in log'[l] PROVE r.time <= newest'[r.key]
    <2>1. r \in Records /\ r.key \in Keys /\ r.time \in Nat
      BY <1>1, RecordFacts
    <2>2. r.time <= StampOf(log', r.key) /\ StampOf(log', r.key) \in Nat
      BY <1>1, <2>1, StampTyped
    <2>3. StampOf(log', r.key) <= newest'[r.key] /\ newest'[r.key] \in Nat
      BY <1>1, <2>1, SeenTyped
    <2>. QED
      BY <2>1, <2>2, <2>3
  <1>. QED
    BY <1>1, <1>2, SeenTyped

LEMMA LandStamps ==
    ASSUME Control, Control', Stamps, NEW w \in Writers, Land(w)
    PROVE  Stamps'
  <1>1. flight[w] \in InFlight /\ w \in Logs
    BY EverywhereTyped DEF Land, Logs
  <1>2. \A l \in Logs : log'[l] \subseteq log[l] \cup InFlight
    BY <1>1 DEF Land, Control, Typed
  <1>3. InFlight' \subseteq InFlight
    BY DEF Land, InFlight, Control, Typed
  <1>4. due' = due /\ count' = count /\ file' = file /\ newest' = Seen(log')
    BY DEF Land
  <1>. QED
    BY <1>2, <1>3, <1>4, SeenCovers, FreshStays, StampsStay

LEMMA ArriveStamps ==
    ASSUME Control, Control', Stamps, NEW m \in Logs, ArriveLog(m)
    PROVE  Stamps'
  <1>1. \A l \in Logs : log'[l] \subseteq log[l] \cup due.logs[l]
    BY ArriveLogFacts
  <1>2. \A l \in Logs : due'.logs[l] \subseteq due.logs[l]
    BY ArriveLogFacts
  <1>3. InFlight' = InFlight
    BY DEF ArriveLog, InFlight
  <1>4. count' = count /\ file' = file /\ newest' = Seen(log')
    BY DEF ArriveLog
  <1>. QED
    BY <1>1, <1>2, <1>3, <1>4, SeenCovers, FreshStays, StampsStay

LEMMA FileStamps ==
    ASSUME Control, Stamps, NEW f \in Files, ArriveFile(f) \/ Age(f)
    PROVE  Stamps'
  <1>1. /\ log' = log /\ due'.logs = due.logs /\ InFlight' = InFlight
        /\ count' = count /\ newest' = newest
    BY ArriveFileFacts DEF ArriveFile, Age, InFlight
  <1>2. file \in [Files -> Ages]
    BY DEF Control, Typed
  <1>3. \A r \in InFlight \cup Due : r.ref = Inline \/ file'[r.ref] # "old"
    <2>1. CASE ArriveFile(f)
      BY <1>2, <2>1, FreshStays DEF ArriveFile
    <2>2. CASE Age(f)
      <3>. SUFFICES ASSUME NEW r \in InFlight \cup Due, r.ref # Inline
                    PROVE  file'[r.ref] # "old"
        OBVIOUS
      <3>1. r \in Records
        BY EverywhereTyped
      <3>2. r.ref \in Files /\ file[r.ref] # "old"
        BY <3>1, RecordFacts DEF Stamps
      <3>3. r.ref # f
        BY <2>2 DEF Age, InFlight, Due
      <3>. QED
        BY <1>2, <2>2, <3>2, <3>3 DEF Age
    <2>. QED
      BY <2>1, <2>2
  <1>4. \A l \in Logs : \A r \in log'[l] : r.time <= newest'[r.key]
    BY <1>1 DEF Stamps
  <1>. QED
    BY <1>1, <1>3, <1>4, StampsStay

\* A step of the pass but Write takes records and files away, and makes files
\* young.
LEMMA PassStamps ==
    ASSUME Control, Stamps, due' = due, flight' = flight, newest' = newest,
           count'.puts = count.puts,
           \A l \in Logs : log'[l] \subseteq log[l],
           \A f \in Files : file'[f] = "old" => file[f] = "old"
    PROVE  Stamps'
  <1>1. InFlight' = InFlight
    BY DEF InFlight
  <1>2. \A l \in Logs : \A r \in log'[l] : r.time <= newest'[r.key]
    BY DEF Stamps
  <1>. QED
    BY <1>1, <1>2, FreshStays, StampsStay

LEMMA CrashStamps ==
    ASSUME Control, Stamps, NEW w \in Writers, Crash(w)
    PROVE  Stamps'
  <1>1. InFlight' \subseteq InFlight
    BY DEF Crash, InFlight, Control, Typed
  <1>2. log' = log /\ file' = file /\ due' = due /\ newest' = newest
        /\ count'.puts = count.puts
    BY DEF Crash, disk, Control, Typed
  <1>3. \A l \in Logs : \A r \in log'[l] : r.time <= newest'[r.key]
    BY <1>2 DEF Stamps
  <1>. QED
    BY <1>1, <1>2, <1>3, FreshStays, StampsStay

-----------------------------------------------------------------------------
Tag(r, l) == [rec |-> r, src |-> l]
Namespaced(r) == r.ref # Inline /\ r.ref \notin PoolFiles
Folded == {"write", "prune", "unlink", "sweep", "delete"}

\* Where the newest record of a key goes that the pass has read.
Saved(j, r) ==
    \/ r \in pass[j].out
    \/ Namespaced(r) /\ Repointed(r) \in pass[j].out
    \/ \E a \in pass[j].dropped : a.rec = r
    \/ \E a \in Live(j) \ Ours(j) : a.rec = r

\* The pass has read what was there; what it has not is no older than the pass.
ReadAll(j) ==
    LET p == pass[j]
    IN  /\ p.at # "idle" => \A a \in p.found : a.rec.time <= newest[a.rec.key]
        /\ p.at = "read" =>
               \A l \in DOMAIN p.snap :
                   /\ p.snap[l] \subseteq log[l]
                   /\ \/ l \in p.todo \cup p.unread
                      \/ \A r \in p.snap[l] : Tag(r, l) \in p.found
        /\ p.at \notin {"idle", "read"} =>
               \A l \in DOMAIN p.snap \ p.unread : \A r \in p.snap[l] :
                   Tag(r, l) \in p.found
        /\ p.at \in Folded \cup {"read"} =>
               \A l \in Logs : \A r \in log[l] :
                   \/ Tag(r, l) \in p.found \/ l \in p.unread
                   \/ p.at = "read" /\ l \in p.todo
                   \/ p.at \in Written /\ l = j
                   \/ l # j /\ (r.ref = Inline \/ file[r.ref] # "old")

\* What it is about to write.
Ready(j) ==
    LET p == pass[j]
    IN  /\ j \notin p.unread
        /\ \A r \in p.out :
               /\ Home(j, r)
               /\ \A s \in p.out : s.key = r.key => s = r
               /\ \/ \E l \in Logs : r \in log[l]
                  \/ \E s \in log[j] : Namespaced(s) /\ r = Repointed(s)
        /\ \A r \in log[j] :
               Namespaced(r) /\ Repointed(r) \in p.out
                   => Present(Repointed(r).ref)

\* And the pass keeps what is newest.
KeepsAll(j) ==
    LET p == pass[j]
    IN  p.at \in Folded =>
        /\ \A a \in p.found :
               ~a.rec.dead /\ a.rec.time = newest[a.rec.key] => Saved(j, a.rec)
        /\ \A a \in p.dropped : a.rec.ref # Inline /\ file[a.rec.ref] # "old"
        /\ p.at = "write" => Ready(j)

NeverLostInv ==
    /\ SweptInv /\ Stamps
    /\ \A j \in Janitors : ReadAll(j) /\ KeepsAll(j)

\* A namespaced record is in the log of its own writer.
LEMMA HomeFacts ==
    ASSUME Control, Stamps, NEW l \in Logs, NEW r \in log[l] \cup due.logs[l],
           Namespaced(r)
    PROVE  /\ r \in Records /\ r.ref \in Files /\ r.ref.ns = l
           /\ l \in Writers /\ l \notin Prune /\ l \notin Copies
  <1>1. r \in Records
    BY EverywhereTyped
  <1>2. r.ref \in Files /\ r.ref \notin PoolFiles
    BY <1>1, RecordFacts DEF Namespaced
  <1>3. r.ref.ns \in Writers /\ r.ref.ns = l /\ l \notin Prune
    BY <1>1, <1>2, RecordFacts DEF Stamps, Home, Namespaced
  <1>. QED
    BY <1>1, <1>2, <1>3, LogsAssumption

LEMMA WriteStamps ==
    ASSUME Control, Control', Stamps, NEW j \in Janitors, Grounded(j), Ready(j),
           Write(j)
    PROVE  Stamps'
  <1>1. /\ j \in Logs /\ log'[j] = pass[j].out
        /\ \A l \in Logs \ {j} : log'[l] = log[l]
    BY WriteFacts
  <1>2. file' = file /\ due' = due /\ flight' = flight /\ newest' = newest
        /\ count' = count
    BY DEF Write
  <1>3. InFlight' = InFlight /\ Due' = Due
    BY <1>2 DEF InFlight, Due
  <1>4. /\ \A l \in Logs : log[l] \subseteq Everywhere /\ due.logs[l] \subseteq Due
        /\ Due \subseteq Everywhere /\ InFlight \subseteq Everywhere
        /\ Everywhere \subseteq Records
    BY EverywhereTyped
  <1>5. due.logs[j] = {}
    BY DEF Grounded
  \* A record to be written is there already, or it is one of our log, repointed.
  <1>6. ASSUME NEW r \in pass[j].out
        PROVE  \/ r \in Everywhere /\ \E l \in Logs : r \in log[l]
               \/ \E s \in log[j] : /\ Namespaced(s) /\ r = Repointed(s)
                                    /\ s \in Everywhere /\ s.key = r.key
                                    /\ s.time = r.time
    <2>1. CASE \E l \in Logs : r \in log[l]
      BY <1>4, <2>1
    <2>2. CASE \E s \in log[j] : Namespaced(s) /\ r = Repointed(s)
      <3>1. PICK s \in log[j] : Namespaced(s) /\ r = Repointed(s)
        BY <2>2
      <3>2. s \in Everywhere /\ s \in Records /\ s.ref \in Files
        BY <1>1, <1>4, <3>1, HomeFacts
      <3>. QED
        BY <3>1, <3>2, RepointedFacts
    <2>. QED
      BY <2>1, <2>2 DEF Ready
  <1>7. ASSUME NEW s \in log[j], Namespaced(s), NEW t \in Everywhere,
               t.key = s.key, t.time = s.time
        PROVE  t = s /\ t \notin InFlight /\ t \notin Due
                   /\ \A l \in Logs : t \in log[l] => l = j
    <2>1. s \in Everywhere /\ s = t
      BY <1>1, <1>4, <1>7 DEF Stamps
    <2>2. t \notin InFlight
      BY <1>7, <2>1 DEF Stamps, Namespaced
    <2>3. s.ref.ns = j
      BY <1>1, <1>7, HomeFacts
    <2>4. \A l \in Logs : t \in log[l] \cup due.logs[l] => l = j
      BY <1>7, <2>1, <2>3, HomeFacts
    <2>5. t \notin Due
      BY <1>5, <2>4 DEF Due
    <2>. QED
      BY <2>1, <2>2, <2>4, <2>5
  <1>8. ASSUME NEW t \in Everywhere'
        PROVE  \/ t \in pass[j].out
               \/ /\ t \in Everywhere
                  /\ \/ t \in InFlight \cup Due
                     \/ \E l \in Logs \ {j} : t \in log[l]
    <2>1. t \in InFlight \cup Due \/ \E l \in Logs : t \in log'[l]
      BY <1>3 DEF Everywhere
    <2>. QED
      BY <1>1, <1>4, <2>1
  <1>9. ASSUME NEW r \in pass[j].out, NEW t \in Everywhere',
               t.key = r.key, t.time = r.time
        PROVE  r = t
    <2>1. CASE t \in pass[j].out
      BY <1>9, <2>1 DEF Ready
    <2>2. CASE t \notin pass[j].out
      <3>1. /\ t \in Everywhere
            /\ t \in InFlight \cup Due \/ \E l \in Logs \ {j} : t \in log[l]
        BY <1>8, <2>2
      <3>2. CASE r \in Everywhere
        BY <1>9, <3>1, <3>2 DEF Stamps
      <3>3. CASE r \notin Everywhere
        <4>1. PICK s \in log[j] : Namespaced(s) /\ s.key = r.key /\ s.time = r.time
          BY <1>6, <3>3
        <4>. QED
          BY <1>7, <1>9, <3>1, <4>1
      <3>. QED
        BY <3>2, <3>3
    <2>. QED
      BY <2>1, <2>2
  <1>10. \A r, s \in Everywhere' : r.key = s.key /\ r.time = s.time => r = s
    BY <1>8, <1>9 DEF Stamps
  <1>11. ASSUME NEW r \in pass[j].out
         PROVE  r.time <= Start + count.puts /\ r.time <= newest[r.key]
    BY <1>1, <1>6 DEF Stamps
  <1>12. \A r \in Everywhere' : r.time <= Start + count'.puts
    BY <1>2, <1>8, <1>11 DEF Stamps
  <1>13. \A l \in Logs : \A r \in log'[l] : r.time <= newest'[r.key]
    BY <1>1, <1>2, <1>11 DEF Stamps
  <1>14. \A l \in Logs : \A r \in log'[l] \cup due'.logs[l] : Home(l, r)
    BY <1>1, <1>2 DEF Stamps, Ready
  <1>15. /\ \A r \in InFlight' : r.ref = Inline \/ r.ref \in PoolFiles
         /\ \A r \in (InFlight \cup Due)' : r.ref = Inline \/ file'[r.ref] # "old"
    BY <1>2, <1>3 DEF Stamps
  <1>. QED
    BY <1>10, <1>12, <1>13, <1>14, <1>15 DEF Stamps

\* What the others do: records arrive whose values are within the grace.
LEMMA OthersRead ==
    ASSUME Control, Stamps, NEW j \in Janitors, ReadAll(j),
           pass'[j].at = pass[j].at, pass'[j].snap = pass[j].snap,
           pass'[j].found = pass[j].found, pass'[j].todo = pass[j].todo,
           pass'[j].unread = pass[j].unread,
           \A l \in Logs : /\ log'[l] \subseteq log[l] \cup due.logs[l] \cup InFlight
                           /\ log[l] \subseteq log'[l],
           pass[j].at # "idle" => log'[j] = log[j],
           pass[j].at # "idle" =>
               \A f \in Files : file'[f] = "old" => file[f] = "old",
           newest' \in [Keys -> 0 .. Start + MaxPuts],
           \A k \in Keys : newest[k] <= newest'[k]
    PROVE  ReadAll(j)'
  <1>. SUFFICES ASSUME pass[j].at # "idle" PROVE ReadAll(j)'
    BY DEF ReadAll, Folded
  <1>. DEFINE p == pass[j]
  <1>1. newest \in [Keys -> 0 .. Start + MaxPuts] /\ Start + MaxPuts \in Nat
    BY NumbersAssumption DEF Control, Typed
  <1>2. ASSUME NEW a \in p.found PROVE a.rec.time <= newest'[a.rec.key]
    <2>1. a.rec \in Records /\ a.rec.key \in Keys /\ a.rec.time \in Nat
      BY FoundFacts, RecordFacts
    <2>2. a.rec.time <= newest[a.rec.key]
      BY DEF ReadAll
    <2>3. newest[a.rec.key] \in Nat /\ newest'[a.rec.key] \in Nat
          /\ newest[a.rec.key] <= newest'[a.rec.key]
      BY <1>1, <2>1
    <2>. QED
      BY <2>1, <2>2, <2>3
  <1>3. ASSUME p.at = "read", NEW l \in DOMAIN p.snap
        PROVE  /\ p.snap[l] \subseteq log'[l]
               /\ \/ l \in p.todo \cup p.unread
                  \/ \A r \in p.snap[l] : Tag(r, l) \in p.found
    <2>1. l \in Logs
      BY PassFacts DEF Control
    <2>. QED
      BY <1>3, <2>1 DEF ReadAll
  <1>4. ASSUME p.at \in Folded \cup {"read"}, NEW l \in Logs, NEW r \in log'[l]
        PROVE  \/ Tag(r, l) \in p.found \/ l \in p.unread
               \/ p.at = "read" /\ l \in p.todo
               \/ p.at \in Written /\ l = j
               \/ l # j /\ (r.ref = Inline \/ file'[r.ref] # "old")
    <2>1. r \in Records
      BY EverywhereTyped
    <2>2. r.ref = Inline \/ r.ref \in Files
      BY <2>1, RecordFacts
    <2>3. CASE r \in log[l]
      <3>1. \/ Tag(r, l) \in p.found \/ l \in p.unread
            \/ p.at = "read" /\ l \in p.todo
            \/ p.at \in Written /\ l = j
            \/ l # j /\ (r.ref = Inline \/ file[r.ref] # "old")
        BY <1>4, <2>3 DEF ReadAll
      <3>. QED
        BY <2>2, <3>1
    <2>4. CASE r \notin log[l]
      <3>1. l # j /\ r \in InFlight \cup Due
        BY <2>4, EverywhereTyped
      <3>2. r.ref = Inline \/ file[r.ref] # "old"
        BY <3>1 DEF Stamps
      <3>. QED
        BY <2>2, <3>1, <3>2
    <2>. QED
      BY <2>3, <2>4
  <1>5. p.at \notin {"idle", "read"} =>
            \A l \in DOMAIN p.snap \ p.unread : \A r \in p.snap[l] :
                Tag(r, l) \in p.found
    BY DEF ReadAll
  <1>. QED
    BY <1>2, <1>3, <1>4, <1>5 DEF ReadAll

\* The steps of the pass once it has read.
LEMMA WrittenRead ==
    ASSUME Control, NEW j \in Janitors, ReadAll(j),
           pass[j].at \notin {"idle", "read"}, pass'[j].at \in Written,
           pass[j].at # "own",
           pass'[j].snap = pass[j].snap,
           pass'[j].found = pass[j].found, pass'[j].unread = pass[j].unread,
           \A l \in Logs \ {j} : log'[l] \subseteq log[l],
           \A f \in Files : file'[f] = "old" => file[f] = "old",
           newest' = newest
    PROVE  ReadAll(j)'
  <1>. DEFINE p == pass[j]
  <1>1. p.at \in Folded
    BY PassFacts DEF Control, Phases, Folded
  <1>2. pass'[j].at \notin {"idle", "read"}
    BY DEF Written
  <1>3. ASSUME NEW l \in Logs, NEW r \in log'[l]
        PROVE  \/ Tag(r, l) \in p.found \/ l \in p.unread \/ l = j
               \/ l # j /\ (r.ref = Inline \/ file'[r.ref] # "old")
    <2>. SUFFICES ASSUME l # j
                  PROVE  \/ Tag(r, l) \in p.found \/ l \in p.unread
                         \/ r.ref = Inline \/ file'[r.ref] # "old"
      OBVIOUS
    <2>1. r \in log[l] /\ r \in Records
      BY EverywhereTyped
    <2>2. r.ref = Inline \/ r.ref \in Files
      BY <2>1, RecordFacts
    <2>3. \/ Tag(r, l) \in p.found \/ l \in p.unread
          \/ r.ref = Inline \/ file[r.ref] # "old"
      BY <1>1, <2>1 DEF ReadAll, Folded
    <2>. QED
      BY <2>2, <2>3
  <1>4. \A l \in DOMAIN p.snap \ p.unread : \A r \in p.snap[l] :
            Tag(r, l) \in p.found
    BY DEF ReadAll
  <1>5. \A a \in p.found : a.rec.time <= newest[a.rec.key]
    BY DEF ReadAll
  <1>. QED
    BY <1>2, <1>3, <1>4, <1>5 DEF ReadAll

LEMMA SnapshotReads ==
    ASSUME Control, NEW j \in Janitors, NEW blind \in SUBSET Logs,
           Snapshot(j, blind)
    PROVE  ReadAll(j)'
  <1>. DEFINE s == [l \in There \ blind |-> log[l]]
  <1>1. log' = log
    BY DEF Snapshot, disk
  <1>2. /\ pass'[j].at = "read" /\ pass'[j].unread = blind
        /\ pass'[j].todo = There \ blind /\ pass'[j].snap = s
        /\ pass'[j].found = {}
    BY SnapshotFacts
  <1>3. DOMAIN s = There \ blind /\ \A l \in There \ blind : s[l] = log[l]
    OBVIOUS
  <1>. HIDE DEF s
  <1>4. \A l \in Logs : \A r \in log'[l] : l \in pass'[j].todo \cup pass'[j].unread
    BY <1>1, <1>2 DEF There
  <1>. QED
    BY <1>1, <1>2, <1>3, <1>4 DEF ReadAll

LEMMA ReadLogReads ==
    ASSUME Control, Stamps, NEW j \in Janitors, ReadAll(j), ReadLog(j)
    PROVE  ReadAll(j)'
  <1>. DEFINE p == pass[j]
              n == Foremost(j)
  <1>1. /\ p.at = "read" /\ n \in p.todo /\ n \in Logs
        /\ pass'[j].at = "read" /\ pass'[j].snap = p.snap
        /\ pass'[j].todo = p.todo \ {n}
        /\ \/ /\ pass'[j].found = p.found \cup [rec : log[n], src : {n}]
              /\ pass'[j].unread = p.unread
           \/ /\ pass'[j].found = p.found
              /\ pass'[j].unread = p.unread \cup {n}
    BY ReadLogFacts
  <1>2. log' = log /\ file' = file /\ newest' = newest
    BY DEF ReadLog, disk
  <1>. HIDE DEF n
  <1>3. \A a \in pass'[j].found : a.rec.time <= newest[a.rec.key]
    BY <1>1 DEF ReadAll, Stamps
  <1>4. \A r \in log[n] : n \in pass'[j].unread \/ Tag(r, n) \in pass'[j].found
    BY <1>1 DEF Tag
  <1>5. p.found \subseteq pass'[j].found /\ p.unread \subseteq pass'[j].unread
    BY <1>1
  <1>6. ASSUME NEW l \in DOMAIN p.snap
        PROVE  /\ p.snap[l] \subseteq log[l]
               /\ \/ l \in pass'[j].todo \cup pass'[j].unread
                  \/ \A r \in p.snap[l] : Tag(r, l) \in pass'[j].found
    BY <1>1, <1>4, <1>5 DEF ReadAll
  <1>7. ASSUME NEW l \in Logs, NEW r \in log[l]
        PROVE  \/ Tag(r, l) \in pass'[j].found \/ l \in pass'[j].unread
               \/ l \in pass'[j].todo
               \/ l # j /\ (r.ref = Inline \/ file[r.ref] # "old")
    BY <1>1, <1>4, <1>5 DEF ReadAll, Written
  <1>. QED
    BY <1>1, <1>2, <1>3, <1>6, <1>7 DEF ReadAll

LEMMA ResolveReads ==
    ASSUME Control, NEW j \in Janitors, ReadAll(j),
           NEW broken \in SUBSET Ours(j), NEW linked \in BOOLEAN,
           Resolve(j, broken, linked)
    PROVE  ReadAll(j)'
  <1>. DEFINE p == pass[j]
  <1>1. log' = log /\ newest' = newest
    BY DEF Resolve
  <1>2. /\ p.at = "read" /\ p.todo = {}
        /\ pass'[j].at = "write" /\ pass'[j].snap = p.snap
        /\ pass'[j].unread = p.unread /\ pass'[j].found = p.found
        /\ \A f \in Files : file'[f] \in {file[f], "young"}
    BY ResolveFacts
  <1>3. \A l \in DOMAIN p.snap \ p.unread : \A r \in p.snap[l] :
            Tag(r, l) \in p.found
    BY <1>2 DEF ReadAll
  <1>4. ASSUME NEW l \in Logs, NEW r \in log[l]
        PROVE  \/ Tag(r, l) \in p.found \/ l \in p.unread
               \/ l # j /\ (r.ref = Inline \/ file'[r.ref] # "old")
    <2>1. r \in Records
      BY EverywhereTyped
    <2>2. r.ref = Inline \/ r.ref \in Files
      BY <2>1, RecordFacts
    <2>3. \/ Tag(r, l) \in p.found \/ l \in p.unread
          \/ l # j /\ (r.ref = Inline \/ file[r.ref] # "old")
      BY <1>2 DEF ReadAll, Written
    <2>. QED
      BY <1>2, <2>2, <2>3
  <1>5. \A a \in p.found : a.rec.time <= newest[a.rec.key]
    BY <1>2 DEF ReadAll
  <1>. QED
    BY <1>1, <1>2, <1>3, <1>4, <1>5 DEF ReadAll

-----------------------------------------------------------------------------
LEMMA KeepsStays ==
    ASSUME Control, NEW j \in Janitors, ReadAll(j), KeepsAll(j),
           pass'[j].at \in Folded =>
               /\ pass[j].at \in Folded /\ pass'[j].snap = pass[j].snap
               /\ pass'[j].found = pass[j].found /\ pass'[j].out = pass[j].out
               /\ pass'[j].dropped = pass[j].dropped
               /\ \A f \in Files : file'[f] = "old" => file[f] = "old",
           newest' \in [Keys -> 0 .. Start + MaxPuts],
           \A k \in Keys : newest[k] <= newest'[k],
           pass'[j].at = "write" => Ready(j)'
    PROVE  KeepsAll(j)'
  <1>. SUFFICES ASSUME pass'[j].at \in Folded PROVE KeepsAll(j)'
    BY DEF KeepsAll
  <1>. DEFINE p == pass[j]
  <1>1. newest \in [Keys -> 0 .. Start + MaxPuts] /\ Start + MaxPuts \in Nat
    BY NumbersAssumption DEF Control, Typed
  <1>2. p.at \in Folded /\ p.at # "idle"
    BY DEF Folded
  <1>3. Live(j)' = Live(j) /\ Ours(j)' = Ours(j)
    BY SameSets
  <1>4. ASSUME NEW a \in pass'[j].found, ~a.rec.dead,
               a.rec.time = newest'[a.rec.key]
        PROVE  Saved(j, a.rec)'
    <2>1. a \in p.found
      OBVIOUS
    <2>2. a.rec \in Records /\ a.rec.key \in Keys /\ a.rec.time \in Nat
      BY <2>1, FoundFacts, RecordFacts
    <2>3. a.rec.time <= newest[a.rec.key]
      BY <1>2, <2>1 DEF ReadAll
    <2>4. newest[a.rec.key] \in Nat /\ newest'[a.rec.key] \in Nat
          /\ newest[a.rec.key] <= newest'[a.rec.key]
      BY <1>1, <2>2
    <2>5. a.rec.time = newest[a.rec.key]
      BY <1>4, <2>2, <2>3, <2>4
    <2>6. Saved(j, a.rec)
      BY <1>2, <1>4, <2>1, <2>5 DEF KeepsAll
    <2>. QED
      BY <1>3, <2>6 DEF Saved
  <1>5. ASSUME NEW a \in pass'[j].dropped
        PROVE  a.rec.ref # Inline /\ file'[a.rec.ref] # "old"
    <2>1. a \in p.dropped /\ a \in p.found
      BY DEF Control, Placed
    <2>2. a.rec.ref # Inline /\ file[a.rec.ref] # "old"
      BY <1>2, <2>1 DEF KeepsAll
    <2>3. a.rec \in Records
      BY <2>1, FoundFacts
    <2>4. a.rec.ref \in Files
      BY <2>2, <2>3, RecordFacts
    <2>. QED
      BY <2>2, <2>4
  <1>. QED
    BY <1>4, <1>5 DEF KeepsAll

LEMMA ReadyStays ==
    ASSUME Control, Stamps, NEW j \in Janitors, Ready(j),
           pass'[j].unread = pass[j].unread, pass'[j].out = pass[j].out,
           log'[j] = log[j], \A l \in Logs : log[l] \subseteq log'[l],
           \A f \in Files : file'[f] = "absent" => file[f] = "absent"
    PROVE  Ready(j)'
  <1>1. j \in Logs
    BY LogsAssumption DEF Logs
  <1>2. ASSUME NEW r \in log[j], Namespaced(r), Repointed(r) \in pass[j].out
        PROVE  Present(Repointed(r).ref)'
    <2>1. Repointed(r).ref \in PoolFiles
      BY <1>1, <1>2, HomeFacts, RepointedFacts
    <2>2. Repointed(r).ref \in Files /\ Repointed(r).ref # Inline
      BY <2>1, NoneAssumption DEF PoolFiles
    <2>3. Present(Repointed(r).ref)
      BY <1>2 DEF Ready
    <2>. QED
      BY <2>2, <2>3 DEF Present
  <1>3. ASSUME NEW r \in pass[j].out
        PROVE  /\ Home(j, r)
               /\ \A s \in pass[j].out : s.key = r.key => s = r
               /\ \/ \E l \in Logs : r \in log'[l]
                  \/ \E s \in log[j] : Namespaced(s) /\ r = Repointed(s)
    BY DEF Ready
  <1>. QED
    BY <1>2, <1>3 DEF Ready

\* Among the logs that hold the newest record of a key one comes last.
LEMMA LastOne ==
    ASSUME NEW S, S \subseteq Logs, S # {}
    PROVE  \E l \in S : \A m \in S : m # l => Rank[l] > Rank[m]
  <1>1. IsFiniteSet(S)
    BY LogsAssumption, FS_Subset
  <1>. DEFINE Covers(t) == \A x \in S \ t : \E y \in t : Rank[y] > Rank[x]
              C == {t \in SUBSET S : t # {} /\ Covers(t)}
  <1>2. C \in SUBSET SUBSET S /\ C # {}
    <2>1. S \in C
      OBVIOUS
    <2>. QED
      BY <2>1
  <1>3. PICK t \in C : \A x \in t : t \ {x} \notin C
    <2>. HIDE DEF C
    <2>. QED
      BY <1>1, <1>2, SmallestSubset
  <1>4. t \subseteq S /\ t # {} /\ Covers(t)
    OBVIOUS
  <1>5. \A x \in S : Rank[x] \in Nat
    BY LogsAssumption
  <1>6. ASSUME NEW x \in t, NEW y \in t, Rank[x] > Rank[y] PROVE FALSE
    <2>1. x # y /\ x \in t \ {y}
      BY <1>4, <1>5, <1>6
    <2>2. ASSUME NEW z \in S \ (t \ {y})
          PROVE  \E v \in t \ {y} : Rank[v] > Rank[z]
      <3>1. CASE z = y
        BY <1>6, <2>1, <3>1
      <3>2. CASE z \notin t
        <4>1. PICK v \in t : Rank[v] > Rank[z]
          BY <1>4, <3>2
        <4>2. CASE v = y
          <5>1. Rank[x] > Rank[z]
            BY <1>4, <1>5, <1>6, <4>1, <4>2
          <5>. QED
            BY <2>1, <5>1
        <4>. QED
          BY <4>1, <4>2
      <3>. QED
        BY <3>1, <3>2
    <2>3. t \ {y} \in C
      BY <1>4, <2>1, <2>2
    <2>. QED
      BY <1>3, <2>3
  <1>7. PICK l \in t : TRUE
    BY <1>4
  <1>8. \A m \in t : m = l
    <2>. SUFFICES ASSUME NEW m \in t PROVE m = l
      OBVIOUS
    <2>1. Rank[m] \in Nat /\ Rank[l] \in Nat /\ ~(Rank[m] > Rank[l])
          /\ ~(Rank[l] > Rank[m])
      BY <1>4, <1>5, <1>6
    <2>2. Rank[m] = Rank[l]
      BY <2>1
    <2>. QED
      BY <1>4, <2>2, LogsAssumption
  <1>9. ASSUME NEW m \in S, m # l PROVE Rank[l] > Rank[m]
    BY <1>4, <1>8, <1>9
  <1>. QED
    BY <1>4, <1>9

\* While it reads, what the pass has found is there.
LEMMA FoundThere ==
    ASSUME Control, Stamps, NEW j \in Janitors, Grounded(j), ReadAll(j),
           pass[j].at = "read", NEW a \in pass[j].found
    PROVE  /\ a.rec \in Records /\ a.src \in Logs /\ a.rec \in log[a.src]
           /\ a.rec \in Everywhere /\ a.rec.key \in Keys
           /\ a.rec.time \in Nat /\ a.rec.time <= newest[a.rec.key]
           /\ a = Tag(a.rec, a.src)
  <1>1. a.rec \in Records /\ a.src \in Logs /\ a = Tag(a.rec, a.src)
    BY FoundFacts DEF Tag
  <1>2. a.rec \in log[a.src]
    BY DEF Grounded, Written
  <1>. QED
    BY <1>1, <1>2, EverywhereTyped, RecordFacts DEF Stamps

LEMMA LegacyOurs ==
    ASSUME Control, Stamps, NEW j \in Janitors, Grounded(j), ReadAll(j),
           pass[j].at = "read", NEW a \in Legacy(j)
    PROVE  a.src = j /\ a.rec \in log[j] /\ Namespaced(a.rec)
               /\ a.rec \in Records /\ a.rec.ref \in Files
  <1>1. a \in Ours(j) /\ a \in pass[j].found /\ a \in Live(j)
        /\ Namespaced(a.rec)
    BY OursFacts DEF Legacy, Namespaced
  <1>2. a.src \in Logs /\ a.rec \in log[a.src]
    BY <1>1, FoundThere
  <1>3. a.src \notin Prune /\ a.src \notin Copies /\ a.rec \in Records
        /\ a.rec.ref \in Files
    BY <1>1, <1>2, HomeFacts
  <1>4. a.src = j
    BY <1>1, <1>3, OursFacts DEF PruneLogs
  <1>. QED
    BY <1>1, <1>2, <1>3, <1>4

LEMMA NewestWins ==
    ASSUME Control, Stamps, NEW j \in Janitors, Grounded(j), ReadAll(j),
           pass[j].at = "read", NEW a \in pass[j].found,
           ~a.rec.dead, a.rec.time = newest[a.rec.key]
    PROVE  \E b \in Live(j) : b.rec = a.rec
  <1>. DEFINE T == {l \in Logs : Tag(a.rec, l) \in pass[j].found}
  <1>1. /\ a.rec \in Records /\ a.src \in T /\ a.rec \in Everywhere
        /\ a.rec.key \in Keys /\ a.rec.time \in Nat
    BY FoundThere
  <1>2. PICK l \in T : \A m \in T : m # l => Rank[l] > Rank[m]
    <2>1. T \subseteq Logs /\ T # {}
      BY <1>1
    <2>. HIDE DEF T
    <2>. QED
      BY <2>1, LastOne
  <1>. DEFINE b == Tag(a.rec, l)
  <1>3. b \in pass[j].found /\ b.rec = a.rec /\ b.src = l
    BY <1>2 DEF Tag
  <1>4. ASSUME NEW c \in pass[j].found, c.rec.key = a.rec.key, c # b
        PROVE  Beats(b, c)
    <2>1. /\ c.src \in Logs /\ c.rec \in Everywhere /\ c.rec.time \in Nat
          /\ c.rec.time <= newest[a.rec.key] /\ c = Tag(c.rec, c.src)
      BY <1>4, FoundThere
    <2>2. CASE c.rec.time = a.rec.time
      <3>1. c.rec = a.rec
        BY <1>1, <1>4, <2>1, <2>2 DEF Stamps
      <3>2. c.src \in T /\ c.src # l
        BY <1>4, <2>1, <3>1
      <3>. QED
        BY <1>2, <1>3, <2>2, <3>2 DEF Beats
    <2>3. CASE c.rec.time # a.rec.time
      BY <1>1, <1>3, <2>1, <2>3 DEF Beats
    <2>. QED
      BY <2>2, <2>3
  <1>. HIDE DEF b
  <1>5. b \in Latest(pass[j].found)
    BY <1>3, <1>4 DEF Latest
  <1>. QED
    BY <1>3, <1>5 DEF Live

\* One record wins for each key.
LEMMA OneWinner ==
    ASSUME Control, NEW j \in Janitors, NEW a \in Live(j), NEW b \in Live(j),
           a.rec.key = b.rec.key
    PROVE  a = b
  <1>. SUFFICES ASSUME a # b PROVE FALSE
    OBVIOUS
  <1>1. Beats(a, b) /\ Beats(b, a)
    BY LatestFacts DEF Live
  <1>2. /\ a.rec.time \in Nat /\ b.rec.time \in Nat
        /\ Rank[a.src] \in Nat /\ Rank[b.src] \in Nat
    BY OursFacts, RecordFacts, LogsAssumption
  <1>. QED
    BY <1>1, <1>2 DEF Beats

\* A record of the outcome stands for one of ours.
LEMMA OutcomeFrom ==
    ASSUME Control, Stamps, NEW j \in Janitors, Grounded(j), ReadAll(j),
           pass[j].at = "read", NEW broken \in SUBSET Ours(j),
           NEW r \in Outcome(j, broken)
    PROVE  \E a \in Ours(j) :
               /\ a.rec.key = r.key /\ a.rec.time = r.time
               /\ \/ /\ r = a.rec /\ ~Namespaced(r) /\ a \notin Legacy(j)
                  \/ /\ a \in Adopted(j, broken) /\ r = Repointed(a.rec)
                     /\ r.ref \in PoolFiles
                  \/ a \in Deferred(j, broken) /\ r = a.rec /\ Namespaced(r)
  <1>1. CASE \E a \in Ours(j) \ (Legacy(j) \cup Absent(j, broken)) : r = a.rec
    BY <1>1 DEF Legacy, Namespaced
  <1>2. CASE \E a \in Adopted(j, broken) : r = Repointed(a.rec)
    <2>1. PICK a \in Adopted(j, broken) : r = Repointed(a.rec)
      BY <1>2
    <2>2. a \in Legacy(j) /\ a \in Ours(j)
      BY <2>1, OursFacts DEF Adopted
    <2>3. a.rec \in Records /\ a.rec.ref \in Files
      BY <2>2, LegacyOurs
    <2>. QED
      BY <2>1, <2>2, <2>3, RepointedFacts
  <1>3. CASE \E a \in Deferred(j, broken) : a.src = j /\ r = a.rec
    BY <1>3, OursFacts DEF Deferred, Legacy, Namespaced
  <1>. QED
    BY <1>1, <1>2, <1>3 DEF Outcome

LEMMA ResolveKeeps ==
    ASSUME Control, Stamps, NEW j \in Janitors, Grounded(j), ReadAll(j),
           NEW broken \in SUBSET Ours(j), NEW linked \in BOOLEAN,
           Resolve(j, broken, linked)
    PROVE  KeepsAll(j)'
  <1>. DEFINE p == pass[j]
              out == Outcome(j, broken)
  <1>1. /\ p.at = "read" /\ pass'[j].at = "write" /\ pass'[j].snap = p.snap
        /\ j \notin p.unread
        /\ pass'[j].unread = p.unread /\ pass'[j].found = p.found
        /\ pass'[j].out = out /\ pass'[j].dropped = Absent(j, broken)
        /\ \A f \in Files : file'[f] \in {file[f], "young"}
        /\ \A a \in Adopted(j, broken) :
              Repointed(a.rec).ref \in Files
                  /\ file'[Repointed(a.rec).ref] # "absent"
    BY ResolveFacts
  <1>2. log' = log /\ newest' = newest
    BY DEF Resolve
  <1>3. Live(j)' = Live(j) /\ Ours(j)' = Ours(j)
    BY <1>1, SameSets
  <1>4. j \in Logs
    BY LogsAssumption DEF Logs
  <1>5. ASSUME NEW a \in p.found, ~a.rec.dead, a.rec.time = newest[a.rec.key]
        PROVE  Saved(j, a.rec)'
    <2>1. PICK b \in Live(j) : b.rec = a.rec
      BY <1>1, <1>5, NewestWins
    <2>2. CASE b \notin Ours(j)
      BY <1>3, <2>1, <2>2 DEF Saved
    <2>3. CASE b \in Absent(j, broken)
      BY <1>1, <2>1, <2>3 DEF Saved
    <2>4. CASE b \in Adopted(j, broken)
      <3>1. Namespaced(b.rec) /\ Repointed(b.rec) \in out
        BY <1>1, <2>4, LegacyOurs DEF Adopted, Outcome
      <3>. QED
        BY <1>1, <2>1, <3>1 DEF Saved
    <2>5. CASE b \in Deferred(j, broken)
      <3>1. b.src = j
        BY <1>1, <2>5, LegacyOurs DEF Deferred
      <3>2. b.rec \in out
        BY <2>5, <3>1 DEF Outcome
      <3>. QED
        BY <1>1, <2>1, <3>2 DEF Saved
    <2>6. CASE b \in Ours(j) \ (Legacy(j) \cup Absent(j, broken))
      <3>1. b.rec \in out
        BY <2>6 DEF Outcome
      <3>. QED
        BY <1>1, <2>1, <3>1 DEF Saved
    <2>. QED
      BY <2>2, <2>3, <2>4, <2>5, <2>6 DEF Adopted, Deferred
  <1>6. ASSUME NEW a \in Absent(j, broken)
        PROVE  a.rec.ref # Inline /\ file'[a.rec.ref] # "old"
    <2>1. a \in Live(j) /\ ~Present(a.rec.ref)
      BY OursFacts DEF Absent
    <2>2. a.rec \in Records /\ a.rec.ref # Inline /\ file[a.rec.ref] = "absent"
      BY <2>1, OursFacts DEF Present
    <2>3. a.rec.ref \in Files
      BY <2>2, RecordFacts
    <2>. QED
      BY <1>1, <2>2, <2>3
  <1>7. ASSUME NEW r \in out
        PROVE  /\ Home(j, r)
               /\ \/ \E l \in Logs : r \in log[l]
                  \/ \E s \in log[j] : Namespaced(s) /\ r = Repointed(s)
    <2>1. PICK a \in Ours(j) :
               \/ /\ r = a.rec /\ ~Namespaced(r)
               \/ /\ a \in Adopted(j, broken) /\ r = Repointed(a.rec)
                  /\ r.ref \in PoolFiles
               \/ a \in Deferred(j, broken) /\ r = a.rec /\ Namespaced(r)
      BY <1>1, OutcomeFrom
    <2>2. CASE r = a.rec /\ ~Namespaced(r)
      <3>1. a.src \in Logs /\ a.rec \in log[a.src]
        BY <1>1, OursFacts, FoundThere
      <3>. QED
        BY <2>2, <3>1 DEF Home, Namespaced
    <2>3. CASE a \in Adopted(j, broken) /\ r = Repointed(a.rec)
                   /\ r.ref \in PoolFiles
      <3>1. a.rec \in log[j] /\ Namespaced(a.rec)
        BY <1>1, <2>3, LegacyOurs DEF Adopted
      <3>. QED
        BY <2>3, <3>1 DEF Home
    <2>4. CASE a \in Deferred(j, broken) /\ r = a.rec /\ Namespaced(r)
      <3>1. a.rec \in log[j]
        BY <1>1, <2>4, LegacyOurs DEF Deferred
      <3>. QED
        BY <1>4, <2>4, <3>1 DEF Stamps
    <2>. QED
      BY <2>1, <2>2, <2>3, <2>4
  <1>8. ASSUME NEW r \in out, NEW s \in out, s.key = r.key PROVE s = r
    <2>1. PICK a \in Ours(j) :
               /\ a.rec.key = r.key
               /\ \/ r = a.rec /\ a \notin Legacy(j)
                  \/ a \in Adopted(j, broken) /\ r = Repointed(a.rec)
                  \/ a \in Deferred(j, broken) /\ r = a.rec
      BY <1>1, OutcomeFrom
    <2>2. PICK b \in Ours(j) :
               /\ b.rec.key = s.key
               /\ \/ s = b.rec /\ b \notin Legacy(j)
                  \/ b \in Adopted(j, broken) /\ s = Repointed(b.rec)
                  \/ b \in Deferred(j, broken) /\ s = b.rec
      BY <1>1, OutcomeFrom
    <2>3. a = b
      BY <1>8, <2>1, <2>2, OneWinner, OursFacts
    <2>. QED
      BY <2>1, <2>2, <2>3 DEF Adopted, Deferred
  <1>9. ASSUME NEW r \in log[j], Namespaced(r), Repointed(r) \in out
        PROVE  Present(Repointed(r).ref)'
    <2>1. r \in Records /\ r.ref \in Files /\ r \in Everywhere
      BY <1>4, <1>9, HomeFacts, EverywhereTyped
    <2>2. /\ Repointed(r).key = r.key /\ Repointed(r).time = r.time
          /\ Repointed(r).ref \in PoolFiles
      BY <2>1, RepointedFacts
    <2>3. PICK a \in Ours(j) :
               /\ a.rec.key = Repointed(r).key /\ a.rec.time = Repointed(r).time
               /\ \/ Repointed(r) = a.rec /\ ~Namespaced(Repointed(r))
                  \/ a \in Adopted(j, broken) /\ Repointed(r) = Repointed(a.rec)
                  \/ Namespaced(Repointed(r))
      BY <1>1, <1>9, OutcomeFrom
    <2>4. CASE Repointed(r) = a.rec
      <3>1. a.rec \in Everywhere
        BY <1>1, OursFacts, FoundThere
      <3>2. a.rec = r
        BY <2>1, <2>2, <2>3, <3>1 DEF Stamps
      <3>. QED
        BY <1>9, <2>2, <2>4, <3>2 DEF Namespaced
    <2>5. CASE a \in Adopted(j, broken) /\ Repointed(r) = Repointed(a.rec)
      BY <1>1, <2>5 DEF Present
    <2>6. ~Namespaced(Repointed(r))
      BY <2>2 DEF Namespaced
    <2>. QED
      BY <2>3, <2>4, <2>5, <2>6
  <1>. HIDE DEF out
  <1>10. Ready(j)'
    BY <1>1, <1>2, <1>7, <1>8, <1>9 DEF Ready
  <1>. QED
    BY <1>1, <1>2, <1>5, <1>6, <1>10 DEF KeepsAll

-----------------------------------------------------------------------------
\* Every step keeps the invariant.
LEMMA IdleKeeps ==
    ASSUME NEW j \in Janitors, pass'[j] = Idle
    PROVE  ReadAll(j)' /\ KeepsAll(j)'
  <1>1. pass'[j].at = "idle"
    BY IdleTyped
  <1>. QED
    BY <1>1 DEF ReadAll, KeepsAll, Folded

LEMMA SameNewest ==
    ASSUME Control, newest' = newest
    PROVE  /\ newest' \in [Keys -> 0 .. Start + MaxPuts]
           /\ \A k \in Keys : newest[k] <= newest'[k]
  BY NumbersAssumption DEF Control, Typed

\* What the others do, all at once.
LEMMA OthersKeep ==
    ASSUME Control, Stamps, NEW j \in Janitors, ReadAll(j), KeepsAll(j),
           pass'[j] = pass[j],
           \A l \in Logs : /\ log'[l] \subseteq log[l] \cup due.logs[l] \cup InFlight
                           /\ log[l] \subseteq log'[l],
           pass[j].at # "idle" => log'[j] = log[j],
           pass[j].at # "idle" =>
               \A f \in Files : file'[f] = "old" => file[f] = "old",
           \A f \in Files : file'[f] = "absent" => file[f] = "absent",
           newest' \in [Keys -> 0 .. Start + MaxPuts],
           \A k \in Keys : newest[k] <= newest'[k]
    PROVE  ReadAll(j)' /\ KeepsAll(j)'
  <1>1. ReadAll(j)'
    BY OthersRead
  <1>2. ASSUME pass'[j].at = "write" PROVE Ready(j)'
    <2>1. pass[j].at = "write" /\ Ready(j)
      BY <1>2 DEF KeepsAll, Folded
    <2>. QED
      BY <2>1, ReadyStays
  <1>3. pass'[j].at \in Folded => pass[j].at # "idle"
    BY DEF Folded
  <1>4. KeepsAll(j)'
    BY <1>2, <1>3, KeepsStays
  <1>. QED
    BY <1>1, <1>4

LEMMA OthersNever ==
    ASSUME Control, Control', Stamps, NEW j \in Janitors, Grounded(j),
           ReadAll(j), KeepsAll(j),
           \/ \E w \in Writers : \E k \in Keys, ref \in PoolFiles \cup {Inline},
                 dead \in BOOLEAN :
                 Put(w, [key |-> k, time |-> Start + count.puts + 1,
                         dead |-> dead, ref |-> ref])
           \/ \E w \in Writers : Land(w) \/ Crash(w)
           \/ \E l \in Logs : ArriveLog(l)
           \/ \E f \in Files : ArriveFile(f) \/ Age(f)
    PROVE  ReadAll(j)' /\ KeepsAll(j)'
  <1>0. /\ due.logs[j] = {} /\ file \in [Files -> Ages]
        /\ log \in [Logs -> SUBSET Records] /\ j \in Writers /\ j \in Logs
        /\ newest' \in [Keys -> 0 .. Start + MaxPuts]
    BY LogsAssumption DEF Grounded, Control, Typed, Logs
  <1>1. CASE \E w \in Writers : \E k \in Keys, ref \in PoolFiles \cup {Inline},
                 dead \in BOOLEAN :
                 Put(w, [key |-> k, time |-> Start + count.puts + 1,
                         dead |-> dead, ref |-> ref])
    <2>1. /\ log' = log /\ pass' = pass /\ newest' = newest
          /\ \A f \in Files : /\ file'[f] = "old" => file[f] = "old"
                              /\ file'[f] = "absent" => file[f] = "absent"
      BY <1>0, <1>1 DEF Put
    <2>. QED
      BY <2>1, SameNewest, OthersKeep
  <1>2. ASSUME NEW w \in Writers, Land(w) PROVE ReadAll(j)' /\ KeepsAll(j)'
    <2>1. flight[w] \in InFlight
      BY <1>2, EverywhereTyped DEF Land
    <2>2. /\ \A l \in Logs : /\ log[l] \subseteq log'[l]
                             /\ log'[l] \subseteq log[l] \cup InFlight
          /\ pass' = pass /\ file' = file /\ newest' = Seen(log')
      BY <1>0, <1>2, <2>1 DEF Land
    <2>3. pass[j].at # "idle" => log'[j] = log[j]
      BY <1>0, <1>2 DEF Land
    <2>4. \A k \in Keys : newest[k] <= newest'[k]
      BY <2>2, SeenCovers
    <2>. QED
      BY <1>0, <2>2, <2>3, <2>4, OthersKeep
  <1>3. ASSUME NEW w \in Writers, Crash(w) PROVE ReadAll(j)' /\ KeepsAll(j)'
    <2>1. log' = log /\ file' = file /\ newest' = newest
          /\ pass'[j] = (IF j = w THEN Idle ELSE pass[j])
      BY <1>3 DEF Crash, disk
    <2>2. CASE j = w
      BY <2>1, <2>2, IdleKeeps
    <2>3. CASE j # w
      BY <2>1, <2>3, SameNewest, OthersKeep
    <2>. QED
      BY <2>2, <2>3
  <1>4. ASSUME NEW m \in Logs, ArriveLog(m) PROVE ReadAll(j)' /\ KeepsAll(j)'
    <2>1. /\ \A l \in Logs : /\ log[l] \subseteq log'[l]
                             /\ log'[l] \subseteq log[l] \cup due.logs[l]
          /\ log'[j] = log[j]
      BY <1>0, <1>4, ArriveLogFacts
    <2>2. pass' = pass /\ file' = file /\ newest' = Seen(log')
      BY <1>4 DEF ArriveLog
    <2>3. \A k \in Keys : newest[k] <= newest'[k]
      BY <2>2, SeenCovers
    <2>. QED
      BY <1>0, <2>1, <2>2, <2>3, OthersKeep
  <1>5. ASSUME NEW f \in Files, ArriveFile(f) PROVE ReadAll(j)' /\ KeepsAll(j)'
    <2>1. /\ log' = log /\ pass' = pass /\ newest' = newest
          /\ \A g \in Files : /\ file'[g] = "old" => file[g] = "old"
                              /\ file'[g] = "absent" => file[g] = "absent"
      BY <1>0, <1>5 DEF ArriveFile
    <2>. QED
      BY <2>1, SameNewest, OthersKeep
  <1>6. ASSUME NEW f \in Files, Age(f) PROVE ReadAll(j)' /\ KeepsAll(j)'
    <2>1. /\ log' = log /\ pass' = pass /\ newest' = newest
          /\ pass[j].at = "idle"
          /\ \A g \in Files : file'[g] = "absent" => file[g] = "absent"
      BY <1>0, <1>6 DEF Age
    <2>. QED
      BY <2>1, SameNewest, OthersKeep
  <1>. QED
    BY <1>1, <1>2, <1>3, <1>4, <1>5, <1>6

LEMMA OthersStamps ==
    ASSUME Control, Control', Stamps,
           \/ \E w \in Writers : \E k \in Keys, ref \in PoolFiles \cup {Inline},
                 dead \in BOOLEAN :
                 Put(w, [key |-> k, time |-> Start + count.puts + 1,
                         dead |-> dead, ref |-> ref])
           \/ \E w \in Writers : Land(w) \/ Crash(w)
           \/ \E l \in Logs : ArriveLog(l)
           \/ \E f \in Files : ArriveFile(f) \/ Age(f)
    PROVE  Stamps'
  BY PutStamps, LandStamps, CrashStamps, ArriveStamps, FileStamps

\* A step of the pass after it has written, which takes logs and files away.
LEMMA WrittenKeep ==
    ASSUME Control, Stamps, NEW j \in Janitors, ReadAll(j), KeepsAll(j),
           pass[j].at \in Folded, pass'[j].at \in Written,
           due' = due, flight' = flight, newest' = newest,
           count'.puts = count.puts,
           pass'[j].snap = pass[j].snap, pass'[j].found = pass[j].found,
           pass'[j].unread = pass[j].unread, pass'[j].out = pass[j].out,
           pass'[j].dropped = pass[j].dropped,
           \A l \in Logs : log'[l] \subseteq log[l],
           \A f \in Files : file'[f] = "old" => file[f] = "old"
    PROVE  Stamps' /\ ReadAll(j)' /\ KeepsAll(j)'
  <1>1. /\ pass[j].at \notin {"idle", "read"} /\ pass[j].at # "own"
        /\ pass'[j].at # "write"
    BY DEF Folded, Written
  <1>2. Stamps'
    BY PassStamps
  <1>3. ReadAll(j)'
    BY <1>1, WrittenRead
  <1>4. KeepsAll(j)'
    BY <1>1, SameNewest, KeepsStays
  <1>. QED
    BY <1>2, <1>3, <1>4

LEMMA PassNever ==
    ASSUME Control, Control', Stamps, NEW j \in Janitors, Grounded(j),
           ReadAll(j), KeepsAll(j), Pass(j)
    PROVE  Stamps' /\ ReadAll(j)' /\ KeepsAll(j)'
  <1>0. file \in [Files -> Ages] /\ log \in [Logs -> SUBSET Records]
    BY DEF Control, Typed
  <1>1. ASSUME NEW blind \in SUBSET Logs, Snapshot(j, blind)
        PROVE  Stamps' /\ ReadAll(j)' /\ KeepsAll(j)'
    <2>1. /\ log' = log /\ file' = file /\ due' = due /\ flight' = flight
          /\ newest' = newest /\ count'.puts = count.puts /\ pass'[j].at = "read"
      BY <1>1, SnapshotFacts DEF Snapshot, disk
    <2>2. Stamps'
      BY <2>1, PassStamps
    <2>. QED
      BY <1>1, <2>1, <2>2, SnapshotReads DEF KeepsAll, Folded
  <1>2. CASE ReadLog(j)
    <2>1. /\ log' = log /\ file' = file /\ due' = due /\ flight' = flight
          /\ newest' = newest /\ count'.puts = count.puts /\ pass'[j].at = "read"
      BY <1>2, ReadLogFacts DEF ReadLog, disk
    <2>2. Stamps'
      BY <2>1, PassStamps
    <2>. QED
      BY <1>2, <2>1, <2>2, ReadLogReads DEF KeepsAll, Folded
  <1>3. CASE Abort(j) \/ RemoveOwn(j)
    <2>1. /\ log' = log /\ due' = due /\ flight' = flight
          /\ newest' = newest /\ count' = count /\ pass'[j] = Idle
      BY <1>3, AbortFacts DEF Abort, RemoveOwn, disk
    <2>2. \A f \in Files : file'[f] = "old" => file[f] = "old"
      BY <1>3, AbortFacts
    <2>3. Stamps'
      BY <2>1, <2>2, PassStamps
    <2>. QED
      BY <2>1, <2>3, IdleKeeps
  <1>4. ASSUME NEW broken \in SUBSET Ours(j), NEW linked \in BOOLEAN,
               Resolve(j, broken, linked)
        PROVE  Stamps' /\ ReadAll(j)' /\ KeepsAll(j)'
    <2>1. /\ log' = log /\ due' = due /\ flight' = flight /\ newest' = newest
      BY <1>4 DEF Resolve
    <2>2. /\ count'.puts = count.puts
          /\ \A f \in Files : file'[f] \in {file[f], "young"}
      BY <1>4, ResolveFacts
    <2>3. \A f \in Files : file'[f] = "old" => file[f] = "old"
      BY <2>2
    <2>4. Stamps'
      BY <2>1, <2>2, <2>3, PassStamps
    <2>. QED
      BY <1>4, <2>4, ResolveReads, ResolveKeeps
  <1>5. CASE Write(j)
    <2>1. /\ pass[j].at = "write" /\ pass'[j].at = "prune"
          /\ pass'[j].snap = pass[j].snap /\ pass'[j].found = pass[j].found
          /\ pass'[j].unread = pass[j].unread /\ pass'[j].out = pass[j].out
          /\ pass'[j].dropped = pass[j].dropped
          /\ \A l \in Logs \ {j} : log'[l] = log[l]
      BY <1>5, WriteFacts
    <2>2. file' = file /\ newest' = newest
      BY <1>5 DEF Write
    <2>3. Ready(j)
      BY <2>1 DEF KeepsAll, Folded
    <2>4. Stamps'
      BY <1>5, <2>3, WriteStamps
    <2>5. ReadAll(j)'
      BY <2>1, <2>2, WrittenRead DEF Written
    <2>6. KeepsAll(j)'
      BY <2>1, <2>2, SameNewest, KeepsStays DEF Folded
    <2>. QED
      BY <2>4, <2>5, <2>6
  <1>6. ASSUME NEW l \in Logs, Restat(j, l)
        PROVE  Stamps' /\ ReadAll(j)' /\ KeepsAll(j)'
    <2>1. /\ pass[j].at \in Folded /\ pass'[j].at \in Written
          /\ pass'[j].snap = pass[j].snap /\ pass'[j].found = pass[j].found
          /\ pass'[j].unread = pass[j].unread /\ pass'[j].out = pass[j].out
          /\ pass'[j].dropped = pass[j].dropped /\ count'.puts = count.puts
      BY <1>6, RestatFacts DEF Folded, Written
    <2>2. log' = log /\ file' = file /\ due' = due /\ flight' = flight
          /\ newest' = newest
      BY <1>6 DEF Restat, disk
    <2>. QED
      BY <2>1, <2>2, WrittenKeep
  <1>7. CASE Unlink(j)
    <2>1. /\ pass[j].at \in Folded /\ pass'[j].at \in Written
          /\ pass'[j].snap = pass[j].snap /\ pass'[j].found = pass[j].found
          /\ pass'[j].unread = pass[j].unread /\ pass'[j].out = pass[j].out
          /\ pass'[j].dropped = pass[j].dropped
          /\ \A l \in Logs : log'[l] \subseteq log[l]
          /\ \A f \in Files : file'[f] = "old" => file[f] = "old"
      BY <1>7, UnlinkFacts DEF Folded, Written
    <2>2. due' = due /\ flight' = flight /\ newest' = newest /\ count' = count
      BY <1>7 DEF Unlink
    <2>. QED
      BY <2>1, <2>2, WrittenKeep
  <1>8. CASE StartSweep(j)
    <2>1. /\ pass[j].at \in Folded /\ pass'[j].at \in Written
          /\ pass'[j].snap = pass[j].snap /\ pass'[j].found = pass[j].found
          /\ pass'[j].unread = pass[j].unread /\ pass'[j].out = pass[j].out
          /\ pass'[j].dropped = pass[j].dropped
      BY <1>8, StartSweepFacts DEF Folded, Written
    <2>2. log' = log /\ file' = file /\ due' = due /\ flight' = flight
          /\ newest' = newest /\ count' = count
      BY <1>8 DEF StartSweep, disk
    <2>. QED
      BY <2>1, <2>2, WrittenKeep
  <1>9. ASSUME NEW f \in PoolFiles, Probe(j, f)
        PROVE  Stamps' /\ ReadAll(j)' /\ KeepsAll(j)'
    <2>1. /\ pass[j].at \in Folded /\ pass'[j].at \in Written
          /\ pass'[j].snap = pass[j].snap /\ pass'[j].found = pass[j].found
          /\ pass'[j].unread = pass[j].unread /\ pass'[j].out = pass[j].out
          /\ pass'[j].dropped = pass[j].dropped
      BY <1>9, ProbeFacts DEF Folded, Written
    <2>2. log' = log /\ file' = file /\ due' = due /\ flight' = flight
          /\ newest' = newest /\ count' = count
      BY <1>9 DEF Probe, disk
    <2>. QED
      BY <2>1, <2>2, WrittenKeep
  <1>10. CASE Delete(j) \/ SweepLegacy(j)
    <2>1. /\ pass[j].at \in Folded /\ pass'[j].at \in Written
          /\ pass'[j].snap = pass[j].snap /\ pass'[j].found = pass[j].found
          /\ pass'[j].unread = pass[j].unread /\ pass'[j].out = pass[j].out
          /\ pass'[j].dropped = pass[j].dropped
      BY <1>10, SweepFacts DEF Folded, Written
    <2>2. \A f \in Files : file'[f] = "old" => file[f] = "old"
      <3>1. CASE Delete(j)
        BY <1>0, <3>1 DEF Delete
      <3>2. CASE SweepLegacy(j)
        BY <1>0, <3>2 DEF SweepLegacy
      <3>. QED
        BY <1>10, <3>1, <3>2
    <2>3. log' = log /\ due' = due /\ flight' = flight
          /\ newest' = newest /\ count' = count
      BY <1>10 DEF Delete, SweepLegacy
    <2>. QED
      BY <2>1, <2>2, <2>3, WrittenKeep
  <1>. QED
    BY <1>1, <1>2, <1>3, <1>4, <1>5, <1>6, <1>7, <1>8, <1>9, <1>10 DEF Pass

LEMMA InitNever ==
    ASSUME AtHome, Init
    PROVE  NeverLostInv
  <1>1. SweptInv /\ Stamps
    BY InitSwept, InitStamps
  <1>2. \A j \in Janitors : pass[j].at = "idle"
    BY IdleTyped DEF Init
  <1>. QED
    BY <1>1, <1>2 DEF NeverLostInv, ReadAll, KeepsAll, Folded

LEMMA NextNever ==
    ASSUME OneJanitor, NeverLostInv, [Next]_vars
    PROVE  NeverLostInv'
  <1>1. SweptInv /\ SweptInv' /\ Control /\ Control' /\ Stamps
    BY NextSwept DEF NeverLostInv, SweptInv
  <1>2. CASE UNCHANGED vars
    <2>1. /\ log' = log /\ file' = file /\ due' = due /\ flight' = flight
          /\ newest' = newest /\ count' = count /\ pass' = pass
      BY <1>2 DEF vars
    <2>2. Stamps'
      BY <1>1, <2>1, PassStamps
    <2>3. ASSUME NEW j \in Janitors PROVE ReadAll(j)' /\ KeepsAll(j)'
      BY <1>1, <2>1, SameNewest, OthersKeep DEF NeverLostInv
    <2>. QED
      BY <1>1, <2>2, <2>3 DEF NeverLostInv
  <1>3. CASE \E i \in Janitors : Pass(i)
    <2>1. PICK i \in Janitors : Pass(i)
      BY <1>3
    <2>2. Grounded(i) /\ ReadAll(i) /\ KeepsAll(i)
      BY DEF NeverLostInv, SweptInv
    <2>3. Stamps' /\ ReadAll(i)' /\ KeepsAll(i)'
      BY <1>1, <2>1, <2>2, PassNever
    <2>4. \A j \in Janitors : j = i
      BY DEF OneJanitor
    <2>. QED
      BY <1>1, <2>3, <2>4 DEF NeverLostInv
  <1>4. CASE Next /\ ~\E i \in Janitors : Pass(i)
    <2>1. \/ \E w \in Writers : \E k \in Keys, ref \in PoolFiles \cup {Inline},
                 dead \in BOOLEAN :
                 Put(w, [key |-> k, time |-> Start + count.puts + 1,
                         dead |-> dead, ref |-> ref])
          \/ \E w \in Writers : Land(w) \/ Crash(w)
          \/ \E l \in Logs : ArriveLog(l)
          \/ \E f \in Files : ArriveFile(f) \/ Age(f)
      BY <1>4 DEF Next
    <2>2. Stamps'
      BY <1>1, <2>1, OthersStamps
    <2>3. ASSUME NEW j \in Janitors PROVE ReadAll(j)' /\ KeepsAll(j)'
      <3>1. Grounded(j) /\ ReadAll(j) /\ KeepsAll(j)
        BY DEF NeverLostInv, SweptInv
      <3>. QED
        BY <1>1, <2>1, <3>1, OthersNever
    <2>. QED
      BY <1>1, <2>2, <2>3 DEF NeverLostInv
  <1>. QED
    BY <1>2, <1>3, <1>4

-----------------------------------------------------------------------------
\* What a reader finds is on disk, in the last log that holds it.
Holds(k) ==
    \E l \in Logs : \E r \in log[l] :
        r.key = k /\ r.time = newest[k] /\ ~r.dead /\ Present(r.ref)

LEMMA ServedIf ==
    NeverLostInv => \A k \in Keys : Served(k) <=> Holds(k)
  <1>. SUFFICES ASSUME NeverLostInv, NEW k \in Keys PROVE Served(k) <=> Holds(k)
    OBVIOUS
  <1>0. Control /\ Stamps
    BY DEF NeverLostInv, SweptInv
  <1>1. ASSUME NEW b \in OnDisk
        PROVE  /\ b.src \in Logs /\ b.rec \in log[b.src] /\ b.rec \in Everywhere
               /\ b = Tag(b.rec, b.src) /\ b.rec.time \in Nat
               /\ b.rec.time <= newest[b.rec.key]
    <2>1. PICK l \in Logs : b \in [rec : log[l], src : {l}]
      BY DEF OnDisk
    <2>2. b.src = l /\ b.rec \in log[l] /\ b = Tag(b.rec, b.src)
      BY <2>1 DEF Tag
    <2>. QED
      BY <1>0, <2>2, EverywhereTyped, RecordFacts DEF Stamps
  <1>2. ASSUME Served(k) PROVE Holds(k)
    <2>1. PICK a \in Latest(OnDisk) : /\ a.rec.key = k /\ a.rec.time = newest[k]
                                      /\ ~a.rec.dead /\ Present(a.rec.ref)
      BY <1>2 DEF Served
    <2>. QED
      BY <1>1, <2>1, LatestFacts DEF Holds
  <1>3. ASSUME Holds(k) PROVE Served(k)
    <2>1. PICK n \in Logs : \E r \in log[n] :
              r.key = k /\ r.time = newest[k] /\ ~r.dead /\ Present(r.ref)
      BY <1>3 DEF Holds
    <2>a. PICK r \in log[n] :
              r.key = k /\ r.time = newest[k] /\ ~r.dead /\ Present(r.ref)
      BY <2>1
    <2>2. r \in Everywhere /\ r \in Records /\ r.time \in Nat
      BY <1>0, <2>a, EverywhereTyped, RecordFacts
    <2>. DEFINE T == {m \in Logs : r \in log[m]}
    <2>3. PICK l \in T : \A m \in T : m # l => Rank[l] > Rank[m]
      <3>1. T \subseteq Logs /\ T # {}
        BY <2>a
      <3>. HIDE DEF T
      <3>. QED
        BY <3>1, LastOne
    <2>. DEFINE a == Tag(r, l)
    <2>4. a \in OnDisk /\ a.rec = r /\ a.src = l
      BY <2>3 DEF OnDisk, Tag
    <2>5. ASSUME NEW b \in OnDisk, b.rec.key = k, b # a PROVE Beats(a, b)
      <3>1. CASE b.rec.time = r.time
        <4>1. b.rec = r
          BY <1>0, <1>1, <2>a, <2>2, <2>5, <3>1 DEF Stamps
        <4>2. b.src \in T /\ b.src # l
          BY <1>1, <2>5, <4>1
        <4>. QED
          BY <2>3, <2>4, <3>1, <4>2 DEF Beats
      <3>2. CASE b.rec.time # r.time
        <4>1. b.rec.time \in Nat /\ b.rec.time <= r.time
          BY <1>1, <2>a, <2>5
        <4>. QED
          BY <2>2, <2>4, <3>2, <4>1 DEF Beats
      <3>. QED
        BY <3>1, <3>2
    <2>. HIDE DEF a
    <2>6. a \in Latest(OnDisk)
      BY <2>a, <2>4, <2>5 DEF Latest
    <2>. QED
      BY <2>a, <2>4, <2>6 DEF Served
  <1>. QED
    BY <1>2, <1>3

\* No step but the removals of a pass touches what a reader finds.
LEMMA HoldsStays ==
    ASSUME Control, NEW k \in Keys, Holds(k), newest'[k] = newest[k],
           \A l \in Logs : log[l] \subseteq log'[l],
           \A f \in Files : file'[f] = "absent" => file[f] = "absent"
    PROVE  Holds(k)'
  <1>1a. PICK l \in Logs : \E r \in log[l] :
            r.key = k /\ r.time = newest[k] /\ ~r.dead /\ Present(r.ref)
    BY DEF Holds
  <1>1. PICK r \in log[l] :
            r.key = k /\ r.time = newest[k] /\ ~r.dead /\ Present(r.ref)
    BY <1>1a
  <1>2. r \in Records
    BY EverywhereTyped
  <1>3. r.ref = Inline \/ r.ref \in Files
    BY <1>2, RecordFacts
  <1>4. Present(r.ref)'
    BY <1>1, <1>3 DEF Present
  <1>. QED
    BY <1>1, <1>4 DEF Holds

\* Where the newest record is kept it is found, unless its value came too late.
LEMMA SavedFound ==
    ASSUME Control, NEW j \in Janitors, Grounded(j), KeepsAll(j),
           pass[j].at \in Folded, NEW l \in Logs, NEW r \in log[l],
           Tag(r, l) \in pass[j].found, ~r.dead, r.time = newest[r.key]
    PROVE  \/ r \in pass[j].out
           \/ Namespaced(r) /\ Repointed(r) \in pass[j].out
           \/ \E a \in pass[j].dropped : a.rec = r
           \/ \E m \in Logs \ ({j} \cup PruneLogs(j)) :
                 r \in log[m] /\ \E a \in Live(j) \ Ours(j) : a.rec = r
  <1>1. Tag(r, l).rec = r
    BY DEF Tag
  <1>2. Saved(j, r)
    BY <1>1 DEF KeepsAll
  <1>3. CASE \E a \in Live(j) \ Ours(j) : a.rec = r
    <2>1. PICK a \in Live(j) \ Ours(j) : a.rec = r
      BY <1>3
    <2>2. a \in pass[j].found /\ a.src \in Logs
          /\ a.src \notin {j} \cup PruneLogs(j)
      BY <2>1, OursFacts
    <2>3. r \in log[a.src]
      BY <2>1, <2>2 DEF Grounded
    <2>. QED
      BY <2>1, <2>2, <2>3
  <1>. QED
    BY <1>2, <1>3 DEF Saved

LEMMA WriteServes ==
    ASSUME Control, Stamps, NEW j \in Janitors, Grounded(j), ReadAll(j),
           KeepsAll(j), Write(j), NEW k \in Keys, Holds(k)
    PROVE  Holds(k)' \/ Raced
  <1>1. /\ pass[j].at = "write" /\ pass'[j].at = "prune"
        /\ j \in Logs /\ log'[j] = pass[j].out
        /\ \A l \in Logs \ {j} : log'[l] = log[l]
    BY WriteFacts
  <1>2. file' = file /\ newest' = newest
    BY DEF Write
  <1>3a. PICK l \in Logs : \E r \in log[l] :
            r.key = k /\ r.time = newest[k] /\ ~r.dead /\ Present(r.ref)
    BY DEF Holds
  <1>3. PICK r \in log[l] :
            r.key = k /\ r.time = newest[k] /\ ~r.dead /\ Present(r.ref)
    BY <1>3a
  <1>4. \A q : Present(q)' <=> Present(q)
    BY <1>2 DEF Present
  <1>5. CASE l # j
    BY <1>1, <1>2, <1>3, <1>4, <1>5 DEF Holds
  <1>6. CASE l = j
    <2>1. Ready(j)
      BY <1>1 DEF KeepsAll, Folded
    <2>2. Tag(r, j) \in pass[j].found
      BY <1>1, <1>3, <1>6, <2>1 DEF ReadAll, Ready, Folded, Written
    <2>3. \/ r \in pass[j].out
          \/ Namespaced(r) /\ Repointed(r) \in pass[j].out
          \/ \E a \in pass[j].dropped : a.rec = r
          \/ \E m \in Logs \ {j} : r \in log[m]
      BY <1>1, <1>3, <1>6, <2>2, SavedFound DEF Folded
    <2>4. CASE r \in pass[j].out
      BY <1>1, <1>2, <1>3, <1>4, <2>4 DEF Holds
    <2>5. CASE Namespaced(r) /\ Repointed(r) \in pass[j].out
      <3>1. r \in Records /\ r.ref \in Files
        BY <1>3, <1>6, <2>5, HomeFacts
      <3>2. /\ Repointed(r).key = k /\ Repointed(r).time = newest[k]
            /\ ~Repointed(r).dead
        BY <1>3, <3>1, RepointedFacts
      <3>3. Present(Repointed(r).ref)
        BY <1>6, <2>1, <2>5 DEF Ready
      <3>. QED
        BY <1>1, <1>2, <1>4, <2>5, <3>2, <3>3 DEF Holds
    <2>6. CASE \E a \in pass[j].dropped : a.rec = r
      BY <1>1, <1>3, <2>6 DEF Raced
    <2>7. CASE \E m \in Logs \ {j} : r \in log[m]
      BY <1>1, <1>2, <1>3, <1>4, <2>7 DEF Holds
    <2>. QED
      BY <2>3, <2>4, <2>5, <2>6, <2>7
  <1>. QED
    BY <1>5, <1>6

LEMMA UnlinkServes ==
    ASSUME Control, Stamps, NEW j \in Janitors, Grounded(j), ReadAll(j),
           KeepsAll(j), Unlink(j), NEW k \in Keys, Holds(k)
    PROVE  Holds(k)' \/ Raced
  <1>. DEFINE v == pass[j].victim
  <1>1. /\ pass[j].at = "unlink" /\ pass'[j].at = "prune"
        /\ v \in Prunable(j) /\ v \in Logs /\ v # j /\ v \in PruneLogs(j)
        /\ \A l \in Logs \ {v} : log'[l] = log[l]
        /\ \A f \in Files : file'[f] = IF f.ns = v THEN "absent" ELSE file[f]
    BY UnlinkFacts
  <1>2. newest' = newest /\ j \in Logs
    BY LogsAssumption DEF Unlink, Logs
  <1>3a. PICK l \in Logs : \E r \in log[l] :
            r.key = k /\ r.time = newest[k] /\ ~r.dead /\ Present(r.ref)
    BY DEF Holds
  <1>3. PICK r \in log[l] :
            r.key = k /\ r.time = newest[k] /\ ~r.dead /\ Present(r.ref)
    BY <1>3a
  <1>. HIDE DEF v
  \* The record is not of the namespace that goes, nor is its log that one.
  <1>4. ASSUME NEW m \in Logs \ {v}, r \in log[m] PROVE Holds(k)'
    <2>1. r \in Records
      BY <1>4, EverywhereTyped
    <2>2. r.ref # Inline => r.ref \in Files /\ r.ref.ns # v
      <3>. SUFFICES ASSUME r.ref # Inline PROVE r.ref \in Files /\ r.ref.ns # v
        OBVIOUS
      <3>1. r.ref \in Files
        BY <2>1, RecordFacts
      <3>2. CASE r.ref \in PoolFiles
        BY <1>1, <3>1, <3>2, NoneAssumption DEF PoolFiles
      <3>3. CASE r.ref \notin PoolFiles
        BY <1>4, <3>1, <3>3, HomeFacts DEF Namespaced
      <3>. QED
        BY <3>1, <3>2, <3>3
    <2>3. Present(r.ref)'
      BY <1>1, <1>3, <2>2 DEF Present
    <2>. QED
      BY <1>1, <1>2, <1>3, <1>4, <2>3 DEF Holds
  <1>5. CASE l # v
    BY <1>3, <1>4, <1>5
  <1>6. CASE l = v /\ log[v] # pass[j].snap[v]
    BY <1>1, <1>6 DEF Raced, v
  <1>7. CASE l = v /\ log[v] = pass[j].snap[v]
    <2>1. v \in DOMAIN pass[j].snap /\ v \notin pass[j].unread
      BY <1>1 DEF Prunable, KeepSources
    <2>2. Tag(r, v) \in pass[j].found
      BY <1>1, <1>3, <1>7, <2>1 DEF ReadAll
    <2>3. \/ r \in pass[j].out
          \/ Namespaced(r)
          \/ \E a \in pass[j].dropped : a.rec = r
          \/ \E m \in Logs \ ({j} \cup PruneLogs(j)) : r \in log[m]
      BY <1>1, <1>3, <1>7, <2>2, SavedFound DEF Folded
    <2>4. CASE r \in pass[j].out
      <3>1. r \in log[j]
        BY <1>1, <2>4 DEF Grounded, Written
      <3>. QED
        BY <1>1, <1>2, <1>4, <3>1
    <2>5. CASE Namespaced(r)
      BY <1>1, <1>3, <1>7, <2>5, HomeFacts DEF PruneLogs
    <2>6. CASE \E a \in pass[j].dropped : a.rec = r
      BY <1>1, <1>3, <2>6 DEF Raced
    <2>7. CASE \E m \in Logs \ ({j} \cup PruneLogs(j)) : r \in log[m]
      BY <1>1, <1>4, <2>7
    <2>. QED
      BY <2>3, <2>4, <2>5, <2>6, <2>7
  <1>. QED
    BY <1>5, <1>6, <1>7

LEMMA DeleteServes ==
    ASSUME Control, Stamps, NEW j \in Janitors, Grounded(j), ReadAll(j),
           KeepsAll(j), Delete(j), NEW k \in Keys, Holds(k)
    PROVE  Holds(k)' \/ Raced
  <1>. DEFINE v == pass[j].victim
  <1>1. /\ pass[j].at = "delete" /\ pass'[j].at = "sweep"
        /\ v \in PoolFiles \ KeptSpills(j)
    BY DEF Delete, Control, Placed, Typed
  <1>2. v \in Files /\ j \in Logs /\ file \in [Files -> Ages]
    BY <1>1, LogsAssumption DEF PoolFiles, Logs, Control, Typed
  <1>3a. PICK l \in Logs : \E r \in log[l] :
            r.key = k /\ r.time = newest[k] /\ ~r.dead /\ Present(r.ref)
    BY DEF Holds
  <1>3. PICK r \in log[l] :
            r.key = k /\ r.time = newest[k] /\ ~r.dead /\ Present(r.ref)
    BY <1>3a
  <1>4. log' = log /\ newest' = newest
        /\ \A f \in Files \ {v} : file'[f] = file[f]
    BY <1>2 DEF Delete
  <1>. HIDE DEF v
  <1>5. CASE r.ref # v
    <2>1. r \in Records
      BY <1>3, EverywhereTyped
    <2>2. r.ref = Inline \/ r.ref \in Files \ {v}
      BY <1>5, <2>1, RecordFacts
    <2>3. Present(r.ref)'
      BY <1>3, <1>4, <2>2 DEF Present
    <2>. QED
      BY <1>3, <1>4, <2>3 DEF Holds
  <1>6. CASE r.ref = v /\ file[v] = "young"
    BY <1>1, <1>6 DEF Raced, v
  <1>7. CASE r.ref = v /\ file[v] # "young"
    <2>1. r.ref # Inline /\ ~Namespaced(r)
      BY <1>1, <1>2, <1>7, NoneAssumption DEF Namespaced
    <2>2. file[v] = "old"
      BY <1>2, <1>3, <1>7, <2>1 DEF Present, Ages
    <2>3. r \notin pass[j].out
      BY <1>1, <1>7 DEF KeptSpills
    <2>4. Tag(r, l) \in pass[j].found
      <3>1. pass[j].unread = {}
        BY <1>1 DEF Control, Placed
      <3>2. log[j] = pass[j].out
        BY <1>1 DEF Grounded, Written
      <3>3. \/ Tag(r, l) \in pass[j].found \/ l \in pass[j].unread
            \/ l = j
            \/ l # j /\ (r.ref = Inline \/ file[r.ref] # "old")
        BY <1>1, <1>3 DEF ReadAll, Folded
      <3>. QED
        BY <1>3, <1>7, <2>1, <2>2, <2>3, <3>1, <3>2, <3>3
    <2>5. \/ \E a \in pass[j].dropped : a.rec = r
          \/ \E a \in Live(j) \ Ours(j) : a.rec = r
      BY <1>1, <1>3, <2>1, <2>3, <2>4, SavedFound DEF Folded
    <2>6. CASE \E a \in pass[j].dropped : a.rec = r
      BY <1>1, <1>7, <2>2, <2>6 DEF KeepsAll, Folded
    <2>7. CASE \E a \in Live(j) \ Ours(j) : a.rec = r
      BY <1>1, <1>7, <2>7 DEF KeptSpills
    <2>. QED
      BY <2>5, <2>6, <2>7
  <1>. QED
    BY <1>5, <1>6, <1>7

\* The two steps that clear legacy namespaces spare what our log refers to.
LEMMA LegacyServes ==
    ASSUME Control, Stamps, NEW j \in Janitors, Grounded(j),
           SweepLegacy(j) \/ RemoveOwn(j), NEW k \in Keys, Holds(k)
    PROVE  Holds(k)'
  <1>1. log' = log /\ newest' = newest /\ pass[j].at \in Written
    BY DEF SweepLegacy, RemoveOwn, Written
  <1>2. log[j] = pass[j].out
    BY <1>1 DEF Grounded
  <1>3. \A f \in Files : file'[f] = file[f]
            \/ /\ f \notin PoolFiles /\ f.ns \in {j} \cup Prune
               /\ f.ns \notin pass[j].failed
    <2>1. CASE SweepLegacy(j)
      <3>1. \A f \in PoolFiles : f.ns \notin {j} \cup Prune
        BY LogsAssumption, NoneAssumption DEF PoolFiles, Logs
      <3>. QED
        BY <2>1, <3>1 DEF SweepLegacy
    <2>2. CASE RemoveOwn(j)
      <3>1. \A f \in PoolFiles : f.ns # j
        BY LogsAssumption, NoneAssumption DEF PoolFiles, Logs
      <3>. QED
        BY <2>2, <3>1 DEF RemoveOwn, Control, Typed
    <2>. QED
      BY <2>1, <2>2
  <1>4a. PICK l \in Logs : \E r \in log[l] :
            r.key = k /\ r.time = newest[k] /\ ~r.dead /\ Present(r.ref)
    BY DEF Holds
  <1>4. PICK r \in log[l] :
            r.key = k /\ r.time = newest[k] /\ ~r.dead /\ Present(r.ref)
    BY <1>4a
  <1>5. r \in Records
    BY <1>4, EverywhereTyped
  <1>6. r.ref = Inline \/ r.ref \in Files
    BY <1>5, RecordFacts
  <1>7. ASSUME r.ref # Inline, file'[r.ref] # file[r.ref] PROVE FALSE
    <2>1. /\ r.ref \in Files /\ r.ref \notin PoolFiles
          /\ r.ref.ns \in {j} \cup Prune /\ r.ref.ns \notin pass[j].failed
      BY <1>3, <1>6, <1>7
    <2>2. r.ref.ns = l /\ l \notin Prune
      BY <1>4, <1>7, <2>1, HomeFacts DEF Namespaced
    <2>3. l = j /\ r \in pass[j].out
      BY <1>2, <1>4, <2>1, <2>2
    <2>4. r.ref.ns \in pass[j].failed
      BY <1>7, <2>1, <2>3 DEF Control, Placed
    <2>. QED
      BY <2>1, <2>4
  <1>8. Present(r.ref)'
    BY <1>4, <1>7 DEF Present
  <1>. QED
    BY <1>1, <1>4, <1>8 DEF Holds

LEMMA PassServes ==
    ASSUME NeverLostInv, NEW j \in Janitors, Pass(j), NEW k \in Keys, Holds(k)
    PROVE  Holds(k)' \/ Raced
  <1>0. /\ Control /\ Stamps /\ Grounded(j) /\ ReadAll(j) /\ KeepsAll(j)
        /\ file \in [Files -> Ages]
    BY DEF NeverLostInv, SweptInv, Control, Typed
  <1>1. CASE \/ \E blind \in SUBSET Logs : Snapshot(j, blind)
             \/ ReadLog(j) \/ Abort(j) \/ StartSweep(j)
             \/ \E l \in Logs : Restat(j, l)
             \/ \E f \in PoolFiles : Probe(j, f)
    <2>1. log' = log /\ file' = file /\ newest' = newest
      BY <1>1 DEF Snapshot, ReadLog, Abort, StartSweep, Restat, Probe, disk
    <2>. QED
      BY <1>0, <2>1, HoldsStays
  <1>2. ASSUME NEW broken \in SUBSET Ours(j), NEW linked \in BOOLEAN,
               Resolve(j, broken, linked)
        PROVE  Holds(k)'
    <2>1. log' = log /\ newest' = newest
      BY <1>2 DEF Resolve
    <2>2. \A f \in Files : file'[f] \in {file[f], "young"}
      BY <1>0, <1>2, ResolveFacts
    <2>3. \A f \in Files : file'[f] = "absent" => file[f] = "absent"
      BY <2>2
    <2>. QED
      BY <1>0, <2>1, <2>3, HoldsStays
  <1>3. CASE Write(j)
    BY <1>0, <1>3, WriteServes
  <1>4. CASE Unlink(j)
    BY <1>0, <1>4, UnlinkServes
  <1>5. CASE Delete(j)
    BY <1>0, <1>5, DeleteServes
  <1>6. CASE SweepLegacy(j) \/ RemoveOwn(j)
    BY <1>0, <1>6, LegacyServes
  <1>. QED
    BY <1>1, <1>2, <1>3, <1>4, <1>5, <1>6 DEF Pass

LEMMA NextServes ==
    ASSUME NeverLostInv, NeverLostInv', [Next]_vars, NEW k \in Keys, Holds(k)
    PROVE  Holds(k)' \/ Superseded(k) \/ Raced
  <1>. SUFFICES ASSUME newest'[k] = newest[k] PROVE Holds(k)' \/ Raced
    BY DEF Superseded
  <1>0. Control /\ Control' /\ file \in [Files -> Ages]
        /\ log \in [Logs -> SUBSET Records]
    BY DEF NeverLostInv, SweptInv, Control, Typed
  <1>1. CASE UNCHANGED vars
    BY <1>0, <1>1, HoldsStays DEF vars
  <1>2. CASE \E i \in Janitors : Pass(i)
    BY <1>2, PassServes
  <1>3. CASE Next /\ ~\E i \in Janitors : Pass(i)
    <2>1. \/ \E w \in Writers : \E n \in Keys, ref \in PoolFiles \cup {Inline},
                 dead \in BOOLEAN :
                 Put(w, [key |-> n, time |-> Start + count.puts + 1,
                         dead |-> dead, ref |-> ref])
          \/ \E w \in Writers : Land(w) \/ Crash(w)
          \/ \E l \in Logs : ArriveLog(l)
          \/ \E f \in Files : ArriveFile(f) \/ Age(f)
      BY <1>3 DEF Next
    <2>2. \A l \in Logs : log[l] \subseteq log'[l]
      <3>1. CASE \E l \in Logs : ArriveLog(l)
        BY <1>0, <3>1, ArriveLogFacts
      <3>. QED
        BY <1>0, <2>1, <3>1 DEF Put, Land, Crash, ArriveFile, Age, disk
    <2>3. \A f \in Files : file'[f] = "absent" => file[f] = "absent"
      BY <1>0, <2>1 DEF Put, Land, Crash, ArriveLog, ArriveFile, Age, disk
    <2>. QED
      BY <1>0, <2>2, <2>3, HoldsStays
  <1>. QED
    BY <1>1, <1>2, <1>3

\* Once a key's newest record can be read it can be read until a newer one
\* supersedes it, whatever a pass folds, prunes, adopts and sweeps, and wherever
\* it fails or dies, outside the windows of Raced: where one writer consolidates
\* and legacy namespaces are named at home alone.
THEOREM NeverLost ==
    ASSUME OneJanitor, AtHome
    PROVE  Spec => ReadableStaysReadable
  <1>1. Init => NeverLostInv
    BY InitNever
  <1>2. NeverLostInv /\ [Next]_vars => NeverLostInv'
    BY NextNever
  <1>3. NeverLostInv' => (\A k \in Keys : Served(k) <=> Holds(k))'
    BY ServedIf, PTL
  <1>4. NeverLostInv /\ [Next]_vars =>
            [\A k \in Keys : Served(k) => Served(k)' \/ Superseded(k) \/ Raced]_vars
    <2>. SUFFICES ASSUME NeverLostInv, [Next]_vars, NEW k \in Keys, Served(k)
                  PROVE  Served(k)' \/ Superseded(k) \/ Raced
      OBVIOUS
    <2>1. Holds(k)
      BY ServedIf
    <2>2. Holds(k)' \/ Superseded(k) \/ Raced
      BY <1>2, <2>1, NextServes
    <2>3. Holds(k)' => Served(k)'
      BY <1>2, <1>3
    <2>. QED
      BY <2>2, <2>3
  <1>. QED
    BY <1>1, <1>2, <1>4, PTL DEF Spec, ReadableStaysReadable

=============================================================================
