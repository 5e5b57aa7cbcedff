--------------------------- MODULE TransferProofs ---------------------------
(***************************************************************************)
(* Transfer keeps its types, implements CacheProtocol, loses no value that *)
(* it has not copied, and a FileCache with one writing thread stays within *)
(* its limit: for every set of calls, instances and keys.                  *)
(***************************************************************************)
EXTENDS Transfer, SumTheorems

File == [val : Setters, size : Nat, used : 0 .. MaxClock]
Stat == [key : Keys, size : Nat, used : 0 .. MaxClock]
Answers == Setters \cup {Pending, "miss", "unread", "done", "raised",
                         "killed"}

SetLabels == {"set", "stat", "temp", "replace", "account", "scan", "add",
              "evict", "unlink"}
Labels == {"idle", "end", "get", "read", "set", "stat", "temp", "replace",
           "account", "scan", "add", "evict", "unlink", "delete", "clear",
           "wipe", "nuke"}

TreeTyped ==
    /\ clock \in 0 .. MaxClock /\ faults \in 0 .. MaxFaults
    /\ files \in [Keys -> File \cup {NoFile}]
    /\ shards \subseteq Keys
    /\ temps \in [Calls \cup Keys -> Calls \cup {Pending}]
    /\ total \in [Instances -> Int \cup {Unknown}]
    /\ slack \in [Instances -> Nat]

CallsTyped ==
    /\ pc \in [Calls -> Labels]
    /\ req \in [Calls -> Requests \cup {NoRequest}]
    /\ delta \in [Calls -> Int]
    /\ scanned \in [Calls -> SUBSET Stat]
    /\ answer \in [Calls -> Answers]

TransferTyped ==
    /\ phase \in {"list", "copy", "end"} /\ todo \subseteq Keys
    /\ skipped \in BOOLEAN /\ late \subseteq Keys /\ unread \subseteq Keys
    /\ dest \in [Keys -> Setters \cup {NoFile}]

Working(c) ==
    \/ req[c].op = "get" /\ pc[c] \in {"get", "read"}
    \/ req[c].op = "set" /\ pc[c] \in SetLabels
    \/ req[c].op = "delete" /\ pc[c] = "delete"
    \/ req[c].op = "clear" /\ pc[c] \in {"clear", "wipe"}
    \/ req[c].op = "nuke" /\ pc[c] = "nuke"

\* A call is where its operation takes it, and has an answer at its end.
Located(c) ==
    /\ pc[c] = "idle" <=> req[c] = NoRequest
    /\ pc[c] \notin {"idle", "end"} => Working(c)
    /\ pc[c] = "end" <=> answer[c] # Pending
    /\ scanned[c] # {} => pc[c] \in {"unlink", "wipe"}

\* A temporary file is that of a set between its dump and its replace, or of
\* one whose process died there.
TempOwned(n) ==
    temps[n] # Pending =>
        /\ n \in Calls /\ temps[n] = n
        /\ pc[n] = "replace" \/ answer[n] = "killed"

Shape ==
    /\ TreeTyped /\ CallsTyped /\ TransferTyped
    /\ \A c \in Calls : Located(c)
    /\ \A n \in Calls \cup Keys : TempOwned(n)

-----------------------------------------------------------------------------
\* The size of the cache is a natural number.
LEMMA VolumeNat ==
    ASSUME files \in [Keys -> File \cup {NoFile}]
    PROVE  Volume \in Nat /\ \A k \in Keys : SizeAt(k) \in Nat
  <1>1. \A k \in Keys : SizeAt(k) \in Nat
    BY DEF SizeAt, File
  <1>. DEFINE f == [k \in Keys |-> SizeAt(k)]
  <1>2. DOMAIN f = Keys /\ \A k \in Keys : f[k] \in Nat
    BY <1>1
  <1>3. SumFunctionOnSet(f, Keys) \in Nat
    <2>. HIDE DEF f
    <2>. QED
      BY <1>2, FilesAssumption, SumNat
  <1>. QED
    BY <1>1, <1>2, <1>3 DEF Volume, SumFunction

\* What a first set that shrinks its entry counts twice.
LEMMA ShrinksNat ==
    ASSUME NEW c \in Calls, delta[c] \in Int
    PROVE  Shrinks(c) \in Nat /\ Shrinks(c) >= 0 - delta[c]
  <1>. DEFINE n == 0 - delta[c]
  <1>1. \E x \in {0, n} : \A y \in {0, n} : x >= y
    BY SMT
  <1>2. /\ Max({0, n}) \in {0, n}
        /\ \A y \in {0, n} : Max({0, n}) >= y
    BY <1>1 DEF Max
  <1>. QED
    BY <1>2 DEF Shrinks

\* The parts of Shape that a step of a call may disturb.
Kept ==
    /\ TreeTyped /\ CallsTyped
    /\ \A c \in Calls : Located(c)
    /\ \A n \in Calls \cup Keys : TempOwned(n)

Live(c) == pc[c] \notin {"idle", "end"}

\* A call that goes on within its operation stays located.
LEMMA GotoKeeps ==
    ASSUME Kept, NEW c \in Calls, NEW l \in Labels, Live(c), Goto(c, l),
           l \notin {"idle", "end"}, req' = req,
           req[c].op = "get" => l = "read",
           req[c].op = "set" => l \in SetLabels,
           req[c].op \notin {"delete", "clear", "nuke"},
           scanned[c] = {}
    PROVE  /\ pc' \in [Calls -> Labels] /\ answer' \in [Calls -> Answers]
           /\ req' \in [Calls -> Requests \cup {NoRequest}]
           /\ scanned' \in [Calls -> SUBSET Stat]
           /\ \A d \in Calls : Located(d)'
  <1>1. /\ pc \in [Calls -> Labels] /\ pc' = [pc EXCEPT ![c] = l]
        /\ answer' = answer /\ scanned' = scanned
        /\ \A d \in Calls : Located(d)
    BY DEF Kept, CallsTyped, Goto
  <1>2. pc'[c] = l /\ \A d \in Calls \ {c} : pc'[d] = pc[d]
    BY <1>1
  <1>3. ASSUME NEW d \in Calls \ {c} PROVE Located(d)'
    BY <1>1, <1>2 DEF Located, Working
  <1>4. Located(c)'
    BY <1>1, <1>2 DEF Located, Working, Live
  <1>. QED
    BY <1>1, <1>3, <1>4 DEF Kept, CallsTyped

\* A call that answers is at its end.
LEMMA ReplyKeeps ==
    ASSUME Kept, NEW c \in Calls, NEW a \in Answers \ {Pending}, Live(c),
           Reply(c, a), req' = req
    PROVE  /\ pc' \in [Calls -> Labels] /\ answer' \in [Calls -> Answers]
           /\ req' \in [Calls -> Requests \cup {NoRequest}]
           /\ scanned' \in [Calls -> SUBSET Stat]
           /\ \A d \in Calls : Located(d)'
  <1>1. /\ pc \in [Calls -> Labels] /\ pc' = [pc EXCEPT ![c] = "end"]
        /\ answer \in [Calls -> Answers]
        /\ answer' = [answer EXCEPT ![c] = a]
        /\ scanned \in [Calls -> SUBSET Stat]
        /\ scanned' = [scanned EXCEPT ![c] = {}]
        /\ \A d \in Calls : Located(d)
    BY DEF Kept, CallsTyped, Reply
  <1>2. pc'[c] = "end" /\ answer'[c] = a /\ scanned'[c] = {}
    BY <1>1
  <1>3. ASSUME NEW d \in Calls \ {c} PROVE Located(d)'
    <2>1. pc'[d] = pc[d] /\ answer'[d] = answer[d] /\ scanned'[d] = scanned[d]
      BY <1>1
    <2>. QED
      BY <1>1, <2>1 DEF Located, Working
  <1>4. Located(c)'
    BY <1>1, <1>2 DEF Located, Working, Live
  <1>5. /\ pc' \in [Calls -> Labels] /\ answer' \in [Calls -> Answers]
        /\ scanned' \in [Calls -> SUBSET Stat]
    BY <1>1 DEF Labels
  <1>. QED
    BY <1>3, <1>4, <1>5 DEF Kept, CallsTyped

\* A step of a call that is not before its replace leaves the temporary files
\* owned.
LEMMA TempsKept ==
    ASSUME Kept, NEW c \in Calls, Live(c), pc[c] # "replace",
           temps' = temps, \A d \in Calls \ {c} : pc'[d] = pc[d],
           \A d \in Calls \ {c} : answer'[d] = answer[d]
    PROVE  \A n \in Calls \cup Keys : TempOwned(n)'
  <1>1. temps[c] = Pending
    BY NoneAssumption DEF Kept, TempOwned, Located, Live
  <1>. QED
    BY <1>1 DEF Kept, TempOwned

\* What an answer may be.
LEMMA AnswersKnown ==
    /\ {"miss", "unread", "done", "raised", "killed"} \subseteq Answers \ {Pending}
    /\ Setters \subseteq Answers \ {Pending}
    /\ Calls \subseteq Setters
  BY NoneAssumption DEF Answers, Setters

\* A step of a live call goes on with its operation, or answers.
Proceeds(c) ==
    \/ \E a \in Answers \ {Pending} : Reply(c, a)
    \/ req[c].op = "get" /\ Goto(c, "read")
    \/ req[c].op = "set" /\ \E l \in SetLabels : Goto(c, l)

\* Such a step keeps the shape, if it leaves the temporary files owned.
LEMMA StepKeeps ==
    ASSUME Kept, NEW c \in Calls, Live(c), scanned[c] = {} \/ pc'[c] = "end",
           req' = req, TreeTyped', delta' \in [Calls -> Int], Proceeds(c),
           \/ temps' = temps /\ pc[c] # "replace"
           \/ \A n \in Calls \cup Keys : TempOwned(n)'
    PROVE  Kept'
  <1>0. ASSUME NEW l, Goto(c, l) PROVE pc'[c] = l
    BY <1>0 DEF Goto, Kept, CallsTyped
  <1>1. ASSUME NEW l \in SetLabels, req[c].op = "set", Goto(c, l)
        PROVE  /\ pc' \in [Calls -> Labels] /\ answer' \in [Calls -> Answers]
               /\ req' \in [Calls -> Requests \cup {NoRequest}]
               /\ scanned' \in [Calls -> SUBSET Stat]
               /\ \A d \in Calls : Located(d)'
    BY <1>0, <1>1, GotoKeeps DEF Labels, SetLabels
  <1>2. ASSUME req[c].op = "get", Goto(c, "read")
        PROVE  /\ pc' \in [Calls -> Labels] /\ answer' \in [Calls -> Answers]
               /\ req' \in [Calls -> Requests \cup {NoRequest}]
               /\ scanned' \in [Calls -> SUBSET Stat]
               /\ \A d \in Calls : Located(d)'
    BY <1>0, <1>2, GotoKeeps DEF Labels
  <1>3. /\ pc' \in [Calls -> Labels] /\ answer' \in [Calls -> Answers]
        /\ req' \in [Calls -> Requests \cup {NoRequest}]
        /\ scanned' \in [Calls -> SUBSET Stat]
        /\ \A d \in Calls : Located(d)'
    BY <1>1, <1>2, ReplyKeeps DEF Proceeds
  <1>4. /\ \A d \in Calls \ {c} : pc'[d] = pc[d]
        /\ \A d \in Calls \ {c} : answer'[d] = answer[d]
    BY DEF Proceeds, Goto, Reply, Kept, CallsTyped
  <1>5. \A n \in Calls \cup Keys : TempOwned(n)'
    BY <1>4, TempsKept
  <1>. QED
    BY <1>3, <1>5 DEF Kept, CallsTyped

\* A live call and its request.
LEMMA LiveCall ==
    ASSUME Kept, NEW c \in Calls, Live(c)
    PROVE  /\ req[c] \in Requests /\ Key(c) \in Keys /\ req[c].size \in Nat
           /\ Inst(c) \in Instances
           /\ pc[c] \in {"get", "read"} => req[c].op = "get"
           /\ pc[c] \in SetLabels => req[c].op = "set"
           /\ pc[c] \notin {"unlink", "wipe"} => scanned[c] = {}
  BY NoneAssumption, CallsAssumption
     DEF Live, Kept, CallsTyped, Located, Working, Key, Requests, SetLabels,
         Inst

\* A step of a get keeps the shape.
LEMMA GetShape ==
    ASSUME Kept, NEW c \in Calls, Touch(c) \/ Read(c)
    PROVE  Kept'
  <1>. USE DEF tree
  <1>1. /\ Live(c) /\ pc[c] \in {"get", "read"} /\ req' = req
    BY DEF Touch, Read, Live
  <1>2. files' \in [Keys -> File \cup {NoFile}]
    <2>1. CASE files' = files
      BY <2>1 DEF Kept, TreeTyped
    <2>2. CASE /\ files[Key(c)] # NoFile
               /\ files' = [files EXCEPT ![Key(c)].used = clock]
      BY <1>1, <2>2, LiveCall DEF Kept, TreeTyped, File
    <2>. QED
      BY <2>1, <2>2 DEF Touch, Read
  <1>3. TreeTyped' /\ delta' \in [Calls -> Int] /\ temps' = temps
    BY <1>2, NumbersAssumption
    DEF Touch, Read, Fault, Kept, TreeTyped, CallsTyped
  <1>4. Proceeds(c)
    BY <1>1, AnswersKnown, LiveCall
    DEF Touch, Read, Kept, TreeTyped, File, Proceeds
  <1>. QED
    BY <1>1, <1>3, <1>4, StepKeeps, LiveCall

\* The steps of a set that leave the tree alone.
LEMMA SetCheckShape ==
    ASSUME Kept, NEW c \in Calls,
           Exists(c) \/ StatOld(c) \/ StatNew(c) \/ Scan(c) \/ Add(c)
    PROVE  Kept'
  <1>. USE DEF tree
  <1>1. /\ Live(c) /\ pc[c] \in {"set", "stat", "account", "scan", "add"}
        /\ req' = req /\ temps' = temps
    BY DEF Exists, StatOld, StatNew, Scan, Add, Live
  <1>2. /\ req[c].op = "set" /\ scanned[c] = {} /\ Key(c) \in Keys
        /\ Inst(c) \in Instances /\ delta[c] \in Int
    BY <1>1, LiveCall DEF SetLabels, Kept, CallsTyped
  <1>3. files[Key(c)] # NoFile => files[Key(c)].size \in Int
    BY <1>2 DEF Kept, TreeTyped, File
  <1>4. delta' \in [Calls -> Int]
    BY <1>2, <1>3 DEF Exists, StatOld, StatNew, Scan, Add, Kept, CallsTyped
  <1>5. TreeTyped'
    <2>1. CASE Exists(c) \/ StatOld(c) \/ StatNew(c)
      BY <2>1 DEF Exists, StatOld, StatNew, Kept, TreeTyped
    <2>2. CASE Scan(c)
      BY <2>2, <1>2, VolumeNat, ShrinksNat DEF Scan, Remember, Kept, TreeTyped
    <2>3. CASE Add(c)
      <3>1. CASE total[Inst(c)] = Unknown
        BY <2>3, <3>1 DEF Add, Kept, TreeTyped
      <3>2. CASE total[Inst(c)] # Unknown
        <4>1. total[Inst(c)] + delta[c] \in Int
          BY <1>2, <3>2 DEF Kept, TreeTyped
        <4>. QED
          BY <2>3, <3>2, <4>1 DEF Add, Remember, Kept, TreeTyped
      <3>. QED
        BY <3>1, <3>2
    <2>. QED
      BY <2>1, <2>2, <2>3
  <1>6. Proceeds(c)
    BY <1>1, <1>2, AnswersKnown
    DEF Exists, StatOld, StatNew, Scan, Add, Proceeds, SetLabels
  <1>. QED
    BY <1>1, <1>2, <1>4, <1>5, <1>6, StepKeeps

\* The dump, its failure and the replace.
LEMMA SetStoreShape ==
    ASSUME Kept, NEW c \in Calls, Dump(c) \/ Abandon(c) \/ Replace(c)
    PROVE  Kept'
  <1>. USE DEF tree, TempOf
  <1>1. /\ Live(c) /\ pc[c] \in {"temp", "replace"} /\ req' = req
        /\ delta' = delta
    BY DEF Dump, Abandon, Replace, Live
  <1>2. /\ req[c].op = "set" /\ scanned[c] = {} /\ Key(c) \in Keys
        /\ req[c].size \in Nat
    BY <1>1, LiveCall DEF SetLabels
  <1>3. Proceeds(c)
    BY <1>1, <1>2, AnswersKnown
    DEF Dump, Abandon, Replace, Proceeds, SetLabels
  <1>4. temps' \in [Calls \cup Keys -> Calls \cup {Pending}]
    BY DEF Dump, Abandon, Replace, DropTemp, Kept, TreeTyped
  <1>5. files' \in [Keys -> File \cup {NoFile}]
    <2>1. CASE files' = files
      BY <2>1 DEF Kept, TreeTyped
    <2>2. CASE Replace(c)
      <3>1. [val |-> temps[TempOf(c)], size |-> req[c].size, used |-> clock]
                \in File
        BY <1>2, <2>2 DEF Replace, Kept, TreeTyped, File, Setters
      <3>. QED
        BY <2>2, <3>1, <1>2 DEF Replace, Kept, TreeTyped
    <2>. QED
      BY <2>1, <2>2 DEF Dump, Abandon
  <1>6. TreeTyped'
    BY <1>4, <1>5, NumbersAssumption
    DEF Dump, Abandon, Replace, Fault, Kept, TreeTyped
  <1>7. /\ \A d \in Calls \ {c} : pc'[d] = pc[d]
        /\ \A d \in Calls \ {c} : answer'[d] = answer[d]
    BY DEF Dump, Abandon, Replace, Goto, Reply, Kept, CallsTyped
  <1>8. \/ temps' = temps /\ pc[c] # "replace"
        \/ \A n \in Calls \cup Keys : TempOwned(n)'
    <2>1. CASE Dump(c) /\ temps' = temps
      BY <2>1 DEF Dump
    <2>2. ASSUME NEW n \in (Calls \cup Keys) \ {c} PROVE TempOwned(n)'
      BY <1>7
      DEF Dump, Abandon, Replace, DropTemp, Kept, TempOwned, TreeTyped
    <2>3. CASE temps' = [temps EXCEPT ![c] = Pending]
      BY <2>2, <2>3 DEF Kept, TempOwned, TreeTyped
    <2>4. CASE temps' = [temps EXCEPT ![c] = c] /\ pc'[c] = "replace"
      BY <2>2, <2>4 DEF Kept, TempOwned, TreeTyped
    <2>. QED
      BY <2>1, <2>3, <2>4
      DEF Dump, Abandon, Replace, DropTemp, Goto, Kept, CallsTyped
  <1>. QED
    BY <1>1, <1>2, <1>3, <1>6, <1>8, StepKeeps DEF Kept, CallsTyped

\* A delete and a nuke keep the shape.
LEMMA DropShape ==
    ASSUME Kept, NEW c \in Calls, Delete(c) \/ Nuke(c)
    PROVE  Kept'
  <1>1. /\ Live(c) /\ pc[c] \in {"delete", "nuke"} /\ req' = req
        /\ delta' = delta
    BY DEF Delete, Nuke, Live
  <1>2. scanned[c] = {} /\ Key(c) \in Keys /\ Inst(c) \in Instances
    BY <1>1, LiveCall
  <1>3. Proceeds(c)
    BY AnswersKnown DEF Delete, Nuke, Proceeds
  <1>4. temps' \in [Calls \cup Keys -> Calls \cup {Pending}]
    BY DEF Delete, Nuke, Kept, TreeTyped
  <1>5. TreeTyped'
    BY <1>2, <1>4 DEF Delete, Nuke, Unlink, Remember, Kept, TreeTyped
  <1>6. \/ temps' = temps /\ pc[c] # "replace"
        \/ \A n \in Calls \cup Keys : TempOwned(n)'
    BY DEF Delete, Nuke, TempOwned, Kept, TreeTyped
  <1>. QED
    BY <1>1, <1>2, <1>3, <1>5, <1>6, StepKeeps DEF Kept, CallsTyped

\* What a glob finds are files with their stat.
LEMMA FoundTyped ==
    ASSUME files \in [Keys -> File \cup {NoFile}]
    PROVE  Found \subseteq Stat
  BY DEF Found, Present, File, Stat

\* The steps of an eviction and of a clear, which work on what was found.
LEMMA ScannedKept ==
    ASSUME Kept, NEW c \in Calls, NEW S \in SUBSET Stat, NEW l, Live(c),
           \/ req[c].op = "set" /\ l = "unlink"
           \/ req[c].op = "clear" /\ l = "wipe",
           TreeTyped', pc' = [pc EXCEPT ![c] = l],
           scanned' = [scanned EXCEPT ![c] = S],
           answer' = answer, req' = req, delta' = delta, temps' = temps,
           pc[c] # "replace"
    PROVE  Kept'
  <1>1. /\ pc \in [Calls -> Labels] /\ scanned \in [Calls -> SUBSET Stat]
        /\ \A d \in Calls : Located(d)
    BY DEF Kept, CallsTyped
  <1>2. ASSUME NEW d \in Calls \ {c} PROVE Located(d)'
    BY <1>1 DEF Located, Working
  <1>3. Located(c)'
    BY <1>1 DEF Located, Working, Live, SetLabels
  <1>4. CallsTyped'
    BY DEF Kept, CallsTyped, Labels
  <1>5. \A d \in Calls \ {c} : pc'[d] = pc[d] /\ answer'[d] = answer[d]
    BY <1>1
  <1>6. \A n \in Calls \cup Keys : TempOwned(n)'
    BY <1>5, TempsKept
  <1>. QED
    BY <1>2, <1>3, <1>4, <1>6 DEF Kept

LEMMA EvictShape ==
    ASSUME Kept, NEW c \in Calls, StartEvict(c) \/ EvictOne(c) \/ EndEvict(c)
    PROVE  Kept'
  <1>. USE DEF tree
  <1>1. /\ Live(c) /\ pc[c] \in {"evict", "unlink"} /\ req' = req
        /\ delta' = delta /\ temps' = temps
    BY DEF StartEvict, EvictOne, EndEvict, Live
  <1>2. /\ req[c].op = "set" /\ Inst(c) \in Instances
        /\ pc[c] = "evict" => scanned[c] = {}
    BY <1>1, LiveCall DEF SetLabels
  <1>3. CASE StartEvict(c)
    <2>1. TreeTyped'
      BY <1>2, <1>3, VolumeNat DEF StartEvict, Remember, Kept, TreeTyped
    <2>2. CASE Reply(c, "done")
      <3>1. Proceeds(c) /\ pc[c] = "evict"
        BY <1>3, <2>2, AnswersKnown DEF Proceeds, StartEvict
      <3>2. delta' \in [Calls -> Int]
        BY <1>1 DEF Kept, CallsTyped
      <3>. QED
        BY <1>1, <1>2, <2>1, <3>1, <3>2, StepKeeps
    <2>3. CASE ~Reply(c, "done")
      <3>1. Found \in SUBSET Stat
        BY FoundTyped DEF Kept, TreeTyped
      <3>2. /\ pc' = [pc EXCEPT ![c] = "unlink"] /\ answer' = answer
            /\ scanned' = [scanned EXCEPT ![c] = Found]
            /\ pc[c] # "replace"
        BY <1>3, <2>3 DEF StartEvict
      <3>. QED
        BY <1>1, <1>2, <2>1, <3>1, <3>2, ScannedKept
    <2>. QED
      BY <2>2, <2>3
  <1>4. CASE EvictOne(c)
    <2>1. PICK e \in Oldest(scanned[c]) :
              /\ Unlink(e.key)
              /\ Remember(c, IF e.key \in Present THEN total[Inst(c)] - e.size
                                                  ELSE total[Inst(c)])
              /\ scanned' = [scanned EXCEPT ![c] = scanned[c] \ {e}]
      BY <1>4 DEF EvictOne
    <2>2. e \in Stat /\ e.key \in Keys /\ e.size \in Nat
      BY <2>1 DEF Oldest, Kept, CallsTyped, Stat
    <2>3. total[Inst(c)] \in Int /\ pc' = pc /\ answer' = answer
      BY <1>2, <1>4 DEF EvictOne, Kept, TreeTyped
    <2>4. TreeTyped'
      <3>1. PICK n \in Int : total' = [total EXCEPT ![Inst(c)] = n]
        <4>1. total[Inst(c)] - e.size \in Int
          BY <2>2, <2>3
        <4>. QED
          BY <2>1, <2>3, <4>1 DEF Remember
      <3>. QED
        BY <1>2, <1>4, <2>1, <2>2, <3>1
        DEF EvictOne, Unlink, Kept, TreeTyped
    <2>5. /\ scanned[c] \ {e} \in SUBSET Stat
          /\ pc' = [pc EXCEPT ![c] = "unlink"] /\ pc[c] # "replace"
      BY <1>4, <2>3 DEF EvictOne, Kept, CallsTyped
    <2>. QED
      BY <1>1, <1>2, <2>1, <2>3, <2>4, <2>5, ScannedKept
  <1>5. CASE EndEvict(c)
    <2>1. TreeTyped'
      BY <1>5 DEF EndEvict, Kept, TreeTyped
    <2>2. Proceeds(c) /\ pc'[c] = "end" /\ pc[c] # "replace"
      BY <1>5, AnswersKnown DEF EndEvict, Proceeds, Reply, Kept, CallsTyped
    <2>. QED
      BY <1>1, <2>1, <2>2, StepKeeps DEF Kept, CallsTyped
  <1>. QED
    BY <1>3, <1>4, <1>5

LEMMA ClearShape ==
    ASSUME Kept, NEW c \in Calls, StartClear(c) \/ ClearOne(c) \/ EndClear(c)
    PROVE  Kept'
  <1>. USE DEF tree
  <1>1. /\ Live(c) /\ pc[c] \in {"clear", "wipe"} /\ req' = req
        /\ delta' = delta /\ temps' = temps /\ pc[c] # "replace"
    BY DEF StartClear, ClearOne, EndClear, Live
  <1>2. req[c].op = "clear" /\ Inst(c) \in Instances
    BY <1>1, LiveCall DEF Kept, Located, Working, SetLabels, Live
  <1>3. CASE StartClear(c)
    <2>1. TreeTyped' /\ Found \in SUBSET Stat
      BY <1>3, FoundTyped DEF StartClear, Kept, TreeTyped
    <2>2. /\ pc' = [pc EXCEPT ![c] = "wipe"] /\ answer' = answer
          /\ scanned' = [scanned EXCEPT ![c] = Found]
      BY <1>3 DEF StartClear
    <2>. QED
      BY <1>1, <1>2, <2>1, <2>2, ScannedKept
  <1>4. CASE ClearOne(c)
    <2>1. PICK e \in scanned[c] :
              Unlink(e.key) /\ scanned' = [scanned EXCEPT ![c] = scanned[c] \ {e}]
      BY <1>4 DEF ClearOne
    <2>2. TreeTyped'
      BY <1>4, <2>1 DEF ClearOne, Unlink, Kept, TreeTyped
    <2>3. /\ scanned[c] \ {e} \in SUBSET Stat /\ answer' = answer
          /\ pc' = [pc EXCEPT ![c] = "wipe"]
      BY <1>4 DEF ClearOne, Kept, CallsTyped
    <2>. QED
      BY <1>1, <1>2, <2>1, <2>2, <2>3, ScannedKept
  <1>5. CASE EndClear(c)
    <2>1. TreeTyped'
      BY <1>2, <1>5 DEF EndClear, Remember, Kept, TreeTyped
    <2>2. Proceeds(c) /\ pc'[c] = "end"
      BY <1>5, AnswersKnown DEF EndClear, Proceeds, Reply, Kept, CallsTyped
    <2>. QED
      BY <1>1, <2>1, <2>2, StepKeeps DEF Kept, CallsTyped
  <1>. QED
    BY <1>3, <1>4, <1>5

LEMMA StepShape ==
    ASSUME Kept, NEW c \in Calls, Step(c)
    PROVE  Kept'
  BY GetShape, SetCheckShape, SetStoreShape, EvictShape, DropShape, ClearShape
     DEF Step, Set

-----------------------------------------------------------------------------
\* The beginning of a call, the death of a process, the transfer's own steps.
LEMMA BeginShape ==
    ASSUME Kept, NEW c \in Calls, Begin(c)
    PROVE  Kept'
  <1>1. PICK r \in Does[c] :
            /\ req' = [req EXCEPT ![c] = r]
            /\ shards' = IF r.op = "set" THEN shards \cup {r.key} ELSE shards
            /\ Goto(c, r.op)
    BY DEF Begin
  <1>2. r \in Requests /\ r.key \in Keys /\ r # NoRequest
        /\ r.op \in {"get", "set", "delete", "clear", "nuke"}
    BY CallsAssumption, NoneAssumption DEF Requests
  <1>3. TreeTyped'
    BY <1>1, <1>2 DEF Begin, Kept, TreeTyped
  <1>4. CallsTyped'
    BY <1>1, <1>2 DEF Begin, Goto, Kept, CallsTyped, Labels
  <1>5. /\ \A d \in Calls \ {c} : pc'[d] = pc[d] /\ req'[d] = req[d]
        /\ pc'[c] = r.op /\ req'[c] = r /\ pc[c] = "idle"
        /\ answer' = answer /\ scanned' = scanned /\ temps' = temps
    BY <1>1 DEF Begin, Goto, Kept, CallsTyped
  <1>6. \A d \in Calls : Located(d)'
    <2>1. ASSUME NEW d \in Calls \ {c} PROVE Located(d)'
      BY <1>5 DEF Kept, Located, Working
    <2>2. Located(c)'
      BY <1>2, <1>5 DEF Kept, Located, Working, SetLabels
    <2>. QED
      BY <2>1, <2>2
  <1>7. \A n \in Calls \cup Keys : TempOwned(n)'
    BY <1>5, NoneAssumption DEF Kept, TempOwned, Located
  <1>. QED
    BY <1>3, <1>4, <1>6, <1>7 DEF Kept

LEMMA CrashShape ==
    ASSUME Kept, NEW i \in Instances, Crash(i)
    PROVE  Kept'
  <1>. USE DEF tree
  <1>1. TreeTyped'
    BY NumbersAssumption DEF Crash, Fault, Kept, TreeTyped
  <1>2. PICK D : /\ D = {c \in Running : Inst(c) = i}
                 /\ pc' = [c \in Calls |-> IF c \in D THEN "end" ELSE pc[c]]
                 /\ answer' = [c \in Calls |->
                                  IF c \in D THEN "killed" ELSE answer[c]]
                 /\ scanned' = [c \in Calls |->
                                   IF c \in D THEN {} ELSE scanned[c]]
                 /\ req' = req /\ delta' = delta /\ temps' = temps
    BY DEF Crash
  <1>3. CallsTyped'
    BY <1>2, AnswersKnown DEF Kept, CallsTyped, Labels
  <1>4. ASSUME NEW c \in Calls PROVE Located(c)'
    <2>1. CASE c \in D
      BY <1>2, <2>1, AnswersKnown DEF Running, Kept, Located
    <2>2. CASE c \notin D
      BY <1>2, <2>2 DEF Kept, Located, Working
    <2>. QED
      BY <2>1, <2>2
  <1>5. \A n \in Calls \cup Keys : TempOwned(n)'
    BY <1>2 DEF Kept, TempOwned
  <1>. QED
    BY <1>1, <1>3, <1>4, <1>5 DEF Kept

LEMMA CopyShape ==
    ASSUME Shape, NEW k \in Keys, Copy(k)
    PROVE  Shape'
  <1>. USE DEF control
  <1>1. \/ files' = files
        \/ files[k] # NoFile /\ files' = [files EXCEPT ![k].used = clock]
    BY DEF Copy, CopyMissed, CopyRead, Mark, Present
  <1>2. files' \in [Keys -> File \cup {NoFile}]
    BY <1>1 DEF Shape, TreeTyped, File
  <1>3. TreeTyped'
    BY <1>2, NumbersAssumption
    DEF Copy, CopyMissed, CopyRead, Fault, Shape, TreeTyped, Present
  <1>4. CallsTyped' /\ \A c \in Calls : Located(c)'
    BY DEF Copy, Shape, CallsTyped, Located, Working
  <1>5. \A n \in Calls \cup Keys : TempOwned(n)'
    BY DEF Copy, Shape, TempOwned
  <1>6. files[k] # NoFile => files[k].val \in Setters
    BY DEF Shape, TreeTyped, File
  <1>7. TransferTyped'
    BY <1>6 DEF Copy, CopyMissed, CopyRead, Skip, Shape, TransferTyped, Present
  <1>. QED
    BY <1>3, <1>4, <1>5, <1>7 DEF Shape

\* Shape is inductive.
LEMMA ShapeInit == TransferInit => Shape
  <1>. SUFFICES ASSUME TransferInit PROVE Shape
    OBVIOUS
  <1>. USE DEF TransferInit, Init
  <1>1. files \in [Keys -> File \cup {NoFile}]
    BY FilesAssumption, NumbersAssumption DEF File, Setters
  <1>2. TreeTyped
    BY <1>1, NumbersAssumption DEF TreeTyped, Present
  <1>3. CallsTyped
    BY DEF CallsTyped, Labels, Answers
  <1>4. TransferTyped
    BY DEF TransferTyped
  <1>5. \A c \in Calls : Located(c)
    BY DEF Located
  <1>6. \A n \in Calls \cup Keys : TempOwned(n)
    BY DEF TempOwned
  <1>. QED
    BY <1>2, <1>3, <1>4, <1>5, <1>6 DEF Shape

LEMMA PresentFinite == IsFiniteSet(Present)
  BY FilesAssumption, FS_Subset DEF Present

LEMMA ShapeNext == Shape /\ [Next]_vars => Shape'
  <1>. SUFFICES ASSUME Shape, [Next]_vars PROVE Shape'
    OBVIOUS
  <1>. USE DEF fileVars, tree, control, transferVars
  <1>0. Kept
    BY DEF Shape, Kept
  <1>00. ASSUME Kept', TransferTyped' PROVE Shape'
    BY <1>00 DEF Shape, Kept
  <1>01. ASSUME UNCHANGED fileVars PROVE Kept'
    BY <1>0, <1>01 DEF Kept, TreeTyped, CallsTyped, Located, Working, TempOwned
  <1>1. CASE List
    <2>1. faults' \in 0 .. MaxFaults
      BY <1>0, <1>1, PresentFinite, FS_Subset, FS_CardinalityType,
         NumbersAssumption
      DEF List, Fault, Kept, TreeTyped
    <2>2. Kept'
      BY <1>0, <1>1, <2>1
      DEF List, Kept, TreeTyped, CallsTyped, Located, Working, TempOwned
    <2>3. TransferTyped'
      BY <1>1 DEF List, Listed, Present, Shape, TransferTyped
    <2>. QED
      BY <1>00, <2>2, <2>3
  <1>2. ASSUME NEW k \in Keys, Copy(k) PROVE Shape'
    BY <1>2, CopyShape
  <1>3. CASE Finish
    <2>1. TransferTyped'
      BY <1>3 DEF Finish, Shape, TransferTyped
    <2>. QED
      BY <1>0, <1>00, <1>01, <1>3, <2>1, BeginShape, ClearerAssumption
      DEF Finish
  <1>4. ASSUME NEW c \in Calls, SourceStep(c) PROVE Shape'
    <2>1. Kept'
      BY <1>0, <1>4, BeginShape, StepShape DEF SourceStep
    <2>2. late' \subseteq Keys
      <3>1. CASE pc[c] = "replace"
        BY <1>0, <1>4, <3>1, LiveCall
        DEF SourceStep, Live, Shape, TransferTyped
      <3>2. CASE pc[c] # "replace"
        BY <1>4, <3>2 DEF SourceStep, Shape, TransferTyped
      <3>. QED
        BY <3>1, <3>2
    <2>. QED
      BY <1>00, <1>4, <2>1, <2>2 DEF SourceStep, Shape, TransferTyped
  <1>5. ASSUME NEW i \in Instances, ProcessDies(i) PROVE Shape'
    <2>1. TransferTyped'
      BY <1>5 DEF ProcessDies, Shape, TransferTyped
    <2>. QED
      BY <1>0, <1>00, <1>5, <2>1, CrashShape DEF ProcessDies
  <1>6. CASE Tick /\ UNCHANGED transferVars
    <2>1. TreeTyped'
      BY <1>6, NumbersAssumption DEF Tick, Shape, TreeTyped
    <2>. QED
      BY <1>6, <2>1 DEF Tick, Shape, CallsTyped, TransferTyped, Located,
         Working, TempOwned
  <1>7. CASE UNCHANGED vars
    BY <1>00, <1>01, <1>7 DEF vars, Shape, TransferTyped
  <1>. QED
    BY <1>1, <1>2, <1>3, <1>4, <1>5, <1>6, <1>7 DEF Next, Finished

THEOREM ShapeHolds == Spec => []Shape
  <1>. QED
    BY ShapeInit, ShapeNext, PTL DEF Spec

\* Every variable has its type, and a failing set leaves no temporary file
\* (`TypeOK`).
THEOREM TypeCorrect == Spec => []TypeOK
  <1>1. Shape => TypeOK
    <2>. SUFFICES ASSUME Shape PROVE TypeOK
      OBVIOUS
    <2>1. DOMAIN temps = Calls \cup Keys
      BY DEF Shape, TreeTyped
    <2>. QED
      BY <2>1 DEF Shape, TreeTyped, CallsTyped, TransferTyped, Located,
         TempOwned, TypeOK, File, Stat, Answers
  <1>. QED
    BY <1>1, ShapeHolds, PTL

-----------------------------------------------------------------------------
\* What a step may do to the file of a key: it stays, but for its mtime, or
\* goes,
StaysOrGoes(k) ==
    \/ files'[k] = files[k]
    \/ files'[k] = NoFile
    \/ /\ files[k] # NoFile /\ files'[k] # NoFile
       /\ files'[k].val = files[k].val /\ files'[k].size = files[k].size

\* or is replaced by a set.
LEMMA StepFiles ==
    ASSUME Kept, NEW c \in Calls, Step(c), NEW k \in Keys,
           ~(pc[c] = "replace" /\ pc'[c] = "account" /\ k = Key(c))
    PROVE  StaysOrGoes(k)
  <1>. USE DEF tree
  <1>1. CASE files' = files
    BY <1>1 DEF StaysOrGoes
  <1>2. CASE Touch(c)
    BY <1>2 DEF Touch, StaysOrGoes, Kept, TreeTyped, File
  <1>3. CASE Replace(c)
    BY <1>3 DEF Replace, Goto, StaysOrGoes, Kept, TreeTyped, CallsTyped
  <1>4. CASE EvictOne(c)
    BY <1>4 DEF EvictOne, Unlink, StaysOrGoes, Kept, TreeTyped
  <1>5. CASE ClearOne(c)
    BY <1>5 DEF ClearOne, Unlink, StaysOrGoes, Kept, TreeTyped
  <1>6. CASE Delete(c) \/ Nuke(c)
    BY <1>6 DEF Delete, Nuke, Unlink, StaysOrGoes, Kept, TreeTyped
  <1>. QED
    BY <1>1, <1>2, <1>3, <1>4, <1>5, <1>6
    DEF Step, Set, Read, Exists, StatOld, Dump, Abandon, StatNew, Scan, Add,
        StartEvict, EndEvict, StartClear, EndClear

\* A step changes what is recorded of its own call alone.
LEMMA StepLocal ==
    ASSUME Kept, NEW c \in Calls, Step(c)
    PROVE  /\ pc[c] # "idle" /\ req' = req
           /\ \A d \in Calls \ {c} :
                 /\ pc'[d] = pc[d] /\ answer'[d] = answer[d]
                 /\ scanned'[d] = scanned[d] /\ delta'[d] = delta[d]
  <1>. USE DEF tree, Goto, Reply, Kept, CallsTyped
  <1>1. CASE Touch(c) \/ Read(c) \/ Exists(c) \/ StatOld(c) \/ Dump(c)
    BY <1>1 DEF Touch, Read, Exists, StatOld, Dump
  <1>2. CASE Abandon(c) \/ Replace(c) \/ StatNew(c) \/ Scan(c) \/ Add(c)
    BY <1>2 DEF Abandon, Replace, StatNew, Scan, Add
  <1>3. CASE StartEvict(c) \/ EvictOne(c) \/ EndEvict(c)
    BY <1>3 DEF StartEvict, EvictOne, EndEvict
  <1>4. CASE Delete(c) \/ StartClear(c) \/ ClearOne(c) \/ EndClear(c) \/ Nuke(c)
    BY <1>4 DEF Delete, StartClear, ClearOne, EndClear, Nuke
  <1>. QED
    BY <1>1, <1>2, <1>3, <1>4 DEF Step, Set

\* A key that was yielded has been copied, stored since, or waits.
Handled(k) ==
    \/ files[k] = NoFile \/ dest[k] = files[k].val
    \/ k \in late \/ files[k].val \in Bare \/ k \in unread \/ k \in todo

\* The argument of TransferLosesNothing: the clear begins only after every
\* key that was yielded was copied.
Covered ==
    /\ pc[Clearer] # "idle" => phase = "end" /\ ~skipped /\ todo = {}
    /\ (phase = "copy" \/ pc[Clearer] # "idle") /\ ~skipped =>
          \A k \in Keys : Handled(k)

LEMMA CoveredNext == Shape /\ Covered /\ [Next]_vars => Covered'
  <1>. SUFFICES ASSUME Shape, Covered, [Next]_vars PROVE Covered'
    OBVIOUS
  <1>. USE DEF fileVars, tree, control, transferVars
  <1>0. Kept /\ Clearer \in Calls
    BY ClearerAssumption DEF Shape, Kept
  <1>01. ASSUME UNCHANGED transferVars, pc'[Clearer] = pc[Clearer],
                \A k \in Keys : StaysOrGoes(k)
         PROVE  Covered'
    BY <1>01 DEF Covered, Handled, StaysOrGoes
  <1>1. CASE List
    BY <1>1 DEF List, Listed, Present, Covered, Handled
  <1>2. ASSUME NEW k \in Keys, Copy(k) PROVE Covered'
    <2>0. unread' = unread
      BY <1>2 DEF Copy
    <2>1. /\ pc' = pc /\ pc[Clearer] = "idle" /\ phase = "copy"
      BY <1>2 DEF Copy, Covered
    <2>2. CASE CopyMissed(k)
      BY <2>1, <2>2 DEF CopyMissed, Skip, Covered
    <2>3. CASE CopyRead(k)
      <3>1. \A j \in Keys : StaysOrGoes(j)
        BY <1>0, <2>3
        DEF CopyRead, Mark, Present, StaysOrGoes, Kept, TreeTyped, File
      <3>2. /\ files[k] # NoFile
            /\ files'[k] = NoFile \/ files'[k].val = files[k].val
        BY <2>3, <3>1 DEF CopyRead, Present, StaysOrGoes
      <3>3. CASE Fault /\ Skip(k)
        BY <2>1, <3>3 DEF Skip, Covered
      <3>4. CASE /\ Fault /\ phase' = "end"
                 /\ UNCHANGED <<todo, skipped, dest, late>>
        BY <2>1, <2>0, <3>1, <3>4 DEF Covered, Handled, StaysOrGoes
      <3>5. CASE /\ dest' = [dest EXCEPT ![k] = files[k].val]
                 /\ todo' = todo \ {k} /\ late' = late \ {k}
                 /\ UNCHANGED <<phase, skipped, faults>>
        <4>1. dest'[k] = files[k].val /\ \A j \in Keys \ {k} : dest'[j] = dest[j]
          BY <3>5 DEF Shape, TransferTyped
        <4>2. ASSUME ~skipped, NEW j \in Keys PROVE Handled(j)'
          BY <2>0, <2>1, <3>1, <3>2, <3>5, <4>1, <4>2
          DEF Covered, Handled, StaysOrGoes
        <4>. QED
          BY <2>1, <3>5, <4>2 DEF Covered
      <3>. QED
        BY <2>3, <3>3, <3>4, <3>5 DEF CopyRead
    <2>. QED
      BY <1>2, <2>2, <2>3 DEF Copy
  <1>3. CASE Finish
    BY <1>3 DEF Finish, Begin, Covered, Handled
  <1>4. ASSUME NEW c \in Calls, SourceStep(c) PROVE Covered'
    <2>1. CASE c # Clearer /\ Begin(c)
      <3>1. pc'[Clearer] = pc[Clearer] /\ files' = files /\ late' = late
        BY <1>0, <1>4, <2>1 DEF SourceStep, Begin, Goto, Kept, CallsTyped
      <3>. QED
        BY <1>4, <3>1 DEF SourceStep, Covered, Handled
    <2>2. CASE Step(c)
      <3>1. pc'[Clearer] # "idle" => pc[Clearer] # "idle"
        BY <1>0, <2>2, StepLocal
      <3>2. ASSUME NEW k \in Keys, Handled(k) PROVE Handled(k)'
        <4>1. CASE pc[c] = "replace" /\ pc'[c] = "account" /\ k = Key(c)
          BY <1>4, <4>1 DEF SourceStep, Handled
        <4>2. CASE ~(pc[c] = "replace" /\ pc'[c] = "account" /\ k = Key(c))
          <5>1. StaysOrGoes(k)
            BY <1>0, <2>2, <4>2, StepFiles
          <5>. QED
            BY <1>4, <3>2, <5>1 DEF SourceStep, Handled, StaysOrGoes
        <4>. QED
          BY <4>1, <4>2
      <3>. QED
        BY <1>4, <3>1, <3>2 DEF SourceStep, Covered
    <2>. QED
      BY <1>4, <2>1, <2>2 DEF SourceStep
  <1>5. ASSUME NEW i \in Instances, ProcessDies(i) PROVE Covered'
    <2>1. pc'[Clearer] # "idle" => pc[Clearer] # "idle"
      BY <1>0, <1>5 DEF ProcessDies, Crash, Running
    <2>2. /\ phase' \in {phase, "end"} /\ files' = files
          /\ UNCHANGED <<todo, skipped, dest, late, unread>>
      BY <1>5 DEF ProcessDies, Crash
    <2>. QED
      BY <2>1, <2>2 DEF Covered, Handled
  <1>6. CASE Tick /\ UNCHANGED transferVars
    BY <1>01, <1>6 DEF Tick, StaysOrGoes
  <1>7. CASE UNCHANGED vars
    BY <1>01, <1>7 DEF vars, StaysOrGoes
  <1>. QED
    BY <1>1, <1>2, <1>3, <1>4, <1>5, <1>6, <1>7 DEF Next, Finished

\* What the clear has found changes only once it has begun.
LEMMA ClearerScans ==
    ASSUME Shape, [Next]_vars, pc[Clearer] = "idle"
    PROVE  scanned'[Clearer] = scanned[Clearer]
  <1>. USE DEF fileVars, control
  <1>0. Kept /\ Clearer \in Calls
    BY ClearerAssumption DEF Shape, Kept
  <1>1. ASSUME NEW c \in Calls, SourceStep(c)
        PROVE  scanned'[Clearer] = scanned[Clearer]
    BY <1>0, <1>1, StepLocal DEF SourceStep, Begin, Goto
  <1>2. ASSUME NEW i \in Instances, ProcessDies(i)
        PROVE  scanned'[Clearer] = scanned[Clearer]
    BY <1>0, <1>2 DEF ProcessDies, Crash, Running
  <1>. QED
    BY <1>1, <1>2 DEF Next, List, Copy, Finish, Begin, Goto, Tick, Finished,
       vars

\* clear_source removes no value that the destination does not have, but for
\* those stored meanwhile, those in files without a key and those in files that
\* the listing could not read (`TransferLosesNothing`).
THEOREM NothingLost == Spec => TransferLosesNothing
  <1>1. TransferInit => Covered
    BY ClearerAssumption DEF TransferInit, Init, Covered
  <1>2. Shape /\ Covered /\ [Next]_vars =>
            [\A k \in Present \ Present' :
                scanned'[Clearer] # scanned[Clearer] =>
                   \/ dest[k] = files[k].val
                   \/ k \in late
                   \/ files[k].val \in Bare \/ k \in unread]_vars
    <2>. SUFFICES ASSUME Shape, Covered, [Next]_vars,
                         NEW k \in Present \ Present',
                         scanned'[Clearer] # scanned[Clearer]
                  PROVE  \/ dest[k] = files[k].val
                         \/ k \in late
                         \/ files[k].val \in Bare \/ k \in unread
      OBVIOUS
    <2>1. pc[Clearer] # "idle"
      BY ClearerScans
    <2>2. k \in Keys /\ files[k] # NoFile
      BY DEF Present
    <2>. QED
      BY <2>1, <2>2 DEF Covered, Handled
  <1>. QED
    BY <1>1, <1>2, ShapeHolds, CoveredNext, PTL DEF Spec, TransferLosesNothing

-----------------------------------------------------------------------------
\* The outcome of a call, by where it is.
Landed == {"account", "scan", "add", "evict", "unlink"}

LEMMA OutcomeFacts ==
    ASSUME NEW c \in Calls
    PROVE  /\ answer[c] = "unread" => Outcome[c] = "raised"
           /\ answer[c] \notin {"unread", Pending} => Outcome[c] = answer[c]
           /\ answer[c] = Pending /\ pc[c] \in Landed => Outcome[c] = "done"
           /\ answer[c] = Pending /\ pc[c] \notin Landed =>
                  Outcome[c] = Pending
  BY NoneAssumption DEF Outcome, Landed

\* The same after a step.
LEMMA OutcomeFactsNext ==
    ASSUME NEW c \in Calls
    PROVE  /\ answer'[c] = "unread" => Outcome'[c] = "raised"
           /\ answer'[c] \notin {"unread", Pending} => Outcome'[c] = answer'[c]
           /\ answer'[c] = Pending /\ pc'[c] \in Landed => Outcome'[c] = "done"
           /\ answer'[c] = Pending /\ pc'[c] \notin Landed =>
                  Outcome'[c] = Pending
  BY NoneAssumption DEF Outcome, Landed

\* A file that stays keeps its cell, one that goes empties it.
LEMMA CellStays ==
    ASSUME NEW k \in Keys, StaysOrGoes(k)
    PROVE  /\ Cell'[k] \in {Cell[k], NoFile}
           /\ files'[k] # NoFile => Cell'[k] = Cell[k]
  BY DEF StaysOrGoes, Cell

\* The steps of the abstract specification, by what they do to the two views.
LEMMA Fails ==
    ASSUME Cell' = Cell,
           \A c \in Calls : Outcome'[c] \in {Outcome[c], "raised", "killed"}
    PROVE  Abstract!Next
  <1>1. Outcome' \in [Calls -> Abstract!Range(Outcome) \cup {"raised", "killed"}]
    BY DEF Outcome, Abstract!Range
  <1>. QED
    BY <1>1 DEF Abstract!Next, Abstract!Fail

LEMMA Loses ==
    ASSUME \A k \in Keys : StaysOrGoes(k)
    PROVE  /\ Cell' \in [Keys -> Abstract!Range(Cell) \cup {NoFile}]
           /\ Abstract!Lose(Keys)
  <1>1. \A k \in Keys : Cell'[k] \in {Cell[k], NoFile}
    BY CellStays
  <1>2. DOMAIN Cell' = Keys /\ DOMAIN Cell = Keys
    BY DEF Cell
  <1>3. Cell' \in [Keys -> Abstract!Range(Cell) \cup {NoFile}]
    BY <1>1, <1>2 DEF Abstract!Range, Cell
  <1>. QED
    BY <1>1, <1>3 DEF Abstract!Lose

LEMMA Evicts ==
    ASSUME Outcome' = Outcome, \A k \in Keys : StaysOrGoes(k)
    PROVE  Abstract!Next
  BY Loses DEF Abstract!Next, Abstract!Evict

\* A step of c moves the outcome of c alone.
LEMMA OutcomeLocal ==
    ASSUME Kept, NEW c \in Calls, Step(c)
    PROVE  Outcome' = [Outcome EXCEPT ![c] = Outcome'[c]]
  <1>1. \A d \in Calls \ {c} : Outcome'[d] = Outcome[d]
    BY StepLocal DEF Outcome
  <1>2. /\ Outcome = [d \in Calls |-> Outcome[d]]
        /\ Outcome' = [d \in Calls |-> Outcome'[d]]
    BY DEF Outcome
  <1>. QED
    BY <1>1, <1>2

\* A get: what it answers was in its cell.
LEMMA GetRefines ==
    ASSUME Kept, NEW c \in Calls, Touch(c) \/ Read(c)
    PROVE  Abstract!Next \/ UNCHANGED <<Cell, Outcome>>
  <1>1. /\ Step(c) /\ Live(c) /\ pc[c] \in {"get", "read"}
        /\ Key(c) \in Keys /\ answer[c] = Pending
    BY LiveCall DEF Touch, Read, Step, Live, Kept, Located
  <1>2. Outcome[c] = Pending
    BY <1>1, OutcomeFacts DEF Landed
  <1>3. \A k \in Keys : StaysOrGoes(k)
    BY <1>1, StepFiles
  <1>4. Cell' = Cell
    <2>1. \A k \in Keys : files'[k] = NoFile => files[k] = NoFile
      <3>1. CASE files' = files
        BY <3>1
      <3>2. CASE files' = [files EXCEPT ![Key(c)].used = clock]
                 /\ files[Key(c)] # NoFile
        <4>1. [files[Key(c)] EXCEPT !.used = clock] \in File
          BY <1>1, <3>2 DEF Kept, TreeTyped, File
        <4>2. NoFile \notin File
          BY NoneAssumption, NumbersAssumption DEF File
        <4>. QED
          BY <1>1, <3>2, <4>1, <4>2 DEF Kept, TreeTyped
      <3>. QED
        BY <3>1, <3>2 DEF Touch, Read, tree
    <2>2. \A k \in Keys : Cell'[k] = Cell[k]
      BY <1>3, <2>1, CellStays DEF Cell
    <2>. QED
      BY <2>2 DEF Cell
  <1>5. Outcome' = [Outcome EXCEPT ![c] = Outcome'[c]]
    BY <1>1, OutcomeLocal
  <1>6. CASE Goto(c, "read")
    <2>1. Outcome'[c] = Pending
      <3>1. answer'[c] = Pending /\ pc'[c] = "read"
        BY <1>1, <1>6 DEF Goto, Kept, CallsTyped
      <3>. QED
        BY <3>1, OutcomeFactsNext DEF Landed
    <2>2. Outcome' = Outcome
      <3>1. Outcome' = [Outcome EXCEPT ![c] = Outcome[c]]
        BY <1>2, <1>5, <2>1
      <3>2. Outcome = [d \in Calls |-> Outcome[d]]
        BY DEF Outcome
      <3>. QED
        BY <3>1, <3>2
    <2>. QED
      BY <1>4, <2>2
  <1>7. CASE files[Key(c)] = NoFile /\ Reply(c, "miss")
    <2>1. answer'[c] = "miss"
      BY <1>7 DEF Reply, Kept, CallsTyped
    <2>2. Outcome'[c] = "miss" /\ Cell[Key(c)] = NoFile
      BY <1>1, <1>7, <2>1, OutcomeFactsNext, NoneAssumption DEF Cell
    <2>3. Abstract!Get(c, Key(c))
      BY <1>2, <1>4, <1>5, <2>2 DEF Abstract!Get, Abstract!Come
    <2>. QED
      BY <1>1, <2>3 DEF Abstract!Next
  <1>8. CASE files[Key(c)] # NoFile /\ Reply(c, files[Key(c)].val)
    <2>1. answer'[c] = files[Key(c)].val /\ files[Key(c)].val \in Setters
      BY <1>1, <1>8 DEF Reply, Kept, CallsTyped, TreeTyped, File
    <2>2. /\ Cell[Key(c)] = [val |-> files[Key(c)].val, mortal |-> FALSE]
          /\ Cell[Key(c)] # NoFile
      <3>1. Cell[Key(c)] = [val |-> files[Key(c)].val, mortal |-> FALSE]
        BY <1>1, <1>8 DEF Cell
      <3>2. [val |-> files[Key(c)].val, mortal |-> FALSE]
                \in [val : Setters, mortal : BOOLEAN]
        BY <2>1
      <3>. QED
        BY <3>1, <3>2, NoneAssumption
    <2>3. Outcome'[c] = Cell[Key(c)].val
      BY <2>1, <2>2, OutcomeFactsNext, NoneAssumption
    <2>4. Abstract!Get(c, Key(c))
      BY <1>2, <1>4, <1>5, <2>2, <2>3 DEF Abstract!Get, Abstract!Come
    <2>. QED
      BY <1>1, <2>4 DEF Abstract!Next
  <1>9. CASE Reply(c, "unread")
    <2>1. Outcome'[c] = "raised"
      BY <1>9, OutcomeFactsNext DEF Reply, Kept, CallsTyped
    <2>2. \A d \in Calls : Outcome'[d] \in {Outcome[d], "raised", "killed"}
      BY <1>1, <2>1, OutcomeLocal, StepLocal DEF Outcome
    <2>. QED
      BY <1>4, <2>2, Fails
  <1>. QED
    BY <1>6, <1>7, <1>8, <1>9 DEF Touch, Read

\* The steps of a set but its replace: its outcome stays, or it raises.
LEMMA SetRefines ==
    ASSUME Kept, NEW c \in Calls, Step(c), files' = files,
           req[c].op = "set", pc'[c] \in SetLabels \/ pc'[c] = "end",
           pc[c] \in Landed => pc'[c] \in Landed \cup {"end"},
           pc[c] \notin Landed => pc'[c] \notin Landed,
           pc'[c] # "end" => answer'[c] = Pending,
           pc'[c] = "end" =>
              \/ answer'[c] = "raised"
              \/ answer'[c] = "done" /\ pc[c] \in Landed
    PROVE  Abstract!Next \/ UNCHANGED <<Cell, Outcome>>
  <1>1. answer[c] = Pending
    BY StepLocal DEF Step, Set, Touch, Read, Exists, StatOld, Dump, Abandon,
       Replace, StatNew, Scan, Add, StartEvict, EvictOne, EndEvict, Delete,
       StartClear, ClearOne, EndClear, Nuke, Kept, Located
  <1>2. Outcome'[c] \in {Outcome[c], "raised"}
    BY <1>1, OutcomeFacts, OutcomeFactsNext, NoneAssumption
  <1>3. \A d \in Calls : Outcome'[d] \in {Outcome[d], "raised", "killed"}
    BY <1>2, OutcomeLocal, StepLocal DEF Outcome
  <1>4. Cell' = Cell
    BY DEF Cell
  <1>. QED
    BY <1>3, <1>4, Fails

\* The replace: the value lands.
LEMMA ReplaceRefines ==
    ASSUME Kept, NEW c \in Calls, Replace(c)
    PROVE  Abstract!Next
  <1>1. /\ Step(c) /\ Live(c) /\ Key(c) \in Keys /\ answer[c] = Pending
        /\ pc'[c] = "account" /\ answer' = answer
    BY LiveCall
    DEF Replace, Step, Set, Live, Kept, Located, Goto, CallsTyped
  <1>2. Outcome[c] = Pending /\ Outcome'[c] = "done"
    BY <1>1, OutcomeFacts, OutcomeFactsNext DEF Replace, Landed
  <1>3. Outcome' = [Outcome EXCEPT ![c] = "done"]
    BY <1>1, <1>2, OutcomeLocal
  <1>4. temps[c] = c
    BY DEF Replace, TempOf, Kept, TempOwned
  <1>5. files'[Key(c)] =
            [val |-> c, size |-> req[c].size, used |-> clock]
    BY <1>1, <1>4 DEF Replace, TempOf, Kept, TreeTyped
  <1>6. [val |-> c, size |-> req[c].size, used |-> clock]
            \in [val : Setters, size : Nat, used : Nat]
    BY <1>1, LiveCall, NumbersAssumption DEF Setters, Kept, TreeTyped
  <1>7. Cell'[Key(c)] = [val |-> c, mortal |-> FALSE]
    <2>1. files'[Key(c)] # NoFile /\ files'[Key(c)].val = c
      BY <1>5, <1>6, NoneAssumption
    <2>. QED
      BY <1>1, <2>1 DEF Cell
  <1>8. \A k \in Keys \ {Key(c)} : Cell'[k] = Cell[k]
    BY <1>1 DEF Replace, Cell, Kept, TreeTyped
  <1>9. \A k \in Keys : Cell[k] \in
            [val : Calls \cup Earlier, mortal : BOOLEAN] \cup {NoFile}
    BY DEF Cell, Kept, TreeTyped, File, Setters
  <1>10. Cell' \in [Keys -> [val : Calls \cup Earlier, mortal : BOOLEAN]
                               \cup {NoFile}]
    <2>1. \A k \in Keys : Cell'[k] \in
              [val : Calls \cup Earlier, mortal : BOOLEAN] \cup {NoFile}
      <3>1. [val |-> c, mortal |-> FALSE]
                \in [val : Calls \cup Earlier, mortal : BOOLEAN]
        OBVIOUS
      <3>. QED
        BY <1>7, <1>8, <1>9, <3>1
    <2>. QED
      BY <2>1 DEF Cell
  <1>11. Abstract!Put(c, Key(c))
    <2>1. Cell'[Key(c)].val = c
      BY <1>7
    <2>. QED
      BY <1>2, <1>3, <1>8, <1>10, <2>1
      DEF Abstract!Put, Abstract!Come, Abstract!Lose
  <1>. QED
    BY <1>1, <1>11 DEF Abstract!Next

\* The steps of the calls that remove files.
LEMMA DropRefines ==
    ASSUME Kept, NEW c \in Calls,
           \/ Delete(c) \/ Nuke(c) \/ StartClear(c) \/ ClearOne(c)
           \/ EndClear(c)
    PROVE  Abstract!Next \/ UNCHANGED <<Cell, Outcome>>
  <1>1. /\ Step(c) /\ Live(c) /\ answer[c] = Pending
        /\ pc[c] \in {"delete", "nuke", "clear", "wipe"}
    BY DEF Delete, Nuke, StartClear, ClearOne, EndClear, Step, Live, Kept,
       Located
  <1>2. Outcome[c] = Pending
    BY <1>1, OutcomeFacts DEF Landed
  <1>3. \A k \in Keys : StaysOrGoes(k)
    BY <1>1, StepFiles
  <1>4. CASE Reply(c, "done")
    <2>1. answer'[c] = "done"
      BY <1>4 DEF Reply, Kept, CallsTyped
    <2>2. Outcome' = [Outcome EXCEPT ![c] = "done"]
      BY <1>1, <2>1, OutcomeFactsNext, OutcomeLocal, NoneAssumption
    <2>3. Abstract!Remove(c)
      BY <1>2, <1>3, <2>2, Loses DEF Abstract!Remove, Abstract!Come
    <2>. QED
      BY <2>3 DEF Abstract!Next
  <1>5. CASE StartClear(c) \/ ClearOne(c)
    <2>1. answer'[c] = Pending /\ pc'[c] \notin Landed
      BY <1>1, <1>5 DEF StartClear, ClearOne, Kept, CallsTyped, Landed
    <2>2. Outcome'[c] = Outcome[c]
      BY <1>2, <2>1, OutcomeFactsNext
    <2>3. Outcome' = Outcome
      <3>1. \A d \in Calls : Outcome'[d] = Outcome[d]
        BY <1>1, <2>2, StepLocal DEF Outcome
      <3>. QED
        BY <3>1 DEF Outcome
    <2>. QED
      BY <1>3, <2>3, Evicts
  <1>. QED
    BY <1>4, <1>5 DEF Delete, Nuke, EndClear

\* The victims of an eviction are lost.
LEMMA EvictRefines ==
    ASSUME Kept, NEW c \in Calls, EvictOne(c)
    PROVE  Abstract!Next
  <1>1. /\ Step(c) /\ pc' = pc /\ answer' = answer /\ pc[c] = "unlink"
    BY DEF EvictOne, Step, Set
  <1>2. Outcome' = Outcome
    BY <1>1 DEF Outcome
  <1>3. \A k \in Keys : StaysOrGoes(k)
    BY <1>1, StepFiles
  <1>. QED
    BY <1>2, <1>3, Evicts

LEMMA StepRefines ==
    ASSUME Kept, NEW c \in Calls, Step(c)
    PROVE  Abstract!Next \/ UNCHANGED <<Cell, Outcome>>
  <1>1. ASSUME \/ Exists(c) \/ StatOld(c) \/ Dump(c) \/ Abandon(c)
               \/ StatNew(c) \/ Scan(c) \/ Add(c) \/ StartEvict(c)
               \/ EndEvict(c)
        PROVE  Abstract!Next \/ UNCHANGED <<Cell, Outcome>>
    <2>1. /\ Live(c) /\ pc[c] \in SetLabels /\ files' = files
      BY <1>1 DEF Exists, StatOld, Dump, Abandon, StatNew, Scan, Add,
         StartEvict, EndEvict, Live, SetLabels, tree
    <2>2. req[c].op = "set" /\ answer[c] = Pending
      BY <2>1, LiveCall DEF Kept, Located, Live
    <2>. USE DEF Goto, Reply, Kept, CallsTyped, SetLabels, Landed
    <2>3. /\ pc'[c] \in SetLabels \/ pc'[c] = "end"
          /\ pc[c] \in Landed => pc'[c] \in Landed \cup {"end"}
          /\ pc[c] \notin Landed => pc'[c] \notin Landed
          /\ pc'[c] # "end" => answer'[c] = Pending
          /\ pc'[c] = "end" =>
                \/ answer'[c] = "raised"
                \/ answer'[c] = "done" /\ pc[c] \in Landed
      <3>1. CASE Exists(c) \/ StatOld(c) \/ Dump(c)
        BY <2>2, <3>1 DEF Exists, StatOld, Dump
      <3>2. CASE Abandon(c) \/ StatNew(c) \/ Scan(c) \/ Add(c)
        BY <2>2, <3>2 DEF Abandon, StatNew, Scan, Add
      <3>3. CASE StartEvict(c) \/ EndEvict(c)
        BY <2>2, <3>3 DEF StartEvict, EndEvict
      <3>. QED
        BY <1>1, <3>1, <3>2, <3>3
    <2>. QED
      BY <2>1, <2>2, <2>3, SetRefines
  <1>. QED
    BY <1>1, GetRefines, ReplaceRefines, DropRefines, EvictRefines
    DEF Step, Set

LEMMA RefinesNext ==
    Shape /\ [Next]_vars => [Abstract!Next]_(Abstract!vars)
  <1>. SUFFICES ASSUME Shape, [Next]_vars
                PROVE  Abstract!Next \/ UNCHANGED <<Cell, Outcome>>
    BY DEF Abstract!vars
  <1>. USE DEF fileVars, tree, control
  <1>0. Kept
    BY DEF Shape, Kept
  <1>01. ASSUME files' = files PROVE Cell' = Cell
    BY <1>01 DEF Cell
  <1>02. ASSUME pc' = pc, answer' = answer PROVE Outcome' = Outcome
    BY <1>02 DEF Outcome
  <1>03. ASSUME NEW c \in Calls, Begin(c) PROVE UNCHANGED <<Cell, Outcome>>
    <2>1. PICK r \in Does[c] : Goto(c, r.op)
      BY <1>03 DEF Begin
    <2>2. r.op \in {"get", "set", "delete", "clear", "nuke"}
      BY CallsAssumption DEF Requests
    <2>3. /\ pc' = [pc EXCEPT ![c] = r.op] /\ answer' = answer
          /\ pc[c] = "idle" /\ pc'[c] = r.op /\ answer[c] = Pending
      BY <1>0, <1>03, <2>1 DEF Begin, Goto, Kept, CallsTyped, Located
    <2>4. Outcome[c] = Pending /\ Outcome'[c] = Pending
      BY <2>2, <2>3, OutcomeFacts, OutcomeFactsNext DEF Landed
    <2>5. \A d \in Calls : Outcome'[d] = Outcome[d]
      BY <1>0, <2>3, <2>4 DEF Outcome, Kept, CallsTyped
    <2>6. Outcome' = Outcome
      BY <2>5 DEF Outcome
    <2>. QED
      BY <1>01, <1>03, <2>6 DEF Begin
  <1>1. CASE List
    BY <1>01, <1>02, <1>1 DEF List
  <1>2. ASSUME NEW k \in Keys, Copy(k) PROVE UNCHANGED <<Cell, Outcome>>
    <2>1. Outcome' = Outcome
      BY <1>02, <1>2 DEF Copy
    <2>2. CASE files' = files
      BY <1>01, <2>1, <2>2
    <2>3. CASE files[k] # NoFile /\ files' = [files EXCEPT ![k].used = clock]
      <3>1. [files[k] EXCEPT !.used = clock] \in File
        BY <1>0, <2>3 DEF Kept, TreeTyped, File
      <3>2. NoFile \notin File
        BY NoneAssumption, NumbersAssumption DEF File
      <3>3. \A j \in Keys : Cell'[j] = Cell[j]
        BY <1>0, <2>3, <3>1, <3>2 DEF Cell, Kept, TreeTyped, File
      <3>4. Cell' = Cell
        BY <3>3 DEF Cell
      <3>. QED
        BY <2>1, <3>4
    <2>. QED
      BY <1>2, <2>2, <2>3 DEF Copy, CopyMissed, CopyRead, Mark, Present
  <1>3. CASE Finish
    BY <1>01, <1>02, <1>03, <1>3, ClearerAssumption DEF Finish
  <1>4. ASSUME NEW c \in Calls, SourceStep(c)
        PROVE  Abstract!Next \/ UNCHANGED <<Cell, Outcome>>
    BY <1>0, <1>03, <1>4, StepRefines DEF SourceStep
  <1>5. ASSUME NEW i \in Instances, ProcessDies(i) PROVE Abstract!Next
    <2>1. Cell' = Cell
      BY <1>01, <1>5 DEF ProcessDies, Crash
    <2>2. ASSUME NEW c \in Calls
          PROVE  Outcome'[c] \in {Outcome[c], "raised", "killed"}
      <3>1. CASE pc'[c] = pc[c] /\ answer'[c] = answer[c]
        BY <3>1 DEF Outcome
      <3>2. CASE answer'[c] = "killed"
        BY <3>2, OutcomeFactsNext, NoneAssumption
      <3>. QED
        BY <1>5, <3>1, <3>2 DEF ProcessDies, Crash
    <2>. QED
      BY <2>1, <2>2, Fails
  <1>6. CASE Tick \/ UNCHANGED vars
    BY <1>01, <1>02, <1>6 DEF Tick, vars
  <1>. QED
    BY <1>1, <1>2, <1>3, <1>4, <1>5, <1>6 DEF Next, Finished

\* A FileCache is one cell per key, without any lock
\* (`ImplementsCacheProtocol`).
THEOREM Refinement == Spec => ImplementsCacheProtocol
  <1>1. TransferInit => Abstract!Init
    <2>. SUFFICES ASSUME TransferInit PROVE Abstract!Init
      OBVIOUS
    <2>1. Outcome = [c \in Calls |-> Pending]
      BY OutcomeFacts DEF TransferInit, Init, Outcome, Landed
    <2>2. ASSUME NEW k \in Keys
          PROVE  Cell[k] \in [val : Earlier, mortal : BOOLEAN] \cup {NoFile}
      BY FilesAssumption DEF TransferInit, Init, Cell
    <2>3. Cell \in [Keys -> [val : Earlier, mortal : BOOLEAN] \cup {NoFile}]
      BY <2>2 DEF Cell
    <2>. QED
      BY <2>1, <2>3 DEF Abstract!Init
  <1>. QED
    BY <1>1, RefinesNext, ShapeHolds, PTL
    DEF Spec, ImplementsCacheProtocol, Abstract!Spec

-----------------------------------------------------------------------------
\* The argument of SoleWriterStaysBounded.  The calls a call comes after have
\* ended when it begins, and the first thing a set measures is the old file.
Ordered ==
    \A c \in Calls :
        /\ pc[c] # "idle" => \A d \in After[c] : pc[d] = "end"
        /\ pc[c] \in {"idle", "set", "stat"} => delta[c] = 0

Sets == {c \in Calls : req[c] # NoRequest /\ req[c].op = "set"}
Wipes == {c \in Calls : req[c] # NoRequest /\ req[c].op \in {"clear", "nuke"}}

\* The sets so far come from one thread, and nothing has cleared the cache.
SoleWriter ==
    /\ Wipes = {}
    /\ \A c, d \in Sets : c = d \/ c \in After[d] \/ d \in After[c]

Counted(c) == total[Inst(c)] + slack[Inst(c)]

\* What an eviction has found is all there is, but for what has gone since.
FoundAll(c) ==
    /\ \A e \in scanned[c] : files[e.key] # NoFile => e.size = SizeAt(e.key)
    /\ \A k \in Keys : files[k] # NoFile => \E e \in scanned[c] : e.key = k

\* The total of the instance of a running set counts what there is: before the
\* size of the old file is taken, from then to the stat of the new one (a
\* delete of the old file in between lowers only what there is), and until the
\* difference is added.
Covers(c) ==
    /\ pc[c] \in {"set", "stat", "evict", "unlink"} => Volume <= Counted(c)
    /\ pc[c] \in {"temp", "replace", "account"} =>
          Volume - SizeAt(Key(c)) + delta[c] <= Counted(c)
    /\ pc[c] \in {"temp", "replace"} => SizeAt(Key(c)) <= delta[c]
    /\ pc[c] = "account" => 0 <= delta[c]
    /\ pc[c] \in {"scan", "add"} => Volume <= Counted(c) + delta[c]
Bound(c) ==
    /\ total[Inst(c)] # Unknown => Covers(c)
    /\ pc[c] = "unlink" => FoundAll(c)

AtRest(c) ==
    /\ total[Inst(c)] # Unknown => Volume <= Counted(c)
    /\ (\A d \in Sets : answer[d] = "done") =>
          Volume <= SizeLimit + slack[Inst(c)]

Bounds ==
    SoleWriter =>
        /\ \A i \in Instances :
              (\A c \in Sets : Inst(c) # i) => total[i] = Unknown
        /\ \A c \in Sets \cap Running : Bound(c)
        /\ Sets \cap Running = {} => \A c \in Sets : AtRest(c)

LEMMA OrderedNext == Shape /\ Ordered /\ [Next]_vars => Ordered'
  <1>. SUFFICES ASSUME Shape, Ordered, [Next]_vars PROVE Ordered'
    OBVIOUS
  <1>. USE DEF fileVars, control
  <1>0. Kept
    BY DEF Shape, Kept
  <1>1. ASSUME NEW c \in Calls, Begin(c) PROVE Ordered'
    <2>1. /\ \A d \in Calls \ {c} : pc'[d] = pc[d]
          /\ delta' = delta /\ pc[c] = "idle"
          /\ \A d \in After[c] : pc[d] = "end"
      BY <1>0, <1>1 DEF Begin, Goto, Kept, CallsTyped
    <2>2. \A d \in Calls : pc[d] = "end" => pc'[d] = "end"
      BY <2>1
    <2>. QED
      BY <2>1, <2>2, ThreadsAssumption DEF Ordered
  <1>2. ASSUME NEW c \in Calls, Step(c) PROVE Ordered'
    <2>1. /\ pc[c] \notin {"idle", "end"}
          /\ \A d \in Calls \ {c} : pc'[d] = pc[d] /\ delta'[d] = delta[d]
      BY <1>0, <1>2, StepLocal
      DEF Step, Set, Touch, Read, Exists, StatOld, Dump, Abandon, Replace,
          StatNew, Scan, Add, StartEvict, EvictOne, EndEvict, Delete,
          StartClear, ClearOne, EndClear, Nuke
    <2>2. pc'[c] \in {"idle", "set", "stat"} => delta'[c] = 0
      <3>. USE DEF Goto, Reply, Kept, CallsTyped
      <3>1. CASE Touch(c) \/ Read(c) \/ StatOld(c) \/ Dump(c) \/ Exists(c)
        BY <1>0, <3>1 DEF Touch, Read, StatOld, Dump, Exists, Ordered
      <3>2. CASE Abandon(c) \/ Replace(c) \/ StatNew(c) \/ Scan(c) \/ Add(c)
        BY <1>0, <3>2 DEF Abandon, Replace, StatNew, Scan, Add
      <3>3. CASE StartEvict(c) \/ EvictOne(c) \/ EndEvict(c)
        BY <1>0, <3>3 DEF StartEvict, EvictOne, EndEvict
      <3>4. CASE \/ Delete(c) \/ StartClear(c) \/ ClearOne(c) \/ EndClear(c)
                 \/ Nuke(c)
        BY <1>0, <3>4 DEF Delete, StartClear, ClearOne, EndClear, Nuke
      <3>. QED
        BY <1>2, <3>1, <3>2, <3>3, <3>4 DEF Step, Set
    <2>3. \A d \in Calls : pc[d] = "end" => pc'[d] = "end"
      BY <2>1
    <2>. QED
      BY <2>1, <2>2, <2>3, ThreadsAssumption DEF Ordered
  <1>3. ASSUME NEW i \in Instances, Crash(i) PROVE Ordered'
    <2>1. /\ \A d \in Calls : \/ pc'[d] = pc[d]
                              \/ pc'[d] = "end" /\ pc[d] # "idle"
          /\ delta' = delta
      BY <1>3 DEF Crash, Running
    <2>. QED
      BY <2>1, ThreadsAssumption DEF Ordered
  <1>4. CASE pc' = pc /\ delta' = delta
    BY <1>4 DEF Ordered
  <1>. QED
    BY <1>1, <1>2, <1>3, <1>4, ClearerAssumption
    DEF Next, List, Copy, Finish, SourceStep, ProcessDies, Tick, Finished, vars

\* While one thread writes, at most one set runs, and all use one instance.
LEMMA OneRuns ==
    ASSUME Kept, Ordered, SoleWriter, NEW c \in Sets, NEW d \in Sets, c # d
    PROVE  /\ Inst(c) = Inst(d)
           /\ c \in Running => pc[d] = "end"
  <1>1. pc[c] # "idle" /\ pc[d] # "idle" /\ c \in Calls /\ d \in Calls
    BY DEF Sets, Kept, Located
  <1>2. c \in After[d] \/ d \in After[c]
    BY DEF SoleWriter
  <1>3. Inst(c) = Inst(d)
    BY <1>1, <1>2, ThreadsAssumption DEF Inst
  <1>4. c \in Running => pc[d] = "end"
    BY <1>1, <1>2 DEF Ordered, Running
  <1>. QED
    BY <1>3, <1>4

\* What one file adds to the size of the cache.
LEMMA VolumeChange ==
    ASSUME files \in [Keys -> File \cup {NoFile}],
           files' \in [Keys -> File \cup {NoFile}], NEW k \in Keys,
           \A j \in Keys \ {k} : SizeAt(j)' = SizeAt(j)
    PROVE  /\ Volume \in Int /\ Volume' \in Int
           /\ SizeAt(k) \in Nat /\ SizeAt(k)' \in Nat
           /\ Volume' = Volume - SizeAt(k) + SizeAt(k)'
  <1>1. PICK f : f = [j \in Keys |-> IF files[j] = NoFile THEN 0
                                                      ELSE files[j].size]
    OBVIOUS
  <1>2. PICK g : g = [j \in Keys |-> IF files'[j] = NoFile THEN 0
                                                       ELSE files'[j].size]
    OBVIOUS
  <1>3. \A j \in Keys : f[j] \in Nat /\ g[j] \in Nat
    BY <1>1, <1>2 DEF File
  <1>4. \A j \in Keys \ {k} : f[j] = g[j]
    BY <1>1, <1>2 DEF SizeAt
  <1>5. f[k] = SizeAt(k) /\ g[k] = SizeAt(k)'
    BY <1>1, <1>2 DEF SizeAt
  <1>6. Volume = SumFunctionOnSet(f, Keys) /\ Volume' = SumFunctionOnSet(g, Keys)
    BY <1>1, <1>2 DEF Volume, SizeAt, SumFunction
  <1>7. /\ SumFunctionOnSet(g, Keys) = SumFunctionOnSet(f, Keys) - f[k] + g[k]
        /\ SumFunctionOnSet(f, Keys) \in Int
        /\ SumFunctionOnSet(g, Keys) \in Int
    BY <1>3, <1>4, FilesAssumption, SumChange, SumInt
  <1>. QED
    BY <1>3, <1>5, <1>6, <1>7

LEMMA VolumeStays ==
    ASSUME files \in [Keys -> File \cup {NoFile}],
           files' \in [Keys -> File \cup {NoFile}],
           \A j \in Keys : SizeAt(j)' = SizeAt(j)
    PROVE  Volume' = Volume
  <1>1. CASE Keys = {}
    <2>1. Volume = 0
      <3>1. PICK f : f = [j \in Keys |-> SizeAt(j)]
        OBVIOUS
      <3>2. SumFunctionOnSet(f, Keys) = 0
        BY <1>1, FilesAssumption, SumZero
      <3>. QED
        BY <3>1, <3>2 DEF Volume, SumFunction
    <2>2. Volume' = 0
      <3>1. PICK f : f = [j \in Keys |-> SizeAt(j)']
        OBVIOUS
      <3>2. SumFunctionOnSet(f, Keys) = 0
        BY <1>1, FilesAssumption, SumZero
      <3>. QED
        BY <3>1, <3>2 DEF Volume, SumFunction, SizeAt
    <2>. QED
      BY <2>1, <2>2
  <1>2. CASE Keys # {}
    <2>1. PICK k \in Keys : TRUE
      BY <1>2
    <2>2. Volume' = Volume - SizeAt(k) + SizeAt(k)'
      BY VolumeChange
    <2>. QED
      BY <2>1, <2>2, VolumeChange
  <1>. QED
    BY <1>1, <1>2

\* A cache without files is empty.
LEMMA VolumeEmpty ==
    ASSUME \A k \in Keys : files[k] = NoFile
    PROVE  Volume = 0
  <1>1. PICK f : f = [j \in Keys |-> SizeAt(j)]
    OBVIOUS
  <1>2. \A j \in Keys : f[j] = 0
    BY <1>1 DEF SizeAt
  <1>3. SumFunctionOnSet(f, Keys) = 0
    BY <1>2, FilesAssumption, SumZero
  <1>. QED
    BY <1>1, <1>3 DEF Volume, SumFunction

\* A step that takes at most one file away, and counts for nothing in any
\* total but by making it unknown.
Shrinks1(j) ==
    /\ \A k \in Keys \ {j} : files'[k] = files[k]
    /\ StaysOrGoes(j)
Quiet ==
    /\ UNCHANGED <<slack, req, delta>>
    /\ \A i \in Instances : total'[i] \in {total[i], Unknown}
    /\ files' = files \/ \E j \in Keys : Shrinks1(j)

LEMMA QuietVolume ==
    ASSUME TreeTyped, TreeTyped', Quiet
    PROVE  /\ Volume \in Nat /\ Volume' \in Nat /\ Volume' <= Volume
           /\ \A k \in Keys :
                 /\ StaysOrGoes(k) /\ SizeAt(k) \in Nat /\ SizeAt(k)' \in Nat
                 /\ Volume' - SizeAt(k)' <= Volume - SizeAt(k)
                 /\ SizeAt(k)' <= SizeAt(k)
                 /\ files'[k] # NoFile => SizeAt(k)' = SizeAt(k)
                                          /\ files[k] # NoFile
  <1>. USE DEF TreeTyped
  <1>1. Volume \in Nat /\ \A k \in Keys : SizeAt(k) \in Nat
    BY VolumeNat
  <1>2. Volume' \in Nat /\ \A k \in Keys : SizeAt(k)' \in Nat
    <2>1. \A k \in Keys : SizeAt(k)' \in Nat
      BY DEF SizeAt, File
    <2>2. PICK g : g = [j \in Keys |-> SizeAt(j)']
      OBVIOUS
    <2>3. SumFunctionOnSet(g, Keys) \in Nat
      BY <2>1, <2>2, FilesAssumption, SumNat
    <2>. QED
      BY <2>1, <2>2, <2>3 DEF Volume, SumFunction, SizeAt
  <1>3. CASE files' = files
    <2>1. \A k \in Keys : SizeAt(k)' = SizeAt(k)
      BY <1>3 DEF SizeAt
    <2>. QED
      BY <1>1, <1>2, <1>3, <2>1, VolumeStays DEF StaysOrGoes
  <1>4. ASSUME NEW j \in Keys, Shrinks1(j)
        PROVE  /\ Volume' <= Volume
               /\ \A k \in Keys :
                     /\ StaysOrGoes(k)
                     /\ Volume' - SizeAt(k)' <= Volume - SizeAt(k)
                     /\ SizeAt(k)' <= SizeAt(k)
                     /\ files'[k] # NoFile => SizeAt(k)' = SizeAt(k)
                                              /\ files[k] # NoFile
    <2>1. \A k \in Keys \ {j} : SizeAt(k)' = SizeAt(k) /\ StaysOrGoes(k)
      BY <1>4 DEF Shrinks1, SizeAt, StaysOrGoes
    <2>2. Volume' = Volume - SizeAt(j) + SizeAt(j)'
      BY <2>1, VolumeChange
    <2>3. SizeAt(j)' <= SizeAt(j)
      BY <1>1, <1>4 DEF Shrinks1, StaysOrGoes, SizeAt
    <2>4. files'[j] # NoFile => SizeAt(j)' = SizeAt(j) /\ files[j] # NoFile
      BY <1>4 DEF Shrinks1, StaysOrGoes, SizeAt
    <2>5. \A k \in Keys : StaysOrGoes(k)
      BY <1>4, <2>1 DEF Shrinks1
    <2>6. \A k \in Keys :
              files'[k] # NoFile => SizeAt(k)' = SizeAt(k) /\ files[k] # NoFile
      BY <1>4, <2>1, <2>4 DEF Shrinks1
    <2>7. \A k \in Keys : Volume' - SizeAt(k)' <= Volume - SizeAt(k)
      <3>. SUFFICES ASSUME NEW k \in Keys
                    PROVE  Volume' - SizeAt(k)' <= Volume - SizeAt(k)
        OBVIOUS
      <3>1. CASE k = j
        BY <1>1, <1>2, <2>2, <3>1
      <3>2. CASE k # j
        <4>1. SizeAt(k)' = SizeAt(k)
          BY <2>1, <3>2
        <4>. QED
          BY <1>1, <1>2, <2>2, <2>3, <4>1
      <3>. QED
        BY <3>1, <3>2
    <2>8. \A k \in Keys : SizeAt(k)' <= SizeAt(k)
      <3>. SUFFICES ASSUME NEW k \in Keys PROVE SizeAt(k)' <= SizeAt(k)
        OBVIOUS
      <3>. QED
        BY <1>1, <1>2, <2>1, <2>3
    <2>. QED
      BY <1>1, <1>2, <2>2, <2>3, <2>5, <2>6, <2>7, <2>8
  <1>. QED
    BY <1>1, <1>2, <1>3, <1>4 DEF Quiet

\* It leaves a running set covered,
LEMMA QuietBound ==
    ASSUME Kept, Kept', Quiet, NEW c \in Calls, Live(c), Bound(c),
           pc'[c] = pc[c], scanned'[c] = scanned[c]
    PROVE  Bound(c)'
  <1>0. /\ Volume \in Nat /\ Volume' \in Nat /\ Volume' <= Volume
        /\ \A k \in Keys :
              /\ SizeAt(k) \in Nat /\ SizeAt(k)' \in Nat
              /\ Volume' - SizeAt(k)' <= Volume - SizeAt(k)
              /\ SizeAt(k)' <= SizeAt(k)
              /\ files'[k] # NoFile => SizeAt(k)' = SizeAt(k)
                                       /\ files[k] # NoFile
              /\ StaysOrGoes(k)
    BY QuietVolume DEF Kept
  <1>1. /\ Key(c) \in Keys /\ Inst(c) \in Instances /\ delta[c] \in Int
        /\ slack[Inst(c)] \in Nat
    BY LiveCall DEF Kept, CallsTyped, TreeTyped
  <1>2. Key(c)' = Key(c) /\ delta'[c] = delta[c]
    BY DEF Quiet, Key
  <1>3. ASSUME total'[Inst(c)] # Unknown PROVE Covers(c)'
    <2>1. /\ total[Inst(c)] # Unknown /\ total[Inst(c)] \in Int
          /\ Counted(c)' = Counted(c)
      BY <1>1, <1>3 DEF Quiet, Counted, Inst, Kept, TreeTyped
    <2>2. Covers(c) /\ Counted(c) \in Int
      BY <1>1, <2>1 DEF Bound, Counted
    <2>3. /\ SizeAt(Key(c)) \in Nat /\ SizeAt(Key(c))' \in Nat
          /\ Volume' - SizeAt(Key(c))' <= Volume - SizeAt(Key(c))
          /\ SizeAt(Key(c))' <= SizeAt(Key(c))
      <3>1. PICK k \in Keys : k = Key(c) /\ k = Key(c)'
        BY <1>1, <1>2
      <3>2. SizeAt(Key(c)) = SizeAt(k) /\ SizeAt(Key(c))' = SizeAt(k)'
        BY <3>1 DEF SizeAt
      <3>. QED
        BY <1>0, <3>1, <3>2
    <2>4. /\ pc'[c] \in {"set", "stat", "evict", "unlink"} =>
                Volume' <= Counted(c)'
          /\ pc'[c] \in {"temp", "replace", "account"} =>
                Volume' - SizeAt(Key(c))' + delta'[c] <= Counted(c)'
          /\ pc'[c] \in {"temp", "replace"} => SizeAt(Key(c))' <= delta'[c]
          /\ pc'[c] = "account" => 0 <= delta'[c]
          /\ pc'[c] \in {"scan", "add"} => Volume' <= Counted(c)' + delta'[c]
      BY <1>0, <1>1, <1>2, <2>1, <2>2, <2>3 DEF Covers
    <2>. QED
      BY <2>4 DEF Covers
  <1>4. ASSUME pc'[c] = "unlink" PROVE FoundAll(c)'
    <2>1. FoundAll(c)
      BY <1>4 DEF Bound
    <2>2. ASSUME NEW e \in scanned'[c], files'[e.key] # NoFile
          PROVE  e.size = SizeAt(e.key)'
      <3>1. e \in scanned[c] /\ e.key \in Keys
        BY <2>2 DEF Kept, CallsTyped, Stat
      <3>2. PICK k \in Keys : k = e.key
        BY <3>1
      <3>3. SizeAt(k)' = SizeAt(k) /\ files[k] # NoFile
        BY <1>0, <2>2, <3>2
      <3>4. e.size = SizeAt(k)
        BY <2>1, <3>1, <3>2, <3>3 DEF FoundAll
      <3>. QED
        BY <3>2, <3>3, <3>4
    <2>3. \A k \in Keys : files'[k] # NoFile => \E e \in scanned'[c] : e.key = k
      BY <1>0, <2>1 DEF FoundAll
    <2>. QED
      BY <2>2, <2>3 DEF FoundAll
  <1>5. Inst(c)' = Inst(c)
    BY DEF Inst
  <1>. QED
    BY <1>3, <1>4, <1>5 DEF Bound

\* and a cache at rest within its limit.
LEMMA QuietRest ==
    ASSUME Kept, Kept', Quiet, NEW c \in Calls, AtRest(c),
           \A d \in Sets : answer'[d] = "done" => answer[d] = "done"
    PROVE  AtRest(c)'
  <1>1. /\ Volume \in Nat /\ Volume' \in Nat /\ Volume' <= Volume
    BY QuietVolume DEF Kept
  <1>2. /\ Inst(c) \in Instances /\ slack[Inst(c)] \in Nat
        /\ total[Inst(c)] \in Int \cup {Unknown} /\ Inst(c)' = Inst(c)
    BY CallsAssumption DEF Kept, TreeTyped, Inst
  <1>3. total'[Inst(c)] # Unknown => Volume' <= Counted(c)'
    <2>. SUFFICES ASSUME total'[Inst(c)] # Unknown
                  PROVE  Volume' <= Counted(c)'
      OBVIOUS
    <2>1. Counted(c)' = Counted(c) /\ total[Inst(c)] # Unknown
      BY <1>2 DEF Quiet, Counted, Inst
    <2>2. Volume <= Counted(c) /\ Counted(c) \in Int
      BY <1>2, <2>1 DEF AtRest, Counted
    <2>. QED
      BY <1>1, <2>1, <2>2
  <1>4. (\A d \in Sets : answer'[d] = "done") =>
            Volume' <= SizeLimit + slack'[Inst(c)]
    BY <1>1, <1>2, NumbersAssumption DEF AtRest, Quiet
  <1>5. Sets' = Sets
    BY DEF Sets, Quiet
  <1>. QED
    BY <1>2, <1>3, <1>4, <1>5 DEF AtRest

LEMMA QuietBounds ==
    ASSUME Kept, Kept', Ordered, Bounds, Quiet,
           \A c \in Sets :
              \/ /\ pc'[c] = pc[c] /\ scanned'[c] = scanned[c]
                 /\ answer'[c] = answer[c]
              \/ /\ c \in Running /\ pc'[c] = "end"
                 /\ answer'[c] = "killed" /\ total'[Inst(c)] = Unknown
    PROVE  Bounds'
  <1>1. /\ Sets' = Sets /\ Wipes' = Wipes /\ Sets \subseteq Calls
        /\ \A c \in Calls : Inst(c)' = Inst(c)
    BY DEF Sets, Wipes, Quiet, Inst
  <1>. SUFFICES ASSUME SoleWriter PROVE
          /\ \A i \in Instances :
                (\A c \in Sets : Inst(c) # i) => total'[i] = Unknown
          /\ \A c \in Sets \cap Running' : Bound(c)'
          /\ Sets \cap Running' = {} => \A c \in Sets : AtRest(c)'
    BY <1>1 DEF Bounds, SoleWriter, Inst
  <1>2. \A i \in Instances :
            (\A c \in Sets : Inst(c) # i) => total'[i] = Unknown
    BY DEF Bounds, Quiet
  <1>3. ASSUME NEW c \in Sets \cap Running' PROVE Bound(c)'
    <2>1. /\ pc'[c] = pc[c] /\ scanned'[c] = scanned[c] /\ c \in Calls
          /\ Live(c) /\ c \in Running
      BY <1>1, <1>3 DEF Running, Live
    <2>2. Bound(c)
      BY <1>3, <2>1 DEF Bounds
    <2>. QED
      BY <2>1, <2>2, QuietBound
  <1>4. ASSUME Sets \cap Running' = {}, NEW c \in Sets PROVE AtRest(c)'
    <2>1. CASE Sets \cap Running = {}
      <3>1. AtRest(c) /\ c \in Calls
        BY <1>1, <2>1 DEF Bounds
      <3>2. \A d \in Sets : answer'[d] = "done" => answer[d] = "done"
        BY <2>1
      <3>. QED
        BY <3>1, <3>2, QuietRest
    <2>2. CASE Sets \cap Running # {}
      <3>1. PICK r \in Sets : r \in Running
        BY <2>2
      <3>2. answer'[r] = "killed" /\ total'[Inst(r)] = Unknown
        BY <1>1, <1>4, <3>1 DEF Running
      <3>3. Inst(c) = Inst(r)
        BY <3>1, OneRuns
      <3>. QED
        BY <1>1, <3>1, <3>2, <3>3 DEF AtRest
    <2>. QED
      BY <2>1, <2>2
  <1>. QED
    BY <1>2, <1>3, <1>4

\* The steps of the other calls are quiet.
LEMMA OthersBounds ==
    ASSUME Kept, Kept', Ordered, Bounds, NEW c \in Calls, Step(c),
           req[c].op \in {"get", "delete"}
    PROVE  Bounds'
  <1>1. pc[c] \in {"get", "read", "delete"} /\ Live(c) /\ c \notin Sets
    BY DEF Step, Set, Touch, Read, Exists, StatOld, Dump, Abandon, Replace,
       StatNew, Scan, Add, StartEvict, EvictOne, EndEvict, Delete, StartClear,
       ClearOne, EndClear, Nuke, Kept, Located, Working, Live, Sets, SetLabels
  <1>2. Touch(c) \/ Read(c) \/ Delete(c)
    BY <1>1 DEF Step, Set, Exists, StatOld, Dump, Abandon, Replace, StatNew,
       Scan, Add, StartEvict, EvictOne, EndEvict, StartClear, ClearOne,
       EndClear, Nuke
  <1>3. Key(c) \in Keys /\ Inst(c) \in Instances
    BY <1>1, LiveCall
  <1>4. files' = files \/ Shrinks1(Key(c))
    <2>1. CASE Touch(c)
      <3>1. \/ files' = files
            \/ files' = [files EXCEPT ![Key(c)].used = clock]
        BY <2>1 DEF Touch
      <3>2. StaysOrGoes(Key(c))
        BY <1>1, <1>3, StepFiles
      <3>. QED
        BY <3>1, <3>2 DEF Shrinks1, Kept, TreeTyped
    <2>2. CASE Read(c)
      BY <2>2 DEF Read, tree
    <2>3. CASE Delete(c)
      BY <1>3, <2>3
      DEF Delete, Unlink, Shrinks1, StaysOrGoes, Kept, TreeTyped
    <2>. QED
      BY <1>2, <2>1, <2>2, <2>3
  <1>5. Quiet
    <2>1. UNCHANGED <<slack, req, delta>>
      BY <1>2 DEF Touch, Read, Delete
    <2>2. \A i \in Instances : total'[i] \in {total[i], Unknown}
      BY <1>2, <1>3 DEF Touch, Read, Delete, Remember, Kept, TreeTyped
    <2>. QED
      BY <1>3, <1>4, <2>1, <2>2 DEF Quiet
  <1>6. \A d \in Sets : /\ pc'[d] = pc[d] /\ scanned'[d] = scanned[d]
                        /\ answer'[d] = answer[d]
    BY <1>1, StepLocal DEF Sets
  <1>. QED
    BY <1>5, <1>6, QuietBounds

\* The steps of a clear or a nuke end the case.
LEMMA WipedBounds ==
    ASSUME Kept, NEW c \in Calls, Step(c), req[c].op \in {"clear", "nuke"}
    PROVE  Bounds'
  <1>1. req' = req /\ Live(c)
    BY StepLocal DEF Live, Step, Set, Touch, Read, Exists, StatOld, Dump,
       Abandon, Replace, StatNew, Scan, Add, StartEvict, EvictOne, EndEvict,
       Delete, StartClear, ClearOne, EndClear, Nuke
  <1>2. c \in Wipes'
    BY <1>1 DEF Wipes, Kept, Located, Live
  <1>. QED
    BY <1>2 DEF Bounds, SoleWriter

\* What a running set leaves behind: it stays covered, or ends within the
\* limit.
WriterEnds(c) ==
    /\ total'[Inst(c)] # Unknown => Volume' <= Counted(c)'
    /\ answer'[c] = "done" => Volume' <= SizeLimit + slack'[Inst(c)]
WriterStays(c) ==
    IF pc'[c] = "end" THEN WriterEnds(c) ELSE Bound(c)'

\* The numbers of a running set.
LEMMA WriterNumbers ==
    ASSUME Kept, NEW c \in Calls, Live(c)
    PROVE  /\ Volume \in Nat /\ SizeAt(Key(c)) \in Nat /\ delta[c] \in Int
           /\ Inst(c) \in Instances /\ Key(c) \in Keys /\ req[c].size \in Nat
           /\ slack[Inst(c)] \in Nat /\ SizeLimit \in Nat
           /\ total[Inst(c)] \in Int \cup {Unknown}
           /\ total[Inst(c)] # Unknown => Counted(c) \in Int
           /\ files[Key(c)] = NoFile => SizeAt(Key(c)) = 0
           /\ files[Key(c)] # NoFile => SizeAt(Key(c)) = files[Key(c)].size
           /\ (pc[c] \in {"set", "stat"} /\ Ordered => delta[c] = 0)
  <1>1. Inst(c) \in Instances /\ Key(c) \in Keys /\ req[c].size \in Nat
    BY LiveCall
  <1>2. Volume \in Nat /\ SizeAt(Key(c)) \in Nat
    <2>1. PICK k \in Keys : k = Key(c)
      BY <1>1
    <2>2. SizeAt(Key(c)) = SizeAt(k)
      BY <2>1 DEF SizeAt
    <2>. QED
      BY <2>1, <2>2, VolumeNat DEF Kept, TreeTyped
  <1>. QED
    BY <1>1, <1>2, NumbersAssumption
    DEF Kept, TreeTyped, CallsTyped, Counted, SizeAt, Ordered

\* A set that has not replaced its file yet.
LEMMA WriterBefore ==
    ASSUME Kept, Ordered, NEW c \in Calls, Bound(c),
           Exists(c) \/ StatOld(c) \/ Dump(c) \/ Abandon(c)
    PROVE  WriterStays(c)
  <1>. USE DEF tree
  <1>1. /\ Live(c) /\ files' = files /\ total' = total /\ slack' = slack
        /\ req' = req
    BY DEF Exists, StatOld, Dump, Abandon, Live
  <1>2. /\ Volume' = Volume /\ SizeAt(Key(c))' = SizeAt(Key(c))
        /\ Counted(c)' = Counted(c) /\ Inst(c)' = Inst(c)
    BY <1>1 DEF Volume, SizeAt, Counted, Inst, Key
  <1>. USE WriterNumbers
  <1>3. CASE Exists(c) \/ (Dump(c) /\ pc'[c] # "end")
    <2>1. pc'[c] \in {"temp", "stat", "replace"} /\ delta' = delta
      BY <1>3 DEF Exists, Dump, Goto, Reply, Kept, CallsTyped
    <2>2. /\ pc'[c] = "temp" => pc[c] = "set" /\ files[Key(c)] = NoFile
          /\ pc'[c] = "stat" => pc[c] = "set"
          /\ pc'[c] = "replace" => pc[c] = "temp"
      BY <1>3 DEF Exists, Dump, Goto, Reply, Kept, CallsTyped
    <2>3. total[Inst(c)] # Unknown => Covers(c)'
      <3>. SUFFICES ASSUME total[Inst(c)] # Unknown PROVE Covers(c)'
        OBVIOUS
      <3>1. Covers(c)
        BY DEF Bound
      <3>. QED
        BY <1>1, <1>2, <2>1, <2>2, <3>1 DEF Covers
    <2>. QED
      BY <1>1, <1>2, <2>1, <2>3 DEF WriterStays, Bound
  <1>4. CASE StatOld(c) /\ pc'[c] # "end"
    <2>1. /\ pc[c] = "stat" /\ pc'[c] = "temp" /\ files[Key(c)] # NoFile
          /\ delta'[c] = files[Key(c)].size
      BY <1>4 DEF StatOld, Goto, Reply, Kept, CallsTyped
    <2>2. total[Inst(c)] # Unknown => Covers(c)'
      BY <1>1, <1>2, <2>1 DEF Bound, Covers
    <2>. QED
      BY <1>1, <1>2, <2>1, <2>2 DEF WriterStays, Bound
  <1>5. CASE pc'[c] = "end"
    <2>1. answer'[c] = "raised" /\ pc[c] \in {"stat", "temp", "replace"}
      BY <1>5 DEF Exists, StatOld, Dump, Abandon, Goto, Reply, Kept, CallsTyped
    <2>2. total[Inst(c)] # Unknown => Volume <= Counted(c)
      BY <1>1, <2>1 DEF Bound, Covers
    <2>. QED
      BY <1>1, <1>2, <1>5, <2>1, <2>2 DEF WriterStays, WriterEnds
  <1>. QED
    BY <1>3, <1>4, <1>5 DEF Abandon, Reply, Kept, CallsTyped

\* The replace: the new file is counted by the difference.
LEMMA WriterReplaces ==
    ASSUME Kept, Kept', NEW c \in Calls, Bound(c), Replace(c)
    PROVE  WriterStays(c)
  <1>. USE DEF tree
  <1>1. /\ Live(c) /\ pc[c] = "replace" /\ pc'[c] = "account"
        /\ total' = total /\ slack' = slack /\ req' = req /\ delta' = delta
    BY DEF Replace, Live, Goto, Kept, CallsTyped
  <1>2. PICK k \in Keys : k = Key(c) /\ Key(c)' = k
    BY <1>1, LiveCall DEF Key
  <1>3. Counted(c)' = Counted(c) /\ Inst(c)' = Inst(c)
    BY <1>1 DEF Counted, Inst
  <1>4. \A j \in Keys \ {k} : SizeAt(j)' = SizeAt(j)
    BY <1>2 DEF Replace, SizeAt, Kept, TreeTyped
  <1>5. /\ Volume \in Int /\ Volume' \in Int
        /\ SizeAt(k) \in Nat /\ SizeAt(k)' \in Nat
        /\ Volume' = Volume - SizeAt(k) + SizeAt(k)'
    BY <1>4, VolumeChange DEF Kept, TreeTyped
  <1>6. SizeAt(Key(c)) = SizeAt(k) /\ SizeAt(Key(c))' = SizeAt(k)'
    BY <1>2 DEF SizeAt
  <1>7. ASSUME total[Inst(c)] # Unknown PROVE Covers(c)'
    <2>1. /\ Volume - SizeAt(k) + delta[c] <= Counted(c)
          /\ SizeAt(k) <= delta[c]
      BY <1>1, <1>6, <1>7 DEF Bound, Covers
    <2>2. delta[c] \in Int /\ Counted(c) \in Int
      BY <1>1, <1>7, WriterNumbers
    <2>3. /\ Volume' - SizeAt(Key(c))' + delta'[c] <= Counted(c)'
          /\ 0 <= delta'[c]
      BY <1>1, <1>3, <1>5, <1>6, <2>1, <2>2
    <2>. QED
      BY <1>1, <2>3 DEF Covers
  <1>. QED
    BY <1>1, <1>3, <1>7 DEF WriterStays, Bound

\* Accounting for it.
LEMMA WriterAccounts ==
    ASSUME Kept, NEW c \in Calls, Bound(c), StatNew(c) \/ Scan(c) \/ Add(c)
    PROVE  WriterStays(c)
  <1>. USE DEF tree
  <1>1. /\ Live(c) /\ files' = files /\ req' = req
    BY DEF StatNew, Scan, Add, Live
  <1>2. Volume' = Volume /\ Inst(c)' = Inst(c)
    BY <1>1 DEF Volume, SizeAt, Inst
  <1>. USE WriterNumbers
  <1>3. CASE StatNew(c)
    <2>1. total' = total /\ slack' = slack /\ Counted(c)' = Counted(c)
      BY <1>3 DEF StatNew, Counted, Inst
    <2>2. CASE files[Key(c)] = NoFile
      <3>1. pc[c] = "account" /\ pc'[c] = "end" /\ answer'[c] = "raised"
        BY <1>3, <2>2 DEF StatNew, Reply, Kept, CallsTyped
      <3>2. total[Inst(c)] # Unknown => Volume <= Counted(c)
        BY <1>1, <2>2, <3>1 DEF Bound, Covers
      <3>. QED
        BY <1>2, <2>1, <3>1, <3>2 DEF WriterStays, WriterEnds
    <2>3. CASE files[Key(c)] # NoFile
      <3>1. /\ pc[c] = "account" /\ pc'[c] \in {"scan", "add"}
            /\ delta'[c] = files[Key(c)].size - delta[c]
        BY <1>3, <2>3 DEF StatNew, Goto, Kept, CallsTyped
      <3>2. total[Inst(c)] # Unknown => Volume <= Counted(c) + delta'[c]
        BY <1>1, <2>3, <3>1 DEF Bound, Covers
      <3>. QED
        BY <1>2, <2>1, <3>1, <3>2 DEF WriterStays, Bound, Covers
    <2>. QED
      BY <2>2, <2>3
  <1>4. CASE Scan(c)
    <2>1. /\ pc'[c] = "add" /\ delta' = delta
          /\ total'[Inst(c)] = Volume /\ slack'[Inst(c)] = Shrinks(c)
      BY <1>1, <1>4 DEF Scan, Remember, Goto, Kept, CallsTyped, TreeTyped
    <2>2. Shrinks(c) \in Nat /\ Shrinks(c) >= 0 - delta[c]
      BY <1>1, ShrinksNat
    <2>3. Counted(c)' = Volume + Shrinks(c)
      BY <1>2, <2>1 DEF Counted, Inst
    <2>4. Volume' <= Counted(c)' + delta'[c]
      BY <1>1, <1>2, <2>1, <2>2, <2>3
    <2>. QED
      BY <2>1, <2>4 DEF WriterStays, Bound, Covers
  <1>5. CASE Add(c)
    <2>1. CASE total[Inst(c)] = Unknown
      <3>1. pc'[c] = "end" /\ answer'[c] = "raised" /\ total' = total
        BY <1>1, <1>5, <2>1 DEF Add, Reply, Kept, CallsTyped
      <3>. QED
        BY <2>1, <3>1 DEF WriterStays, WriterEnds, Inst
    <2>2. CASE total[Inst(c)] # Unknown
      <3>1. /\ total'[Inst(c)] = total[Inst(c)] + delta[c]
            /\ slack' = slack /\ pc[c] = "add"
        BY <1>1, <1>5, <2>2 DEF Add, Remember, Kept, TreeTyped
      <3>2. Counted(c)' = Counted(c) + delta[c] /\ Volume <= Counted(c)'
        <4>1. Volume <= Counted(c) + delta[c]
          BY <2>2, <3>1 DEF Bound, Covers
        <4>2. Counted(c)' = total'[Inst(c)] + slack[Inst(c)]
          BY <3>1 DEF Counted, Inst
        <4>3. Counted(c) = total[Inst(c)] + slack[Inst(c)]
          BY DEF Counted
        <4>4. total[Inst(c)] \in Int /\ slack[Inst(c)] \in Nat /\ delta[c] \in Int
          BY <1>1, <2>2
        <4>. QED
          BY <3>1, <4>1, <4>2, <4>3, <4>4
      <3>3. \/ pc'[c] = "evict"
            \/ /\ pc'[c] = "end" /\ total'[Inst(c)] <= SizeLimit
        BY <1>1, <1>5, <2>2, <3>1
        DEF Add, Goto, Reply, Kept, CallsTyped
      <3>4. CASE pc'[c] = "evict"
        BY <1>2, <3>2, <3>4 DEF WriterStays, Bound, Covers
      <3>5. CASE pc'[c] = "end" /\ total'[Inst(c)] <= SizeLimit
        <4>1. Volume <= SizeLimit + slack'[Inst(c)]
          <5>1. Counted(c)' = total'[Inst(c)] + slack'[Inst(c)]
            BY DEF Counted, Inst
          <5>2. total'[Inst(c)] \in Int /\ slack'[Inst(c)] \in Nat
            BY <1>1, <2>2, <3>1
          <5>. QED
            BY <1>1, <3>2, <3>5, <5>1, <5>2
        <4>. QED
          BY <1>2, <3>2, <3>5, <4>1 DEF WriterStays, WriterEnds
      <3>. QED
        BY <3>3, <3>4, <3>5
    <2>. QED
      BY <2>1, <2>2
  <1>. QED
    BY <1>3, <1>4, <1>5

\* An eviction starts from what there is,
LEMMA WriterStartsEvict ==
    ASSUME Kept, NEW c \in Calls, StartEvict(c)
    PROVE  WriterStays(c)
  <1>. USE DEF tree
  <1>1. /\ Live(c) /\ files' = files
        /\ total'[Inst(c)] = Volume /\ slack'[Inst(c)] = 0
    BY LiveCall DEF StartEvict, Remember, Live, Kept, TreeTyped
  <1>2. Volume' = Volume /\ Inst(c)' = Inst(c) /\ Counted(c)' = Volume + 0
    BY <1>1 DEF Volume, SizeAt, Inst, Counted
  <1>3. Volume \in Nat /\ SizeLimit \in Nat
    BY <1>1, WriterNumbers
  <1>4. CASE Volume <= SizeLimit /\ Reply(c, "done")
    <2>1. pc'[c] = "end"
      BY <1>4 DEF Reply, Kept, CallsTyped
    <2>2. Volume' <= Counted(c)' /\ Volume' <= SizeLimit + slack'[Inst(c)]
      BY <1>1, <1>2, <1>3, <1>4
    <2>. QED
      BY <2>1, <2>2 DEF WriterStays, WriterEnds
  <1>5. CASE pc' = [pc EXCEPT ![c] = "unlink"]
             /\ scanned' = [scanned EXCEPT ![c] = Found]
    <2>1. pc'[c] = "unlink" /\ scanned'[c] = Found
      BY <1>5 DEF Kept, CallsTyped
    <2>2. FoundAll(c)'
      <3>1. \A e \in Found : e.key \in Keys /\ e.size = SizeAt(e.key)
        BY DEF Found, Present, SizeAt
      <3>2. ASSUME NEW k \in Keys, files[k] # NoFile
            PROVE  \E e \in Found : e.key = k
        <4>1. [key |-> k, size |-> files[k].size, used |-> files[k].used]
                  \in Found
          BY <3>2 DEF Found, Present
        <4>. QED
          BY <4>1
      <3>3. \A e \in Found : SizeAt(e.key)' = SizeAt(e.key)
        BY <1>1 DEF SizeAt
      <3>. QED
        BY <1>1, <2>1, <3>1, <3>2, <3>3 DEF FoundAll, SizeAt
    <2>3. Volume' <= Counted(c)'
      BY <1>2, <1>3
    <2>. QED
      BY <2>1, <2>2, <2>3 DEF WriterStays, Bound, Covers
  <1>. QED
    BY <1>4, <1>5 DEF StartEvict

\* takes each file that is still there from the total,
LEMMA WriterEvicts ==
    ASSUME Kept, Kept', NEW c \in Calls, Bound(c), EvictOne(c)
    PROVE  WriterStays(c)
  <1>. USE DEF tree
  <1>1. /\ Live(c) /\ pc[c] = "unlink" /\ pc' = pc /\ slack' = slack
        /\ total[Inst(c)] # Unknown /\ Inst(c)' = Inst(c)
    BY DEF EvictOne, Live, Inst
  <1>2. PICK e \in Oldest(scanned[c]) :
            /\ Unlink(e.key)
            /\ Remember(c, IF e.key \in Present THEN total[Inst(c)] - e.size
                                                ELSE total[Inst(c)])
            /\ scanned' = [scanned EXCEPT ![c] = scanned[c] \ {e}]
    BY DEF EvictOne
  <1>3. /\ e \in scanned[c] /\ e.key \in Keys /\ e.size \in Nat
        /\ scanned'[c] = scanned[c] \ {e}
    BY <1>2 DEF Oldest, Kept, CallsTyped, Stat
  <1>4. PICK k \in Keys : k = e.key
    BY <1>3
  <1>5. files' = [files EXCEPT ![k] = NoFile]
    BY <1>2, <1>4 DEF Unlink
  <1>6. /\ files'[k] = NoFile /\ \A j \in Keys \ {k} : files'[j] = files[j]
    BY <1>5 DEF Kept, TreeTyped
  <1>7. SizeAt(k)' = 0 /\ \A j \in Keys \ {k} : SizeAt(j)' = SizeAt(j)
    BY <1>6 DEF SizeAt
  <1>8. /\ Volume \in Int /\ SizeAt(k) \in Nat
        /\ Volume' = Volume - SizeAt(k)
    BY <1>7, VolumeChange DEF Kept, TreeTyped
  <1>9. FoundAll(c) /\ Volume <= Counted(c)
    BY <1>1 DEF Bound, Covers
  <1>10. Counted(c) = total[Inst(c)] + slack[Inst(c)]
    BY DEF Counted
  <1>11. Counted(c)' = total'[Inst(c)] + slack[Inst(c)]
    BY <1>1 DEF Counted, Inst
  <1>12. /\ total[Inst(c)] \in Int /\ slack[Inst(c)] \in Nat
         /\ Inst(c) \in Instances
    BY <1>1, WriterNumbers
  <1>13. Volume' <= Counted(c)'
    <2>1. CASE files[k] # NoFile
      <3>1. e.size = SizeAt(k) /\ k \in Present
        BY <1>3, <1>4, <1>9, <2>1 DEF FoundAll, Present
      <3>2. total'[Inst(c)] = total[Inst(c)] - e.size
        BY <1>2, <1>4, <1>12, <3>1 DEF Remember, Kept, TreeTyped
      <3>. QED
        BY <1>3, <1>8, <1>9, <1>10, <1>11, <1>12, <3>1, <3>2
    <2>2. CASE files[k] = NoFile
      <3>1. SizeAt(k) = 0 /\ k \notin Present
        BY <2>2 DEF SizeAt, Present
      <3>2. total'[Inst(c)] = total[Inst(c)]
        BY <1>2, <1>4, <1>12, <3>1 DEF Remember, Kept, TreeTyped
      <3>. QED
        BY <1>8, <1>9, <1>10, <1>11, <1>12, <3>1, <3>2
    <2>. QED
      BY <2>1, <2>2
  <1>14. FoundAll(c)'
    <2>1. ASSUME NEW f \in scanned'[c], files'[f.key] # NoFile
          PROVE  f.size = SizeAt(f.key)'
      <3>1. f \in scanned[c] /\ f.key \in Keys
        BY <1>3, <2>1 DEF Kept, CallsTyped, Stat
      <3>2. PICK j \in Keys : j = f.key
        BY <3>1
      <3>3. j # k /\ files[j] # NoFile /\ SizeAt(j)' = SizeAt(j)
        BY <1>6, <1>7, <2>1, <3>2
      <3>4. f.size = SizeAt(j)
        BY <1>9, <3>1, <3>2, <3>3 DEF FoundAll
      <3>. QED
        BY <3>2, <3>3, <3>4
    <2>2. ASSUME NEW j \in Keys, files'[j] # NoFile
          PROVE  \E f \in scanned'[c] : f.key = j
      <3>1. j # k /\ files[j] # NoFile
        BY <1>6, <2>2
      <3>2. PICK f \in scanned[c] : f.key = j
        BY <1>9, <3>1 DEF FoundAll
      <3>. QED
        BY <1>3, <1>4, <3>1, <3>2
    <2>. QED
      BY <2>1, <2>2 DEF FoundAll
  <1>. QED
    BY <1>1, <1>13, <1>14 DEF WriterStays, Bound, Covers

\* and ends below the limit, or with nothing left.
LEMMA WriterEndsEvict ==
    ASSUME Kept, NEW c \in Calls, Bound(c), EndEvict(c)
    PROVE  WriterStays(c)
  <1>. USE DEF tree
  <1>1. /\ Live(c) /\ pc[c] = "unlink" /\ files' = files /\ total' = total
        /\ slack' = slack /\ pc'[c] = "end"
    BY DEF EndEvict, Live, Reply, Kept, CallsTyped
  <1>2. /\ Volume' = Volume /\ Inst(c)' = Inst(c) /\ Counted(c)' = Counted(c)
    BY <1>1 DEF Volume, SizeAt, Inst, Counted
  <1>3. /\ Volume \in Nat /\ SizeLimit \in Nat /\ slack[Inst(c)] \in Nat
        /\ total[Inst(c)] # Unknown => total[Inst(c)] \in Int
    BY <1>1, WriterNumbers
  <1>4. total[Inst(c)] # Unknown => Volume <= total[Inst(c)] + slack[Inst(c)]
    BY <1>1 DEF Bound, Covers, Counted
  <1>5. answer'[c] = "done" => Volume <= SizeLimit + slack[Inst(c)]
    <2>1. CASE scanned[c] = {}
      <3>1. \A k \in Keys : files[k] = NoFile
        BY <1>1, <2>1 DEF Bound, FoundAll
      <3>2. Volume = 0
        BY <3>1, VolumeEmpty
      <3>. QED
        BY <1>3, <3>2
    <2>2. CASE /\ total[Inst(c)] # Unknown
               /\ 10 * total[Inst(c)] <= 9 * SizeLimit
      BY <1>3, <1>4, <2>2
    <2>3. CASE Reply(c, "raised")
      BY <2>3 DEF Reply, Kept, CallsTyped
    <2>. QED
      BY <2>1, <2>2, <2>3 DEF EndEvict
  <1>6. total[Inst(c)] # Unknown => Volume <= Counted(c)
    BY <1>4 DEF Counted
  <1>. QED
    BY <1>1, <1>2, <1>5, <1>6 DEF WriterStays, WriterEnds

LEMMA WriterBounds ==
    ASSUME Kept, Kept', Ordered, Bounds, NEW c \in Calls, Step(c),
           req[c].op = "set"
    PROVE  Bounds'
  <1>1. Live(c) /\ req' = req
    BY StepLocal DEF Live, Step, Set, Touch, Read, Exists, StatOld, Dump,
       Abandon, Replace, StatNew, Scan, Add, StartEvict, EvictOne, EndEvict,
       Delete, StartClear, ClearOne, EndClear, Nuke
  <1>2. /\ Sets' = Sets /\ Wipes' = Wipes /\ Sets \subseteq Calls
        /\ \A d \in Calls : Inst(d)' = Inst(d)
    BY <1>1 DEF Sets, Wipes, Inst
  <1>3. c \in Sets \cap Running /\ Inst(c) \in Instances
    BY <1>1, LiveCall DEF Sets, Running, Live, Kept, Located
  <1>. SUFFICES ASSUME SoleWriter PROVE
          /\ \A i \in Instances :
                (\A d \in Sets : Inst(d) # i) => total'[i] = Unknown
          /\ \A d \in Sets \cap Running' : Bound(d)'
          /\ Sets \cap Running' = {} => \A d \in Sets : AtRest(d)'
    BY <1>2 DEF Bounds, SoleWriter, Inst
  <1>4. Bound(c)
    BY <1>3 DEF Bounds
  <1>5. Set(c)
    BY <1>1 DEF Step, Touch, Read, Delete, StartClear, ClearOne, EndClear,
       Nuke, Kept, Located, Working, Live, SetLabels
  <1>6. WriterStays(c)
    BY <1>4, <1>5, WriterBefore, WriterReplaces, WriterAccounts,
       WriterStartsEvict, WriterEvicts, WriterEndsEvict DEF Set
  <1>7. \A i \in Instances \ {Inst(c)} : total'[i] = total[i]
    BY <1>3, <1>5
    DEF Set, Exists, StatOld, Dump, Abandon, Replace, StatNew, Scan, Add,
        StartEvict, EvictOne, EndEvict, Remember, Kept, TreeTyped
  <1>8. \A i \in Instances :
            (\A d \in Sets : Inst(d) # i) => total'[i] = Unknown
    BY <1>3, <1>7 DEF Bounds
  <1>9. \A d \in Sets \ {c} : pc'[d] = "end" /\ Inst(d) = Inst(c)
    BY <1>2, <1>3, StepLocal, OneRuns
  <1>10. \A d \in Sets \cap Running' : Bound(d)'
    BY <1>6, <1>9 DEF Running, WriterStays
  <1>11. ASSUME Sets \cap Running' = {}, NEW d \in Sets PROVE AtRest(d)'
    <2>1. pc'[c] \in {"idle", "end"}
      BY <1>2, <1>3, <1>11 DEF Running
    <2>2. pc'[c] = "end"
      BY <1>1, <2>1 DEF Kept, Located, Live
    <2>3. WriterEnds(c)
      BY <1>6, <2>2 DEF WriterStays
    <2>4. Inst(d) = Inst(c)
      BY <1>9
    <2>5. Counted(d)' = Counted(c)'
      BY <1>2, <2>4 DEF Counted, Inst
    <2>. QED
      BY <1>2, <1>3, <2>3, <2>4, <2>5 DEF WriterEnds, AtRest, Inst
  <1>. QED
    BY <1>8, <1>10, <1>11

\* A call begins.
LEMMA BeginBounds ==
    ASSUME Kept, Kept', Ordered, Ordered', Bounds, NEW c \in Calls, Begin(c)
    PROVE  Bounds'
  <1>. USE DEF tree
  <1>1. PICK r \in Does[c] : req' = [req EXCEPT ![c] = r] /\ Goto(c, r.op)
    BY DEF Begin
  <1>2. /\ r \in Requests /\ r # NoRequest
        /\ r.op \in {"get", "set", "delete", "clear", "nuke"}
    BY CallsAssumption, NoneAssumption DEF Requests
  <1>3. /\ pc[c] = "idle" /\ req[c] = NoRequest /\ pc'[c] = r.op /\ req'[c] = r
        /\ \A d \in Calls \ {c} : pc'[d] = pc[d] /\ req'[d] = req[d]
        /\ files' = files /\ total' = total /\ slack' = slack
        /\ delta' = delta /\ scanned' = scanned /\ answer' = answer
        /\ \A d \in After[c] : pc[d] = "end"
    BY <1>1 DEF Begin, Goto, Kept, CallsTyped, Located
  <1>4. /\ Sets \subseteq Sets' /\ Sets' \subseteq Sets \cup {c} /\ c \notin Sets
        /\ Wipes \subseteq Wipes' /\ Sets' \subseteq Calls
    BY <1>3 DEF Sets, Wipes
  <1>5. \A d \in Calls : Inst(d)' = Inst(d)
    BY DEF Inst
  <1>6. Volume' = Volume
    BY <1>3 DEF Volume, SizeAt
  <1>. SUFFICES ASSUME SoleWriter' PROVE
          /\ \A i \in Instances :
                (\A d \in Sets' : Inst(d) # i) => total'[i] = Unknown
          /\ \A d \in Sets' \cap Running' : Bound(d)'
          /\ Sets' \cap Running' = {} => \A d \in Sets' : AtRest(d)'
    BY <1>5 DEF Bounds, Inst
  <1>7. SoleWriter
    BY <1>4 DEF SoleWriter
  <1>8. \A i \in Instances :
            (\A d \in Sets' : Inst(d) # i) => total'[i] = Unknown
    BY <1>3, <1>4, <1>7 DEF Bounds
  <1>9. ASSUME NEW d \in Sets' \cap Running', d # c PROVE Bound(d)'
    <2>1. d \in Sets \cap Running /\ pc'[d] = pc[d] /\ d \in Calls
          /\ Key(d)' = Key(d)
      BY <1>3, <1>4, <1>9 DEF Running, Key
    <2>2. Bound(d) /\ Live(d) /\ Key(d) \in Keys
      BY <1>7, <2>1, LiveCall DEF Bounds, Running, Live
    <2>3. Counted(d)' = Counted(d) /\ SizeAt(Key(d))' = SizeAt(Key(d))
      BY <1>3, <2>1 DEF Counted, Inst, SizeAt
    <2>4. Covers(d) => Covers(d)'
      BY <1>3, <1>6, <2>1, <2>3 DEF Covers
    <2>5. FoundAll(d) => FoundAll(d)'
      BY <1>3 DEF FoundAll, SizeAt
    <2>. QED
      BY <1>3, <1>5, <2>1, <2>2, <2>4, <2>5 DEF Bound
  <1>10. ASSUME c \in Sets' PROVE Bound(c)'
    <2>1. r.op = "set"
      BY <1>3, <1>10 DEF Sets
    \* No other set runs: each has ended, or comes after c and has not begun.
    <2>2. \A d \in Sets : pc[d] = "end" /\ Inst(d) = Inst(c)
      <3>1. ASSUME NEW d \in Sets PROVE pc[d] = "end" /\ Inst(d) = Inst(c)
        <4>1. d \in Calls /\ d # c /\ d \in Sets' /\ pc[d] # "idle"
          BY <1>4 DEF Sets, Kept, Located
        <4>2. c \in After[d] \/ d \in After[c]
          BY <1>10, <4>1 DEF SoleWriter
        <4>3. c \notin After[d]
          BY <1>3, <4>1 DEF Ordered
        <4>. QED
          BY <1>3, <4>1, <4>2, <4>3, ThreadsAssumption DEF Inst
      <3>. QED
        BY <3>1
    <2>3. total[Inst(c)] # Unknown => Volume <= Counted(c)
      <3>1. CASE Sets = {}
        BY <1>7, <3>1, CallsAssumption DEF Bounds, Inst
      <3>2. CASE Sets # {}
        <4>1. PICK d \in Sets : TRUE
          BY <3>2
        <4>2. AtRest(d)
          BY <1>7, <2>2 DEF Bounds, Running
        <4>. QED
          BY <2>2, <4>1, <4>2 DEF AtRest, Counted
      <3>. QED
        BY <3>1, <3>2
    <2>4. Counted(c)' = Counted(c)
      BY <1>3 DEF Counted, Inst
    <2>. QED
      BY <1>3, <1>5, <1>6, <2>1, <2>3, <2>4 DEF Bound, Covers
  <1>11. ASSUME Sets' \cap Running' = {}, NEW d \in Sets' PROVE AtRest(d)'
    <2>1. c \notin Sets'
      BY <1>2, <1>3, <1>11 DEF Running
    <2>2. Sets' = Sets
      BY <1>4, <2>1
    <2>3. Sets \cap Running = {}
      BY <1>3, <1>4, <1>11, <2>2 DEF Running
    <2>4. AtRest(d)
      BY <1>7, <2>2, <2>3 DEF Bounds
    <2>5. Counted(d)' = Counted(d)
      BY <1>3 DEF Counted, Inst
    <2>. QED
      BY <1>3, <1>5, <1>6, <2>2, <2>4, <2>5 DEF AtRest
  <1>12. \A d \in Sets' \cap Running' : Bound(d)'
    BY <1>9, <1>10
  <1>. QED
    BY <1>8, <1>11, <1>12

LEMMA BoundsNext ==
    ASSUME Shape, Shape', Ordered, Ordered', Bounds, [Next]_vars
    PROVE  Bounds'
  <1>. USE DEF fileVars, tree, control, transferVars
  <1>0. Kept /\ Kept'
    BY DEF Shape, Kept
  <1>1. ASSUME NEW c \in Calls, Step(c) PROVE Bounds'
    <2>1. Live(c)
      BY <1>1 DEF Live, Step, Set, Touch, Read, Exists, StatOld, Dump,
         Abandon, Replace, StatNew, Scan, Add, StartEvict, EvictOne, EndEvict,
         Delete, StartClear, ClearOne, EndClear, Nuke
    <2>2. req[c].op \in {"get", "set", "delete", "clear", "nuke"}
      BY <1>0, <2>1, LiveCall DEF Requests
    <2>. QED
      BY <1>0, <1>1, <2>2, OthersBounds, WriterBounds, WipedBounds
  <1>2. ASSUME NEW k \in Keys, Copy(k) PROVE Bounds'
    <2>1. files' = files \/ Shrinks1(k)
      <3>1. \/ files' = files
            \/ files[k] # NoFile /\ files' = [files EXCEPT ![k].used = clock]
        BY <1>2 DEF Copy, CopyMissed, CopyRead, Mark, Present
      <3>2. CASE files[k] # NoFile /\ files' = [files EXCEPT ![k].used = clock]
        <4>1. [files[k] EXCEPT !.used = clock] \in File
          BY <1>0, <3>2 DEF Kept, TreeTyped, File
        <4>2. NoFile \notin File
          BY NoneAssumption, NumbersAssumption DEF File
        <4>. QED
          BY <1>0, <3>2, <4>1, <4>2
          DEF Shrinks1, StaysOrGoes, Kept, TreeTyped, File
      <3>. QED
        BY <3>1, <3>2
    <2>2. Quiet /\ pc' = pc /\ scanned' = scanned /\ answer' = answer
      BY <1>2, <2>1 DEF Quiet, Copy
    <2>. QED
      BY <1>0, <2>2, QuietBounds
  <1>3. ASSUME NEW i \in Instances, Crash(i) PROVE Bounds'
    <2>1. Quiet
      BY <1>0, <1>3 DEF Quiet, Crash, Kept, TreeTyped
    <2>2. ASSUME NEW c \in Sets
          PROVE  \/ /\ pc'[c] = pc[c] /\ scanned'[c] = scanned[c]
                    /\ answer'[c] = answer[c]
                 \/ /\ c \in Running /\ pc'[c] = "end"
                    /\ answer'[c] = "killed" /\ total'[Inst(c)] = Unknown
      BY <1>0, <1>3 DEF Crash, Sets, Kept, TreeTyped
    <2>. QED
      BY <1>0, <2>1, <2>2, QuietBounds
  <1>4. CASE /\ UNCHANGED <<slack, req, delta, total, files, pc>>
             /\ UNCHANGED <<scanned, answer>>
    BY <1>0, <1>4, QuietBounds DEF Quiet
  <1>5. ASSUME NEW c \in Calls, Begin(c) PROVE Bounds'
    BY <1>0, <1>5, BeginBounds
  <1>6. CASE Finish
    BY <1>4, <1>5, <1>6, ClearerAssumption DEF Finish
  <1>7. CASE List \/ Tick \/ Finished \/ UNCHANGED vars
    BY <1>4, <1>7 DEF List, Tick, Finished, vars
  <1>8. ASSUME NEW c \in Calls, SourceStep(c) PROVE Bounds'
    BY <1>1, <1>5, <1>8 DEF SourceStep
  <1>. QED
    BY <1>2, <1>3, <1>6, <1>7, <1>8 DEF Next, ProcessDies

\* A FileCache with one writing thread stays within its limit
\* (`SoleWriterStaysBounded`).
THEOREM WriterBounded == Spec => []SoleWriterStaysBounded
  <1>1. TransferInit => Ordered /\ Bounds
    BY DEF TransferInit, Init, Ordered, Bounds, Sets
  <1>2. Shape /\ Bounds => SoleWriterStaysBounded
    <2>. SUFFICES ASSUME Shape, Bounds PROVE SoleWriterStaysBounded
      OBVIOUS
    <2>1. Sets = {c \in Calls : req[c] # NoRequest /\ req[c].op = "set"}
      BY DEF Sets
    <2>2. SoleWriterStaysBounded <=>
             (/\ \A c, d \in Sets : c = d \/ c \in After[d] \/ d \in After[c]
              /\ Sets \cap Running = {}
              /\ Wipes = {}
              => \A c \in Sets :
                    /\ total[Inst(c)] # Unknown =>
                          Volume <= total[Inst(c)] + slack[Inst(c)]
                    /\ (\A d \in Sets : answer[d] = "done") =>
                          Volume <= SizeLimit + slack[Inst(c)])
      <3>1. Wipes = {c \in Calls : req[c] # NoRequest /\ req[c].op = "clear"}
                    \cup {c \in Calls : req[c] # NoRequest /\ req[c].op = "nuke"}
        BY DEF Wipes
      <3>. QED
        BY <2>1, <3>1 DEF SoleWriterStaysBounded
    <2>. QED
      BY <2>2 DEF Bounds, SoleWriter, AtRest, Counted
  <1>. QED
    BY <1>1, <1>2, ShapeHolds, OrderedNext, BoundsNext, PTL DEF Spec

=============================================================================
