------------------------- MODULE SqliteCacheProofs -------------------------
(***************************************************************************)
(* SqliteCache keeps its types, stays within its size limit with an exact  *)
(* count, implements CacheProtocol, and loses and orphans spill files only *)
(* where RowsKeepTheirSpills and NoNewOrphans say: for every set of calls, *)
(* instances and keys.                                                     *)
(***************************************************************************)
EXTENDS SqliteCache, SumTheorems

Tables == [rows : [Keys -> Rows \cup {NoRow}], size : Int]
Files == Setters \cup Keys
Answers == Setters \cup {Pending, "miss", "done", "raised", "killed"}
Labels == {"idle", "enter", "begin", "commit", "sweep", "open", "end"}

StoreTyped ==
    /\ clock \in 0 .. MaxClock /\ policy \in Policies
    /\ db \in Tables /\ draft \in Tables
    /\ spills \in [Files -> Setters \cup {Pending}]
    /\ \A f \in Files : spills[f] \in {f, Pending}
    /\ writer \in Calls \cup {Nobody}
    /\ faults \in 0 .. MaxFaults
    /\ swept \subseteq Files

CallsTyped ==
    /\ guard \in [Instances -> Calls \cup {Nobody}]
    /\ pc \in [Calls -> Labels]
    /\ req \in [Calls -> Requests \cup {NoRequest}]
    /\ now \in [Calls -> 0 .. MaxClock]
    /\ hand \in [Calls -> Rows \cup {NoRow}]
    /\ answer \in [Calls -> Answers]

\* What the place of a call says about it.
Located(c) ==
    /\ pc[c] = "idle" \/ req[c] \in Requests
    /\ now[c] <= clock
    /\ pc[c] = "end" <=> answer[c] # Pending
    /\ writer = c <=> pc[c] = "commit"
    /\ guard[InstanceOf[c]] = c <=> pc[c] \in {"begin", "commit", "sweep"}
    /\ hand[c] # NoRow
          <=> req[c].op = "get" /\ pc[c] \in {"begin", "commit", "open"}
    /\ pc[c] = "open" => /\ req[c].op = "get" /\ hand[c].file # NoFile
                         /\ ~Expired(hand[c], now[c])
    /\ pc[c] = "sweep" => req[c].op = "clear"

Control ==
    /\ StoreTyped /\ CallsTyped
    /\ \A c \in Calls : Located(c)
    /\ writer = Nobody => draft = db

-----------------------------------------------------------------------------
\* Some numbers of finitely many keys have a largest one.
LEMMA Largest ==
    ASSUME NEW S, IsFiniteSet(S), NEW f, \A x \in S : f[x] \in Nat
    PROVE  Max({0} \cup {f[x] : x \in S}) \in Nat
  <1>. DEFINE Has(t) == \E m \in {0} \cup {f[x] : x \in t} :
                           \A y \in {0} \cup {f[x] : x \in t} : m >= y
              C == {t \in SUBSET S : ~Has(t)}
  <1>1. C = {}
    <2>. SUFFICES ASSUME C # {} PROVE FALSE
      OBVIOUS
    <2>1. C \in SUBSET SUBSET S
      OBVIOUS
    <2>2. PICK t \in C : IsFiniteSet(t) /\ \A x \in t : t \ {x} \notin C
      <3>. HIDE DEF C
      <3>. QED
        BY <2>1, SmallestSubset
    <2>3. PICK x \in t : TRUE
      <3>1. CASE t = {}
        <4>1. {0} \cup {f[y] : y \in t} = {0}
          BY <3>1
        <4>. QED
          BY <4>1
      <3>. QED
        BY <3>1
    <2>4. Has(t \ {x})
      BY <2>2, <2>3
    <2>5. PICK m \in {0} \cup {f[y] : y \in t \ {x}} :
              \A y \in {0} \cup {f[z] : z \in t \ {x}} : m >= y
      BY <2>4
    <2>6. /\ m \in Nat /\ f[x] \in Nat
          /\ {0} \cup {f[y] : y \in t}
                 = {f[x]} \cup ({0} \cup {f[z] : z \in t \ {x}})
          /\ \A y \in {0} \cup {f[z] : z \in t \ {x}} : y \in Nat
      BY <2>3, <2>5
    <2>7. PICK n \in {m, f[x]} : n >= m /\ n >= f[x]
      BY <2>6
    <2>8. Has(t)
      BY <2>5, <2>6, <2>7
    <2>. QED
      BY <2>8
  <1>2. Has(S)
    BY <1>1
  <1>3. Max({0} \cup {f[x] : x \in S}) \in {0} \cup {f[x] : x \in S}
    BY <1>2 DEF Max
  <1>. QED
    BY <1>3

\* A new rowid is one.
LEMMA NextIdTyped ==
    ASSUME NEW t \in Tables
    PROVE  NextId(t) \in Nat \ {0}
  <1>. DEFINE f == [k \in Keys |-> t.rows[k].id]
              P == {k \in Keys : t.rows[k] # NoRow}
  <1>1. IsFiniteSet(P)
    BY RowsAssumption, FS_Subset
  <1>2. \A k \in P : f[k] \in Nat /\ f[k] = t.rows[k].id
    BY DEF Tables, Rows
  <1>3. Max({0} \cup {f[k] : k \in P}) \in Nat
    <2>. HIDE DEF f, P
    <2>. QED
      BY <1>1, <1>2, Largest
  <1>4. {f[k] : k \in P} = {t.rows[k].id : k \in P}
    BY <1>2
  <1>. QED
    BY <1>3, <1>4 DEF NextId, Present

LEMMA SizesTyped ==
    ASSUME NEW t \in Tables
    PROVE  /\ \A k \in Keys : Sizes(t.rows)[k] \in Nat
           /\ \A S \in SUBSET Keys : IsFiniteSet(S) /\ SizeOf(t, S) \in Nat
  <1>1. \A k \in Keys : Sizes(t.rows)[k] \in Nat
    BY DEF Sizes, Tables, Rows
  <1>2. ASSUME NEW S \in SUBSET Keys
        PROVE  IsFiniteSet(S) /\ SizeOf(t, S) \in Nat
    <2>1. IsFiniteSet(S) /\ \A k \in S : Sizes(t.rows)[k] \in Nat
      BY <1>1, RowsAssumption, FS_Subset
    <2>. QED
      BY <2>1, SumNat DEF SizeOf
  <1>. QED
    BY <1>1, <1>2

LEMMA DeleteTyped ==
    ASSUME NEW t \in Tables, NEW S \in SUBSET Keys
    PROVE  Delete(t, S) \in Tables
  <1>1. SizeOf(t, S) \in Int
    BY SizesTyped
  <1>. QED
    BY <1>1 DEF Delete, Tables

LEMMA UpsertTyped ==
    ASSUME NEW t \in Tables, NEW k \in Keys, NEW row \in Rows
    PROVE  Upsert(t, k, row) \in Tables
  <1>1. CASE t.rows[k] # NoRow
    <2>1. t.rows[k] \in Rows
      BY <1>1 DEF Tables
    <2>2. [row EXCEPT !.id = t.rows[k].id] \in Rows
      BY <2>1 DEF Rows
    <2>3. t.size + row.size - t.rows[k].size \in Int
      BY <2>1 DEF Tables, Rows
    <2>. QED
      BY <1>1, <2>2, <2>3 DEF Upsert, Tables
  <1>2. CASE t.rows[k] = NoRow
    <2>1. t.size + row.size \in Int
      BY DEF Tables, Rows
    <2>. QED
      BY <1>2, <2>1 DEF Upsert, Tables
  <1>. QED
    BY <1>1, <1>2

LEMMA TouchTyped ==
    ASSUME NEW t \in Tables, NEW id, NEW time \in 0 .. MaxClock
    PROVE  Touch(t, id, time) \in Tables
  <1>1. ASSUME NEW k \in WithId(t, id)
        PROVE  [t.rows[k] EXCEPT !.used = time] \in Rows
    <2>1. t.rows[k] \in Rows
      BY DEF WithId, Present, Tables
    <2>. QED
      BY <2>1 DEF Rows
  <1>2. PICK rows : rows = [k \in Keys |->
            IF k \in WithId(t, id) THEN [t.rows[k] EXCEPT !.used = time]
                                   ELSE t.rows[k]]
    OBVIOUS
  <1>3. rows \in [Keys -> Rows \cup {NoRow}]
    BY <1>1, <1>2 DEF Tables
  <1>. QED
    BY <1>2, <1>3 DEF Touch, Tables

\* A set's request, and the row it makes of it.
LEMMA RowTyped ==
    ASSUME StoreTyped, CallsTyped, NEW c \in Calls, req[c] \in Requests
    PROVE  /\ Row(c) \in Rows /\ Row(c).val = c
           /\ Row(c).file = SpillOf(c, req[c]) /\ Row(c).size = req[c].size
  <1>1. NextId(db) \in Nat \ {0}
    BY NextIdTyped DEF StoreTyped
  <1>2. SpillOf(c, req[c]) \in {c, NoFile} /\ c \in Setters
    BY DEF SpillOf, Setters
  <1>3. /\ req[c].size \in Nat /\ req[c].life \in {0, Forever}
        /\ now[c] \in 0 .. MaxClock
    BY DEF Requests, CallsTyped
  <1>4. (IF req[c].life = Forever THEN Forever ELSE now[c] + req[c].life)
            \in 0 .. Forever
    BY <1>3, NumbersAssumption DEF Forever
  <1>. QED
    BY <1>1, <1>2, <1>3, <1>4 DEF Row, Rows

-----------------------------------------------------------------------------
\* The control is a call's place, and what a step of it leaves to the others.
OthersAlone(c) ==
    \A d \in Calls \ {c} :
        /\ pc'[d] = pc[d] /\ req'[d] = req[d] /\ now'[d] = now[d]
        /\ hand'[d] = hand[d] /\ answer'[d] = answer[d]
        /\ writer' = d <=> writer = d
        /\ guard'[InstanceOf[d]] = d <=> guard[InstanceOf[d]] = d

LEMMA StepControls ==
    ASSUME Control, NEW c \in Calls, StoreTyped', CallsTyped', clock' = clock,
           OthersAlone(c), Located(c)', writer' = Nobody => draft' = db'
    PROVE  Control'
  <1>1. ASSUME NEW d \in Calls \ {c} PROVE Located(d)'
    BY DEF Control, OthersAlone, Located, Expired
  <1>. QED
    BY <1>1 DEF Control

\* A call that ends, with or without the lock of its instance.
LEMMA ReplyFacts ==
    ASSUME Control, NEW c \in Calls, NEW a \in Answers \ {Pending},
           Reply(c, a)
    PROVE  /\ pc'[c] = "end" /\ answer'[c] = a /\ hand'[c] = NoRow
           /\ pc' \in [Calls -> Labels] /\ answer' \in [Calls -> Answers]
           /\ hand' \in [Calls -> Rows \cup {NoRow}]
           /\ \A d \in Calls \ {c} : /\ pc'[d] = pc[d] /\ hand'[d] = hand[d]
                                     /\ answer'[d] = answer[d]
  BY DEF Reply, Goto, Control, CallsTyped, Labels

LEMMA GotoFacts ==
    ASSUME Control, NEW c \in Calls, NEW l \in Labels, Goto(c, l)
    PROVE  /\ pc'[c] = l /\ pc' \in [Calls -> Labels]
           /\ \A d \in Calls \ {c} : pc'[d] = pc[d]
  BY DEF Goto, Control, CallsTyped

LEMMA ReleaseFacts ==
    ASSUME Control, NEW c \in Calls, Release(c),
           pc[c] \in {"begin", "commit", "sweep"}
    PROVE  /\ guard' \in [Instances -> Calls \cup {Nobody}]
           /\ guard'[InstanceOf[c]] = Nobody
           /\ \A d \in Calls \ {c} : guard'[InstanceOf[d]] = d
                                        <=> guard[InstanceOf[d]] = d
  BY CallsAssumption, NoneAssumption
  DEF Release, Control, CallsTyped, Located

LEMMA TakeFacts ==
    ASSUME Control, NEW c \in Calls, guard[InstanceOf[c]] = Nobody,
           guard' = [guard EXCEPT ![InstanceOf[c]] = c]
    PROVE  /\ guard' \in [Instances -> Calls \cup {Nobody}]
           /\ guard'[InstanceOf[c]] = c
           /\ \A d \in Calls \ {c} : guard'[InstanceOf[d]] = d
                                        <=> guard[InstanceOf[d]] = d
  BY CallsAssumption, NoneAssumption DEF Control, CallsTyped

\* Unlinking keeps what the spill files hold.
LEMMA UnlinkTyped ==
    ASSUME StoreTyped, NEW F, Unlink(F)
    PROVE  /\ spills' \in [Files -> Setters \cup {Pending}]
           /\ \A f \in Files : spills'[f] \in {f, Pending}
  BY DEF StoreTyped, Unlink

LEMMA AnswersKnown ==
    /\ {"miss", "done", "raised", "killed"} \subseteq Answers \ {Pending}
    /\ Setters \subseteq Answers \ {Pending}
    /\ Calls \subseteq Setters
  BY NoneAssumption DEF Answers, Setters

LEMMA InitControl == Init => Control
  <1>. SUFFICES ASSUME Init PROVE Control
    OBVIOUS
  <1>. USE DEF Init
  <1>1. PICK rows \in InitRows :
            LET t == [rows |-> rows, size |-> 0]
            IN  /\ db = [t EXCEPT !.size = SizeOf(t, Keys)]
                /\ spills = [f \in Setters \cup Keys |->
                                IF f \in FilesOf(t, Keys) THEN f ELSE Pending]
    OBVIOUS
  <1>2. rows \in [Keys -> Rows \cup {NoRow}]
    BY RowsAssumption
  <1>3. PICK t : t = [rows |-> rows, size |-> 0]
    OBVIOUS
  <1>4. t \in Tables
    BY <1>2, <1>3 DEF Tables
  <1>5. db \in Tables
    <2>1. SizeOf(t, Keys) \in Int
      BY <1>4, SizesTyped
    <2>2. db = [t EXCEPT !.size = SizeOf(t, Keys)]
      BY <1>1, <1>3
    <2>. QED
      BY <1>4, <2>1, <2>2 DEF Tables
  <1>6. /\ spills \in [Files -> Setters \cup {Pending}]
        /\ \A f \in Files : spills[f] \in {f, Pending}
    <2>1. spills = [f \in Setters \cup Keys |->
                       IF f \in FilesOf(t, Keys) THEN f ELSE Pending]
      BY <1>1, <1>3
    <2>2. FilesOf(t, Keys) \subseteq Setters
      <3>1. \A k \in Keys : rows[k] # NoRow => rows[k].file \in Setters \cup {NoFile}
        BY RowsAssumption DEF Setters
      <3>. QED
        BY <1>3, <3>1 DEF FilesOf, Present
    <2>. QED
      BY <2>1, <2>2 DEF Files
  <1>7. StoreTyped
    BY <1>5, <1>6, NumbersAssumption DEF StoreTyped
  <1>8. CallsTyped
    BY NumbersAssumption DEF CallsTyped, Labels, Answers
  <1>. QED
    BY <1>7, <1>8, CallsAssumption, NoneAssumption DEF Control, Located

-----------------------------------------------------------------------------
\* The steps before a call has the lock of its instance.
LEMMA StartControls ==
    ASSUME Control, NEW c \in Calls, Begin(c) \/ SpillFails(c) \/ Interrupt(c)
    PROVE  Control'
  <1>. USE DEF disk
  <1>1. /\ pc[c] \in {"idle", "enter"} /\ Located(c) /\ hand[c] = NoRow
        /\ guard[InstanceOf[c]] # c /\ writer # c
    BY DEF Begin, SpillFails, Interrupt, Control, Located
  <1>2. CASE Begin(c)
    <2>1. PICK r \in Does[c] :
              /\ req' = [req EXCEPT ![c] = r]
              /\ spills' = [f \in DOMAIN spills |->
                               IF f = SpillOf(c, r) THEN c ELSE spills[f]]
      BY <1>2 DEF Begin
    <2>2. r \in Requests
      BY CallsAssumption
    <2>3. /\ spills' \in [Files -> Setters \cup {Pending}]
          /\ \A f \in Files : spills'[f] \in {f, Pending}
      <3>1. SpillOf(c, r) \in {c, NoFile} /\ NoFile \notin Files
        BY NoneAssumption DEF SpillOf, Files
      <3>2. spills \in [Files -> Setters \cup {Pending}] /\ c \in Setters
        BY AnswersKnown DEF Control, StoreTyped
      <3>. QED
        BY <2>1, <3>1, <3>2 DEF Control, StoreTyped
    <2>4. StoreTyped'
      BY <1>2, <2>3 DEF Begin, Control, StoreTyped
    <2>5. CallsTyped' /\ pc'[c] = "enter"
      BY <1>2, <2>1, <2>2 DEF Begin, Goto, Control, CallsTyped, StoreTyped,
                              Labels
    <2>6. OthersAlone(c)
      BY <1>2, <2>1, GotoFacts
      DEF Begin, Goto, Control, CallsTyped, OthersAlone
    <2>7. /\ req'[c] = r /\ now'[c] = clock /\ clock' = clock
          /\ hand'[c] = NoRow /\ answer'[c] = answer[c] /\ guard' = guard
          /\ writer' = writer /\ db' = db /\ draft' = draft
      BY <1>1, <1>2, <2>1 DEF Begin, Control, CallsTyped
    <2>8. Located(c)'
      BY <1>1, <1>2, <2>2, <2>5, <2>7
      DEF Begin, Located, Control, StoreTyped
    <2>. QED
      BY <2>4, <2>5, <2>6, <2>7, <2>8, StepControls DEF Control
  <1>3. CASE SpillFails(c) \/ Interrupt(c)
    <2>1. /\ Reply(c, "raised") /\ UNCHANGED <<clock, policy, disk, guard, now,
                                              faults, swept>>
      BY <1>3 DEF SpillFails, Interrupt
    <2>2. PICK r \in Requests : req' = [req EXCEPT ![c] = r]
      <3>1. CASE SpillFails(c)
        BY <3>1, CallsAssumption DEF SpillFails
      <3>2. CASE Interrupt(c)
        <4>1. req[c] \in Requests /\ req' = [req EXCEPT ![c] = req[c]]
          BY <1>1, <3>2 DEF Interrupt, Located, Control, CallsTyped
        <4>. QED
          BY <4>1
      <3>. QED
        BY <1>3, <3>1, <3>2
    <2>3. StoreTyped'
      BY <2>1 DEF Control, StoreTyped
    <2>4. /\ pc'[c] = "end" /\ answer'[c] = "raised" /\ hand'[c] = NoRow
          /\ pc' \in [Calls -> Labels] /\ answer' \in [Calls -> Answers]
          /\ hand' \in [Calls -> Rows \cup {NoRow}]
          /\ \A d \in Calls \ {c} : /\ pc'[d] = pc[d] /\ hand'[d] = hand[d]
                                    /\ answer'[d] = answer[d]
      BY <2>1, AnswersKnown, ReplyFacts
    <2>5. CallsTyped' /\ OthersAlone(c) /\ req'[c] = r
      BY <2>1, <2>2, <2>4 DEF Control, CallsTyped, OthersAlone
    <2>6. Located(c)'
      BY <1>1, <2>1, <2>4, <2>5, NoneAssumption DEF Located
    <2>. QED
      BY <2>1, <2>3, <2>5, <2>6, StepControls DEF Control
  <1>. QED
    BY <1>2, <1>3

\* The steps that take a lock or none, and change no row and no file.
LEMMA ReadControls ==
    ASSUME Control, NEW c \in Calls,
           EnterWrite(c) \/ Select(c) \/ ReadSpill(c)
    PROVE  Control'
  <1>. USE DEF disk
  <1>1. /\ pc[c] \in {"enter", "open"} /\ Located(c) /\ writer # c
        /\ req[c] \in Requests /\ guard[InstanceOf[c]] # c
        /\ UNCHANGED <<clock, policy, disk, req, now, faults, swept>>
    BY DEF EnterWrite, Select, ReadSpill, Control, Located
  <1>2. StoreTyped'
    BY <1>1 DEF Control, StoreTyped
  <1>3. CASE EnterWrite(c)
    <2>1. CallsTyped' /\ OthersAlone(c) /\ pc'[c] = "begin" /\ hand' = hand
      BY <1>1, <1>3, GotoFacts, TakeFacts
      DEF EnterWrite, Labels, Control, CallsTyped, OthersAlone
    <2>2. Located(c)'
      BY <1>1, <1>3, <2>1, TakeFacts DEF EnterWrite, Located
    <2>. QED
      BY <1>1, <1>2, <2>1, <2>2, StepControls DEF Control
  <1>4. ASSUME NEW a \in Answers \ {Pending}, Reply(c, a), guard' = guard
        PROVE  Control'
    <2>1. CallsTyped' /\ OthersAlone(c) /\ pc'[c] = "end"
          /\ hand'[c] = NoRow /\ answer'[c] # Pending
      BY <1>1, <1>4, ReplyFacts DEF Control, CallsTyped, OthersAlone
    <2>2. Located(c)'
      BY <1>1, <1>4, <2>1 DEF Located
    <2>. QED
      BY <1>1, <1>2, <2>1, <2>2, StepControls DEF Control
  <1>5. CASE ReadSpill(c)
    <2>1. /\ hand[c] \in Rows /\ hand[c].file \in Files
      BY <1>5 DEF ReadSpill, Control, CallsTyped, Located, Rows, Files
    <2>2. spills[hand[c].file] \in Setters \cup {Pending}
      BY <2>1 DEF Control, StoreTyped
    <2>. QED
      BY <1>4, <1>5, <2>2, AnswersKnown DEF ReadSpill
  <1>6. CASE Select(c)
    <2>1. PICK row \in Rows \cup {NoRow} : row = db.rows[req[c].key]
      BY <1>1 DEF Control, StoreTyped, Tables, Requests
    <2>2. row # NoRow => row.val \in Answers \ {Pending}
      BY AnswersKnown DEF Rows
    <2>4. CASE /\ row # NoRow
               /\ guard' = [guard EXCEPT ![InstanceOf[c]] = c]
               /\ hand' = [hand EXCEPT ![c] = row]
               /\ Goto(c, "begin") /\ UNCHANGED answer
      <3>0. /\ guard' \in [Instances -> Calls \cup {Nobody}]
            /\ guard'[InstanceOf[c]] = c
            /\ \A d \in Calls \ {c} : guard'[InstanceOf[d]] = d
                                         <=> guard[InstanceOf[d]] = d
        BY <1>6, <2>4, TakeFacts DEF Select
      <3>1. /\ CallsTyped' /\ OthersAlone(c) /\ pc'[c] = "begin"
            /\ hand'[c] = row /\ guard'[InstanceOf[c]] = c
        BY <1>1, <2>4, <3>0, GotoFacts
        DEF Labels, Control, CallsTyped, OthersAlone
      <3>2. Located(c)'
        BY <1>1, <1>6, <2>4, <3>1 DEF Select, Located
      <3>. QED
        BY <1>1, <1>2, <3>1, <3>2, StepControls DEF Control
    <2>5. CASE /\ row # NoRow /\ row.file # NoFile
               /\ ~Expired(row, now[c])
               /\ hand' = [hand EXCEPT ![c] = row]
               /\ Goto(c, "open") /\ UNCHANGED <<guard, answer>>
      <3>1. /\ CallsTyped' /\ OthersAlone(c) /\ pc'[c] = "open"
            /\ hand'[c] = row /\ guard' = guard
        BY <1>1, <1>6, <2>5, GotoFacts
        DEF Select, Labels, Control, CallsTyped, OthersAlone
      <3>2. Located(c)'
        BY <1>1, <1>6, <2>5, <3>1 DEF Select, Located, Expired
      <3>. QED
        BY <1>1, <1>2, <3>1, <3>2, StepControls DEF Control
    <2>6. \/ Reply(c, "miss") /\ guard' = guard
          \/ /\ row # NoRow
             /\ guard' = [guard EXCEPT ![InstanceOf[c]] = c]
             /\ hand' = [hand EXCEPT ![c] = row]
             /\ Goto(c, "begin") /\ UNCHANGED answer
          \/ row # NoRow /\ Reply(c, row.val) /\ guard' = guard
          \/ /\ row # NoRow /\ row.file # NoFile
             /\ ~Expired(row, now[c])
             /\ hand' = [hand EXCEPT ![c] = row]
             /\ Goto(c, "open") /\ UNCHANGED <<guard, answer>>
      BY <1>6, <2>1 DEF Select
    <2>7. CASE Reply(c, "miss") /\ guard' = guard
      BY <1>4, <2>7, AnswersKnown
    <2>8. CASE row # NoRow /\ Reply(c, row.val) /\ guard' = guard
      BY <1>4, <2>2, <2>8
    <2>. QED
      BY <2>4, <2>5, <2>6, <2>7, <2>8
  <1>. QED
    BY <1>3, <1>5, <1>6

\* What the body of a transaction leaves in the draft and the spill files.
LEMMA BodyTyped ==
    ASSUME Control, NEW c \in Calls, pc[c] = "begin", Body(c)
    PROVE  /\ draft' \in Tables
           /\ spills' \in [Files -> Setters \cup {Pending}]
           /\ \A f \in Files : spills'[f] \in {f, Pending}
  <1>1. /\ req[c] \in Requests /\ req[c].key \in Keys /\ db \in Tables
        /\ StoreTyped /\ CallsTyped /\ now[c] \in 0 .. MaxClock
    BY DEF Control, Located, Requests, StoreTyped, CallsTyped
  <1>2. CASE req[c].op = "set" /\ StoreBody(c)
    <2>1. PICK t : t = Upsert(db, req[c].key, Row(c))
      OBVIOUS
    <2>2. t \in Tables
      BY <1>1, <2>1, RowTyped, UpsertTyped
    <2>3. Victims(t) \subseteq Keys
      BY DEF Victims, Present
    <2>4. /\ draft' = Delete(t, Victims(t))
          /\ Unlink((FilesOf(db, {req[c].key}) \ {SpillOf(c, req[c])})
                       \cup FilesOf(t, Victims(t)))
      BY <1>2, <2>1 DEF StoreBody
    <2>. QED
      BY <1>1, <2>2, <2>3, <2>4, DeleteTyped, UnlinkTyped
  <1>3. ASSUME NEW S \in SUBSET Keys, NEW F,
               draft' = Delete(db, S), Unlink(F) \/ spills' = spills
        PROVE  /\ draft' \in Tables
               /\ spills' \in [Files -> Setters \cup {Pending}]
               /\ \A f \in Files : spills'[f] \in {f, Pending}
    <2>1. draft' \in Tables
      BY <1>1, <1>3, DeleteTyped
    <2>. QED
      BY <1>1, <1>3, <2>1, UnlinkTyped DEF StoreTyped
  <1>4. CASE req[c].op = "delete" /\ DropBody({req[c].key})
    BY <1>1, <1>3, <1>4 DEF DropBody
  <1>5. CASE /\ req[c].op = "expire"
             /\ DropBody({k \in Keys : Expired(db.rows[k], now[c])})
    BY <1>3, <1>5 DEF DropBody
  <1>6. CASE /\ req[c].op = "clear"
             /\ draft' = Delete(db, Keys) /\ UNCHANGED spills
    BY <1>3, <1>6
  <1>7. CASE req[c].op = "get" /\ ExpireBody(c)
    <2>1. WithId(db, hand[c].id) \in SUBSET Keys
      BY DEF WithId, Present
    <2>. QED
      BY <1>3, <1>7, <2>1 DEF ExpireBody
  <1>8. CASE req[c].op = "get" /\ TouchBody(c)
    BY <1>1, <1>8, TouchTyped DEF TouchBody, StoreTyped
  <1>9. req[c].op \in {"get", "set", "delete", "clear", "expire"}
    BY <1>1 DEF Requests
  <1>. QED
    BY <1>2, <1>4, <1>5, <1>6, <1>7, <1>8, <1>9 DEF Body

LEMMA TransactControls ==
    ASSUME Control, NEW c \in Calls, Transact(c)
    PROVE  Control'
  <1>1. /\ pc[c] = "begin" /\ writer = Nobody /\ Located(c)
        /\ writer' = c /\ Body(c) /\ Goto(c, "commit")
        /\ UNCHANGED <<clock, policy, db, guard, req, now, hand, answer,
                       faults, swept>>
    BY DEF Transact, Control
  <1>2. StoreTyped'
    BY <1>1, BodyTyped DEF Control, StoreTyped
  <1>3. /\ CallsTyped' /\ OthersAlone(c) /\ pc'[c] = "commit"
    BY <1>1, GotoFacts, NoneAssumption
    DEF Labels, Control, CallsTyped, OthersAlone
  <1>4. Located(c)'
    BY <1>1, <1>3 DEF Located
  <1>5. writer' # Nobody
    BY <1>1, NoneAssumption
  <1>. QED
    BY <1>1, <1>2, <1>3, <1>4, <1>5, StepControls

\* A transaction that is over: the next thing the call does.
LEMMA CommitControls ==
    ASSUME Control, NEW c \in Calls, Commit(c)
    PROVE  Control'
  <1>1. /\ pc[c] = "commit" /\ Located(c) /\ writer = c
        /\ req[c] \in Requests
        /\ db' = draft /\ draft' = draft /\ writer' = Nobody
        /\ UNCHANGED <<clock, policy, spills, req, now, faults, swept>>
    BY DEF Commit, Control, Located
  <1>2. StoreTyped'
    BY <1>1 DEF Control, StoreTyped
  <1>3. \A d \in Calls \ {c} : writer' = d <=> writer = d
    BY <1>1, NoneAssumption
  <1>4. ASSUME NEW a \in Answers \ {Pending}, Reply(c, a), Release(c)
        PROVE  Control'
    <2>1. /\ CallsTyped' /\ OthersAlone(c) /\ pc'[c] = "end"
          /\ hand'[c] = NoRow /\ answer'[c] # Pending
          /\ guard'[InstanceOf[c]] = Nobody
      BY <1>1, <1>3, <1>4, ReplyFacts, ReleaseFacts
      DEF Control, CallsTyped, OthersAlone
    <2>2. Located(c)'
      BY <1>1, <2>1, NoneAssumption DEF Located
    <2>. QED
      BY <1>1, <1>2, <2>1, <2>2, StepControls
  <1>5. CASE /\ req[c].op = "clear"
             /\ Goto(c, "sweep") /\ UNCHANGED <<guard, answer, hand>>
    <2>1. CallsTyped' /\ OthersAlone(c) /\ pc'[c] = "sweep"
      BY <1>1, <1>3, <1>5, GotoFacts
      DEF Labels, Control, CallsTyped, OthersAlone
    <2>2. Located(c)'
      BY <1>1, <1>5, <2>1, NoneAssumption DEF Located
    <2>. QED
      BY <1>1, <1>2, <2>1, <2>2, StepControls
  <1>6. CASE /\ req[c].op = "get" /\ Release(c)
             /\ ~Expired(hand[c], now[c]) /\ hand[c].file # NoFile
             /\ Goto(c, "open") /\ UNCHANGED <<answer, hand>>
    <2>1. /\ CallsTyped' /\ OthersAlone(c) /\ pc'[c] = "open"
          /\ guard'[InstanceOf[c]] = Nobody
      BY <1>1, <1>3, <1>6, GotoFacts, ReleaseFacts
      DEF Labels, Control, CallsTyped, OthersAlone
    <2>2. Located(c)'
      BY <1>1, <1>6, <2>1, NoneAssumption DEF Located, Expired
    <2>. QED
      BY <1>1, <1>2, <2>1, <2>2, StepControls
  <1>7. req[c].op = "get" => hand[c].val \in Answers \ {Pending}
    <2>1. req[c].op = "get" => hand[c] \in Rows
      BY <1>1 DEF Located, Control, CallsTyped
    <2>. QED
      BY <2>1, AnswersKnown DEF Rows
  <1>8. CASE Reply(c, "done") /\ Release(c)
    BY <1>4, <1>8, AnswersKnown
  <1>9. CASE Reply(c, "miss") /\ Release(c)
    BY <1>4, <1>9, AnswersKnown
  <1>10. CASE req[c].op = "get" /\ Reply(c, hand[c].val) /\ Release(c)
    BY <1>4, <1>7, <1>10
  <1>. QED
    BY <1>5, <1>6, <1>8, <1>9, <1>10 DEF Commit

\* A call that raises in its section.
LEMMA RaiseControls ==
    ASSUME Control, NEW c \in Calls, Raise(c), pc[c] \in {"begin", "commit"},
           UNCHANGED <<clock, policy, db, req, now>>,
           faults' \in 0 .. MaxFaults, swept' \subseteq Files,
           \/ pc[c] = "commit" /\ draft' = db /\ writer' = Nobody
           \/ pc[c] = "begin" /\ draft' = draft /\ writer' = writer
    PROVE  Control'
  <1>1. Located(c) /\ Reply(c, "raised") /\ Release(c)
    BY DEF Raise, Control
  <1>2. StoreTyped'
    BY UnlinkTyped DEF Raise, Control, StoreTyped
  <1>3. \A d \in Calls \ {c} : writer' = d <=> writer = d
    BY <1>1, NoneAssumption DEF Located
  <1>4. /\ CallsTyped' /\ OthersAlone(c) /\ pc'[c] = "end"
        /\ hand'[c] = NoRow /\ answer'[c] # Pending
        /\ guard'[InstanceOf[c]] = Nobody
    BY <1>1, <1>3, AnswersKnown, ReplyFacts, ReleaseFacts
    DEF Control, CallsTyped, OthersAlone
  <1>5. Located(c)'
    BY <1>1, <1>4, NoneAssumption DEF Located
  <1>6. writer' = Nobody => draft' = db'
    BY DEF Control
  <1>. QED
    BY <1>2, <1>4, <1>5, <1>6, StepControls

LEMMA FailControls ==
    ASSUME Control, NEW c \in Calls, Rollback(c) \/ GiveUp(c)
    PROVE  Control'
  <1>1. CASE GiveUp(c)
    BY <1>1, RaiseControls DEF GiveUp, Control, StoreTyped
  <1>2. CASE Rollback(c)
    <2>1. /\ pc[c] = "commit" /\ Located(c) /\ req[c] \in Requests
          /\ draft' = db /\ writer' = Nobody
          /\ UNCHANGED <<clock, policy, db, req, now>>
      BY <1>2 DEF Rollback, Control, Located
    <2>2. faults' \in 0 .. MaxFaults /\ swept' \subseteq Files
      BY <1>2, NumbersAssumption
      DEF Rollback, Control, StoreTyped, SpillOf, Files, Setters
    <2>3. CASE Raise(c)
      BY <2>1, <2>2, <2>3, RaiseControls
    <2>4. CASE Retry(c)
      <3>1. StoreTyped'
        BY <2>1, <2>2, <2>4 DEF Retry, Control, StoreTyped
      <3>2. CallsTyped' /\ OthersAlone(c) /\ pc'[c] = "begin"
        BY <2>1, <2>4, GotoFacts, NoneAssumption
        DEF Retry, Labels, Control, CallsTyped, OthersAlone, Located
      <3>3. Located(c)'
        BY <2>1, <2>4, <3>2, NoneAssumption DEF Retry, Located
      <3>. QED
        BY <2>1, <3>1, <3>2, <3>3, StepControls
    <2>. QED
      BY <1>2, <2>3, <2>4 DEF Rollback
  <1>. QED
    BY <1>1, <1>2

LEMMA SweepControls ==
    ASSUME Control, NEW c \in Calls, Sweep(c)
    PROVE  Control'
  <1>1. /\ pc[c] = "sweep" /\ Located(c)
        /\ Reply(c, "done") /\ Release(c) /\ Unlink(DOMAIN spills)
        /\ UNCHANGED <<clock, policy, db, draft, writer, req, now, faults>>
    BY DEF Sweep, Control
  <1>2. StoreTyped'
    <2>1. swept' \subseteq Files
      BY DEF Sweep, Control, StoreTyped
    <2>. QED
      BY <1>1, <2>1, UnlinkTyped DEF Control, StoreTyped
  <1>3. /\ CallsTyped' /\ OthersAlone(c) /\ pc'[c] = "end"
        /\ hand'[c] = NoRow /\ answer'[c] # Pending
        /\ guard'[InstanceOf[c]] = Nobody
    BY <1>1, AnswersKnown, ReplyFacts, ReleaseFacts
    DEF Control, CallsTyped, OthersAlone
  <1>4. Located(c)'
    BY <1>1, <1>3, NoneAssumption DEF Located
  <1>. QED
    BY <1>1, <1>2, <1>3, <1>4, StepControls DEF Control

\* What the death of a process does to its calls.
LEMMA CrashFacts ==
    ASSUME Control, NEW i \in Instances, Crash(i)
    PROVE  \E dying \in SUBSET Running :
              /\ dying # {}
              /\ \A c \in Calls : c \in dying <=> c \in Running /\ InstanceOf[c] = i
              /\ \A c \in dying : /\ pc'[c] = "end" /\ answer'[c] = "killed"
                                  /\ hand'[c] = NoRow
              /\ \A c \in Calls \ dying : /\ pc'[c] = pc[c] /\ hand'[c] = hand[c]
                                          /\ answer'[c] = answer[c]
              /\ pc' \in [Calls -> Labels] /\ answer' \in [Calls -> Answers]
              /\ hand' \in [Calls -> Rows \cup {NoRow}]
              /\ \/ writer \in dying /\ writer' = Nobody /\ draft' = db
                 \/ writer \notin dying /\ UNCHANGED <<writer, draft>>
  <1>1. PICK dying : dying = {c \in Running : InstanceOf[c] = i}
    OBVIOUS
  <1>2. /\ dying # {}
        /\ pc' = [c \in Calls |-> IF c \in dying THEN "end" ELSE pc[c]]
        /\ answer' = [c \in Calls |->
                         IF c \in dying THEN "killed" ELSE answer[c]]
        /\ hand' = [c \in Calls |-> IF c \in dying THEN NoRow ELSE hand[c]]
        /\ \/ writer \in dying /\ writer' = Nobody /\ draft' = db
           \/ writer \notin dying /\ UNCHANGED <<writer, draft>>
    BY <1>1 DEF Crash
  <1>3. dying \in SUBSET Running /\ Running \subseteq Calls
    BY <1>1 DEF Running
  <1>. QED
    BY <1>1, <1>2, <1>3 DEF Control, CallsTyped, Labels, Answers

LEMMA CrashControls ==
    ASSUME Control, NEW i \in Instances, Crash(i)
    PROVE  Control'
  <1>1. PICK dying \in SUBSET Running :
              /\ \A c \in Calls : c \in dying <=> c \in Running /\ InstanceOf[c] = i
              /\ \A c \in dying : /\ pc'[c] = "end" /\ answer'[c] = "killed"
                                  /\ hand'[c] = NoRow
              /\ \A c \in Calls \ dying : /\ pc'[c] = pc[c] /\ hand'[c] = hand[c]
                                          /\ answer'[c] = answer[c]
              /\ pc' \in [Calls -> Labels] /\ answer' \in [Calls -> Answers]
              /\ hand' \in [Calls -> Rows \cup {NoRow}]
              /\ \/ writer \in dying /\ writer' = Nobody /\ draft' = db
                 \/ writer \notin dying /\ UNCHANGED <<writer, draft>>
    BY CrashFacts
  <1>2. /\ guard' = [guard EXCEPT ![i] = Nobody]
        /\ faults < MaxFaults /\ faults' = faults + 1
        /\ UNCHANGED <<clock, policy, db, spills, req, now, swept>>
    BY DEF Crash
  <1>3. guard' \in [Instances -> Calls \cup {Nobody}] /\ CallsTyped'
    BY <1>1, <1>2 DEF Control, CallsTyped
  <1>4. StoreTyped'
    BY <1>1, <1>2, NumbersAssumption DEF Control, StoreTyped
  <1>5. ASSUME NEW c \in dying PROVE Located(c)'
    <2>1. c \in Running /\ InstanceOf[c] = i /\ c \in Calls
      BY <1>1 DEF Running
    <2>2. /\ pc'[c] = "end" /\ answer'[c] = "killed" /\ hand'[c] = NoRow
          /\ writer' # c /\ guard'[InstanceOf[c]] # c /\ Located(c)
      BY <1>1, <1>2, <2>1, NoneAssumption DEF Control, CallsTyped
    <2>. QED
      BY <1>2, <2>1, <2>2, NoneAssumption DEF Located, Running
  <1>6. ASSUME NEW c \in Calls \ dying PROVE Located(c)'
    <2>1. /\ pc'[c] = pc[c] /\ hand'[c] = hand[c] /\ answer'[c] = answer[c]
          /\ (writer' = c <=> writer = c) /\ Located(c)
      BY <1>1, NoneAssumption DEF Control
    <2>2. CASE InstanceOf[c] = i
      <3>1. pc[c] \in {"idle", "end"}
        BY <1>1, <2>2 DEF Running
      <3>2. guard'[InstanceOf[c]] # c
        BY <1>2, <2>2, NoneAssumption DEF Control, CallsTyped
      <3>. QED
        BY <1>2, <2>1, <3>1, <3>2 DEF Located
    <2>3. CASE InstanceOf[c] # i
      <3>1. guard'[InstanceOf[c]] = guard[InstanceOf[c]]
        BY <1>2, <2>3, CallsAssumption DEF Control, CallsTyped
      <3>. QED
        BY <1>2, <2>1, <3>1 DEF Located, Expired
    <2>. QED
      BY <2>2, <2>3
  <1>. QED
    BY <1>1, <1>2, <1>3, <1>4, <1>5, <1>6 DEF Control

LEMMA StillControls ==
    ASSUME Control, Tick \/ UNCHANGED vars
    PROVE  Control'
  <1>. USE DEF vars, disk, control
  <1>1. CASE Tick
    <2>1. StoreTyped' /\ CallsTyped'
      BY <1>1, NumbersAssumption DEF Tick, Control, StoreTyped, CallsTyped
    <2>2. clock \in Nat /\ clock' = clock + 1
      BY <1>1, NumbersAssumption DEF Tick, Control, StoreTyped
    <2>3. ASSUME NEW c \in Calls PROVE Located(c)'
      <3>1. Located(c) /\ now[c] \in Nat /\ UNCHANGED <<disk, control>>
        BY <1>1, NumbersAssumption DEF Tick, Control, CallsTyped
      <3>. QED
        BY <2>2, <3>1 DEF Located, Expired
    <2>. QED
      BY <1>1, <2>1, <2>3 DEF Tick, Control
  <1>2. CASE UNCHANGED vars
    BY <1>2 DEF Control, StoreTyped, CallsTyped, Located, Expired
  <1>. QED
    BY <1>1, <1>2

\* The cases of a step.
LEMMA Steps ==
    ASSUME [Next]_vars
    PROVE  \/ \E c \in Calls :
                 \/ Begin(c) \/ SpillFails(c) \/ Interrupt(c)
                 \/ EnterWrite(c) \/ Select(c) \/ ReadSpill(c)
                 \/ Transact(c) \/ Commit(c) \/ Sweep(c)
                 \/ Rollback(c) \/ GiveUp(c)
           \/ \E i \in Instances : Crash(i)
           \/ Tick \/ UNCHANGED vars
  BY DEF Next, Step, Finished

LEMMA NextControls ==
    ASSUME Control, [Next]_vars
    PROVE  Control'
  BY Steps, StartControls, ReadControls, TransactControls, CommitControls,
     SweepControls, FailControls, CrashControls, StillControls

\* Every reachable state has its types, and its locks are held by the calls in
\* their sections.
THEOREM ControlHolds == Spec => []Control
  <1>1. Init => Control
    BY InitControl
  <1>2. Control /\ [Next]_vars => Control'
    BY NextControls
  <1>. QED
    BY <1>1, <1>2, PTL DEF Spec

-----------------------------------------------------------------------------
\* The count of a table is what its rows hold, and within the limit.
Exact(t) == SizeOf(t, Keys) = t.size /\ t.size <= SizeLimit

Counted == Exact(db) /\ Exact(draft)

\* A delete takes from the rows what its trigger takes from the count.
LEMMA DeleteCounts ==
    ASSUME NEW t \in Tables, NEW S \in SUBSET Keys,
           SizeOf(t, Keys) = t.size
    PROVE  /\ SizeOf(Delete(t, S), Keys) = Delete(t, S).size
           /\ Delete(t, S).size = t.size - SizeOf(t, S)
           /\ SizeOf(t, S) \in Nat
  <1>1. PICK f : f = Sizes(t.rows)
    OBVIOUS
  <1>2. PICK g : g = Sizes(Delete(t, S).rows)
    OBVIOUS
  <1>3. /\ \A k \in S : g[k] = 0
        /\ \A k \in Keys \ S : g[k] = f[k]
    BY <1>1, <1>2 DEF Sizes, Delete
  <1>4. \A k \in Keys : f[k] \in Nat /\ g[k] \in Nat
    BY <1>1, <1>2, SizesTyped, DeleteTyped
  <1>5. IsFiniteSet(Keys) /\ IsFiniteSet(S) /\ IsFiniteSet(Keys \ S)
    BY RowsAssumption, FS_Subset
  <1>6. SumFunctionOnSet(g, S) = 0
    BY <1>3, <1>5, SumZero
  <1>7. SumFunctionOnSet(g, Keys \ S) = SumFunctionOnSet(f, Keys \ S)
    BY <1>3, <1>5, SumAgree
  <1>8. /\ SumFunctionOnSet(f, Keys \ S) \in Int
        /\ SumFunctionOnSet(f, S) \in Int
        /\ SumFunctionOnSet(f, Keys)
               = SumFunctionOnSet(f, S) + SumFunctionOnSet(f, Keys \ S)
    <2>1. \A k \in Keys : f[k] \in Int
      BY <1>4
    <2>. QED
      BY <1>5, <2>1, SumSplit
  <1>9. SumFunctionOnSet(g, Keys)
            = SumFunctionOnSet(g, S) + SumFunctionOnSet(g, Keys \ S)
    <2>1. \A k \in Keys : g[k] \in Int
      BY <1>4
    <2>. QED
      BY <1>5, <2>1, SumSplit
  <1>10. /\ SizeOf(t, S) = SumFunctionOnSet(f, S)
         /\ SizeOf(t, Keys) = SumFunctionOnSet(f, Keys)
         /\ SizeOf(Delete(t, S), Keys) = SumFunctionOnSet(g, Keys)
    BY <1>1, <1>2 DEF SizeOf
  <1>11. Delete(t, S).size = t.size - SizeOf(t, S)
    BY DEF Delete
  <1>12. SizeOf(t, S) \in Nat
    BY SizesTyped
  <1>13. PICK x \in Int : x = SumFunctionOnSet(f, Keys \ S)
    BY <1>8
  <1>14. SizeOf(Delete(t, S), Keys) = x
    BY <1>6, <1>7, <1>9, <1>10, <1>13
  <1>15. t.size - SizeOf(t, S) = x
    BY <1>8, <1>10, <1>13
  <1>. QED
    BY <1>11, <1>12, <1>14, <1>15

\* An upsert counts the difference that its row makes.
LEMMA UpsertCounts ==
    ASSUME NEW t \in Tables, NEW k \in Keys, NEW row \in Rows,
           SizeOf(t, Keys) = t.size
    PROVE  SizeOf(Upsert(t, k, row), Keys) = Upsert(t, k, row).size
  <1>1. PICK u \in Tables : u = Upsert(t, k, row)
    BY UpsertTyped
  <1>2. PICK f : f = Sizes(t.rows)
    OBVIOUS
  <1>3. PICK g : g = Sizes(u.rows)
    OBVIOUS
  <1>4. \A j \in Keys : f[j] \in Int /\ g[j] \in Int
    BY <1>2, <1>3, SizesTyped
  <1>5. u.rows[k] # NoRow /\ u.rows[k].size = row.size
    BY <1>1, NoneAssumption DEF Upsert, Tables, Rows
  <1>6. \A j \in Keys \ {k} : u.rows[j] = t.rows[j]
    BY <1>1 DEF Upsert, Tables
  <1>7. /\ g[k] = row.size /\ \A j \in Keys \ {k} : f[j] = g[j]
    BY <1>2, <1>3, <1>5, <1>6 DEF Sizes
  <1>8. SumFunctionOnSet(g, Keys) = SumFunctionOnSet(f, Keys) - f[k] + g[k]
    BY <1>4, <1>7, RowsAssumption, SumChange
  <1>9. u.size = t.size - f[k] + row.size
    <2>1. t.size \in Int /\ row.size \in Int
      BY DEF Tables, Rows
    <2>2. CASE t.rows[k] = NoRow
      BY <1>1, <1>2, <2>1, <2>2 DEF Upsert, Sizes
    <2>3. CASE t.rows[k] # NoRow
      <3>1. f[k] = t.rows[k].size /\ t.rows[k].size \in Int
        BY <1>2, <2>3 DEF Sizes, Tables, Rows
      <3>. QED
        BY <1>1, <2>1, <2>3, <3>1 DEF Upsert
    <2>. QED
      BY <2>2, <2>3
  <1>. QED
    BY <1>1, <1>2, <1>3, <1>7, <1>8, <1>9 DEF SizeOf

\* A touch changes no size.
LEMMA TouchCounts ==
    ASSUME NEW t \in Tables, NEW id, NEW time \in 0 .. MaxClock,
           SizeOf(t, Keys) = t.size
    PROVE  /\ SizeOf(Touch(t, id, time), Keys) = Touch(t, id, time).size
           /\ Touch(t, id, time).size = t.size
  <1>1. PICK u \in Tables : u = Touch(t, id, time)
    BY TouchTyped
  <1>2. u.size = t.size
    BY <1>1 DEF Touch, Tables
  <1>3. \A k \in Keys : u.rows[k] =
            IF k \in WithId(t, id) THEN [t.rows[k] EXCEPT !.used = time]
                                   ELSE t.rows[k]
    BY <1>1 DEF Touch, Tables
  <1>4. ASSUME NEW k \in Keys PROVE Sizes(u.rows)[k] = Sizes(t.rows)[k]
    <2>1. CASE k \in WithId(t, id)
      <3>1. t.rows[k] \in Rows /\ t.rows[k] # NoRow
        BY <2>1 DEF WithId, Present, Tables
      <3>2. u.rows[k] = [t.rows[k] EXCEPT !.used = time]
        BY <1>3, <2>1
      <3>3. u.rows[k].size = t.rows[k].size /\ u.rows[k] \in Rows
        BY <3>1, <3>2 DEF Rows
      <3>. QED
        BY <3>1, <3>3, NoneAssumption DEF Sizes
    <2>2. CASE k \notin WithId(t, id)
      BY <1>3, <2>2 DEF Sizes
    <2>. QED
      BY <2>1, <2>2
  <1>5. SizeOf(u, Keys) = SizeOf(t, Keys)
    BY <1>4, RowsAssumption, SumAgree DEF SizeOf
  <1>. QED
    BY <1>1, <1>2, <1>5

\* Of some rows, one is before no other in the order of the cull.
LEMMA Oldest ==
    ASSUME NEW t \in Tables, NEW R \in SUBSET Present(t), R # {}
    PROVE  \E k \in R : \A j \in R : ~Before(t.rows[j], t.rows[k])
  <1>. DEFINE First(T, k) == \A j \in T : ~Before(t.rows[j], t.rows[k])
              C == {T \in SUBSET R : T # {} /\ \A k \in T : ~First(T, k)}
  <1>. SUFFICES ASSUME C # {} PROVE FALSE
    BY DEF Present
  <1>1. IsFiniteSet(R) /\ C \in SUBSET SUBSET R
    BY RowsAssumption, FS_Subset DEF Present
  <1>2. PICK T \in C : IsFiniteSet(T) /\ \A x \in T : T \ {x} \notin C
    <2>. HIDE DEF C
    <2>. QED
      BY <1>1, SmallestSubset
  <1>3. \A k \in R : /\ t.rows[k].id \in Int
                     /\ Age(t.rows[k]) \in Int
    BY NumbersAssumption DEF Present, Tables, Rows, Age
  <1>4. /\ \A k \in R : ~Before(t.rows[k], t.rows[k])
        /\ \A i, j, k \in R :
              Before(t.rows[i], t.rows[j]) /\ Before(t.rows[j], t.rows[k])
                 => Before(t.rows[i], t.rows[k])
    BY <1>3 DEF Before
  <1>5. PICK x \in T : TRUE
    OBVIOUS
  <1>6. CASE T \ {x} = {}
    <2>1. First(T, x)
      BY <1>4, <1>6
    <2>. QED
      BY <1>5, <2>1
  <1>7. CASE T \ {x} # {}
    <2>1. PICK m \in T \ {x} : First(T \ {x}, m)
      BY <1>2, <1>5, <1>7
    <2>2. CASE Before(t.rows[x], t.rows[m])
      <3>1. First(T, x)
        BY <1>4, <2>1, <2>2
      <3>. QED
        BY <1>5, <3>1
    <2>3. CASE ~Before(t.rows[x], t.rows[m])
      <3>1. First(T, m)
        BY <2>1, <2>3
      <3>. QED
        BY <2>1, <3>1
    <2>. QED
      BY <2>2, <2>3
  <1>. QED
    BY <1>6, <1>7

\* After a cull, what is left is within the limit.
LEMMA CullBounds ==
    ASSUME NEW t \in Tables, SizeOf(t, Keys) = t.size
    PROVE  Exact(Delete(t, Victims(t)))
  <1>1. PICK V \in SUBSET Keys : V = Victims(t)
    BY DEF Victims, Present
  <1>2. /\ SizeOf(Delete(t, V), Keys) = Delete(t, V).size
        /\ Delete(t, V).size = t.size - SizeOf(t, V)
        /\ SizeOf(t, V) \in Nat /\ t.size \in Int
    BY DeleteCounts DEF Tables
  <1>3. SizeLimit \in Nat
    BY NumbersAssumption
  <1>4. CASE t.size <= SizeLimit
    <2>1. Delete(t, V).size <= SizeLimit
      BY <1>2, <1>3, <1>4
    <2>. QED
      BY <1>1, <1>2, <2>1 DEF Exact
  <1>5. CASE t.size > SizeLimit
    <2>1. V = {k \in Present(t) :
                 LET gone == {j \in Present(t) : Before(t.rows[j], t.rows[k])}
                 IN  10 * (t.size - SizeOf(t, gone)) > 9 * SizeLimit}
      BY <1>1, <1>2, <1>3, <1>5 DEF Victims
    <2>2. CASE Present(t) \ V = {}
      <3>1. PICK f : f = Sizes(t.rows)
        OBVIOUS
      <3>2. \A k \in Keys \ V : f[k] = 0
        BY <2>2, <3>1 DEF Sizes, Present
      <3>3. SumFunctionOnSet(f, Keys \ V) = 0
        BY <3>2, RowsAssumption, FS_Subset, SumZero
      <3>4. SumFunctionOnSet(f, Keys)
                = SumFunctionOnSet(f, V) + SumFunctionOnSet(f, Keys \ V)
        <4>1. \A k \in Keys : f[k] \in Int
          BY <3>1, SizesTyped
        <4>. QED
          BY <4>1, RowsAssumption, SumSplit
      <3>5. SizeOf(t, Keys) = SizeOf(t, V)
        BY <1>2, <3>1, <3>3, <3>4 DEF SizeOf
      <3>6. Delete(t, V).size <= SizeLimit
        BY <1>2, <1>3, <3>5
      <3>. QED
        BY <1>1, <1>2, <3>6 DEF Exact
    <2>3. CASE Present(t) \ V # {}
      <3>1. PICK k \in Present(t) \ V :
                \A j \in Present(t) \ V : ~Before(t.rows[j], t.rows[k])
        <4>1. PICK R \in SUBSET Present(t) : R = Present(t) \ V
          OBVIOUS
        <4>. QED
          BY <2>3, <4>1, Oldest
      <3>2. PICK gone : gone = {j \in Present(t) :
                                   Before(t.rows[j], t.rows[k])}
        OBVIOUS
      <3>3. gone \in SUBSET V
        BY <3>1, <3>2
      <3>4. ~(10 * (t.size - SizeOf(t, gone)) > 9 * SizeLimit)
        BY <2>1, <3>1, <3>2
      <3>5. SizeOf(t, gone) <= SizeOf(t, V)
        <4>1. \A j \in V : Sizes(t.rows)[j] \in Nat
          BY SizesTyped
        <4>2. IsFiniteSet(V)
          BY RowsAssumption, FS_Subset
        <4>. QED
          BY <3>3, <4>1, <4>2, SumPart DEF SizeOf
      <3>6. SizeOf(t, gone) \in Nat
        BY <3>3, SizesTyped
      <3>7. t.size - SizeOf(t, V) <= SizeLimit
        BY <1>2, <1>3, <3>4, <3>5, <3>6
      <3>. QED
        BY <1>1, <1>2, <3>7 DEF Exact
    <2>. QED
      BY <2>2, <2>3
  <1>. QED
    BY <1>2, <1>3, <1>4, <1>5

\* The body of a transaction leaves an exact draft.
LEMMA BodyCounts ==
    ASSUME Control, Exact(db), NEW c \in Calls, pc[c] = "begin", Body(c)
    PROVE  Exact(draft')
  <1>1. /\ req[c] \in Requests /\ req[c].key \in Keys /\ db \in Tables
        /\ StoreTyped /\ CallsTyped /\ now[c] \in 0 .. MaxClock
        /\ SizeOf(db, Keys) = db.size /\ db.size \in Int
        /\ db.size <= SizeLimit /\ SizeLimit \in Nat
    BY NumbersAssumption
    DEF Control, Located, Requests, StoreTyped, CallsTyped, Exact, Tables
  <1>2. CASE req[c].op = "set" /\ StoreBody(c)
    <2>1. PICK t : t = Upsert(db, req[c].key, Row(c))
      OBVIOUS
    <2>2. t \in Tables /\ SizeOf(t, Keys) = t.size
      BY <1>1, <2>1, RowTyped, UpsertTyped, UpsertCounts
    <2>3. draft' = Delete(t, Victims(t))
      BY <1>2, <2>1 DEF StoreBody
    <2>. QED
      BY <2>2, <2>3, CullBounds
  <1>3. ASSUME NEW S \in SUBSET Keys, draft' = Delete(db, S)
        PROVE  Exact(draft')
    <2>1. PICK u : u = Delete(db, S)
      OBVIOUS
    <2>2. /\ SizeOf(u, Keys) = u.size /\ u.size = db.size - SizeOf(db, S)
          /\ SizeOf(db, S) \in Nat
      BY <1>1, <2>1, DeleteCounts
    <2>3. Exact(u)
      BY <1>1, <2>2 DEF Exact
    <2>. QED
      BY <1>3, <2>1, <2>3
  <1>4. CASE req[c].op = "delete" /\ DropBody({req[c].key})
    BY <1>1, <1>3, <1>4 DEF DropBody
  <1>5. CASE /\ req[c].op = "expire"
             /\ DropBody({k \in Keys : Expired(db.rows[k], now[c])})
    BY <1>3, <1>5 DEF DropBody
  <1>6. CASE /\ req[c].op = "clear"
             /\ draft' = Delete(db, Keys) /\ UNCHANGED spills
    BY <1>3, <1>6
  <1>7. CASE req[c].op = "get" /\ ExpireBody(c)
    <2>1. WithId(db, hand[c].id) \in SUBSET Keys
      BY DEF WithId, Present
    <2>. QED
      BY <1>3, <1>7, <2>1 DEF ExpireBody
  <1>8. CASE req[c].op = "get" /\ TouchBody(c)
    <2>1. PICK u : u = Touch(db, hand[c].id, now[c])
      OBVIOUS
    <2>2. Exact(u)
      BY <1>1, <2>1, TouchCounts DEF Exact
    <2>. QED
      BY <1>8, <2>1, <2>2 DEF TouchBody
  <1>9. req[c].op \in {"get", "set", "delete", "clear", "expire"}
    BY <1>1 DEF Requests
  <1>. QED
    BY <1>2, <1>4, <1>5, <1>6, <1>7, <1>8, <1>9 DEF Body

LEMMA InitCounts == Init => Counted
  <1>. SUFFICES ASSUME Init PROVE Counted
    OBVIOUS
  <1>1. PICK rows \in InitRows :
            LET t == [rows |-> rows, size |-> 0]
            IN  /\ db = [t EXCEPT !.size = SizeOf(t, Keys)]
                /\ spills = [f \in Setters \cup Keys |->
                                IF f \in FilesOf(t, Keys) THEN f ELSE Pending]
    BY DEF Init
  <1>2. PICK t : t = [rows |-> rows, size |-> 0]
    OBVIOUS
  <1>3. db = [t EXCEPT !.size = SizeOf(t, Keys)]
    BY <1>1, <1>2
  <1>4. db.rows = rows /\ db.size = SizeOf(t, Keys)
    BY <1>2, <1>3
  <1>5. SizeOf(t, Keys) = SumFunctionOnSet(Sizes(rows), Keys)
    BY <1>2 DEF SizeOf
  <1>6. SizeOf(db, Keys) = SumFunctionOnSet(Sizes(rows), Keys)
    BY <1>4 DEF SizeOf
  <1>7. SumFunctionOnSet(Sizes(rows), Keys) <= SizeLimit
    BY RowsAssumption
  <1>. QED
    BY <1>4, <1>5, <1>6, <1>7 DEF Init, Counted, Exact

LEMMA NextCounts ==
    ASSUME Control, Counted, [Next]_vars
    PROVE  Counted'
  <1>. USE DEF disk
  <1>1. ASSUME NEW c \in Calls, Transact(c) PROVE Counted'
    <2>1. pc[c] = "begin" /\ Body(c) /\ db' = db /\ Exact(db)
      BY <1>1 DEF Transact, Counted
    <2>2. Exact(draft')
      BY <2>1, BodyCounts
    <2>. QED
      BY <2>1, <2>2 DEF Counted, Exact
  <1>2. ASSUME db' \in {db, draft}, draft' \in {db, draft} PROVE Counted'
    BY <1>2 DEF Counted, Exact
  <1>3. ASSUME NEW c \in Calls,
               \/ Begin(c) \/ SpillFails(c) \/ Interrupt(c)
               \/ EnterWrite(c) \/ Select(c) \/ ReadSpill(c)
               \/ Commit(c) \/ Sweep(c) \/ Rollback(c) \/ GiveUp(c)
        PROVE  db' \in {db, draft} /\ draft' \in {db, draft}
    BY <1>3 DEF Begin, SpillFails, Interrupt, EnterWrite, Select, ReadSpill,
                Commit, Sweep, Rollback, GiveUp
  <1>4. ASSUME \/ Tick \/ UNCHANGED vars
               \/ \E i \in Instances : Crash(i)
        PROVE  db' \in {db, draft} /\ draft' \in {db, draft}
    BY <1>4 DEF Tick, vars, Crash
  <1>. QED
    BY <1>1, <1>2, <1>3, <1>4, Steps

\* The committed and the open table are exact and within the limit.
THEOREM CountedHolds == Spec => []Counted
  <1>1. Init => Counted
    BY InitCounts
  <1>2. Control /\ Counted /\ [Next]_vars => Counted'
    BY NextCounts
  <1>. QED
    BY <1>1, <1>2, ControlHolds, PTL DEF Spec

\* WithinLimit: what SQLite's triggers count is exactly what the rows hold, and
\* never more than size_limit, whatever mix of upserts, deletes, culls,
\* rollbacks and crashes the transactions of all processes go through.
THEOREM SizeBounded == Spec => []WithinLimit
  <1>1. Counted => WithinLimit
    BY DEF Counted, Exact, WithinLimit
  <1>. QED
    BY <1>1, CountedHolds, PTL

\* TypeOK.
THEOREM TypeCorrect == Spec => []TypeOK
  <1>1. Control /\ Counted => TypeOK
    <2>. SUFFICES ASSUME Control, Counted PROVE TypeOK
      OBVIOUS
    <2>1. db.size \in Nat /\ draft.size \in Nat
      BY SizesTyped DEF Control, StoreTyped, Counted, Exact
    <2>2. swept \subseteq DOMAIN spills
      BY DEF Control, StoreTyped
    <2>. QED
      BY <2>1, <2>2
      DEF TypeOK, Control, StoreTyped, CallsTyped, Tables, Located, Labels,
          Answers, Files
  <1>. QED
    BY <1>1, ControlHolds, CountedHolds, PTL

-----------------------------------------------------------------------------
\* A spill is named by the call whose value it holds.
Named(row) == row.file \in {row.val, NoFile}

\* A value is in one row at most.
Names(t) ==
    /\ \A k \in Keys : t.rows[k] # NoRow => Named(t.rows[k])
    /\ \A j, k \in Keys :
          t.rows[j] # NoRow /\ t.rows[k] # NoRow
              => t.rows[j].val # t.rows[k].val \/ j = k

\* A call that has not ended has stored nothing yet.
Unspent(c) ==
    pc[c] # "end" =>
        /\ \A k \in Keys : db.rows[k] # NoRow => db.rows[k].val # c
        /\ \A d \in Calls : hand[d] # NoRow => hand[d].val # c

\* While the value that a get has selected is in a row, that row has its rowid.
Held(c) ==
    hand[c] # NoRow =>
        /\ Named(hand[c])
        /\ \A k \in Keys :
              db.rows[k] # NoRow /\ db.rows[k].val = hand[c].val
                  => db.rows[k].id = hand[c].id

SameEntry(r, s) ==
    /\ r # NoRow /\ s # NoRow
    /\ r.id = s.id /\ r.val = s.val /\ r.file = s.file /\ r.dies = s.dies

Stored(c, k) ==
    /\ req[c].op = "set" /\ k = req[c].key
    /\ draft.rows[k] # NoRow
    /\ draft.rows[k].val = c /\ draft.rows[k].file = SpillOf(c, req[c])

\* What the open transaction has done to the committed rows.
Drafted(c) ==
    pc[c] = "commit" =>
        /\ \A k \in Keys : \/ draft.rows[k] = NoRow
                           \/ SameEntry(draft.rows[k], db.rows[k])
                           \/ Stored(c, k)
        /\ req[c].op = "set" => \/ draft.rows[req[c].key] = NoRow
                                \/ Stored(c, req[c].key)
        /\ req[c].op = "get" /\ ~Expired(hand[c], now[c]) =>
              \A k \in Keys : draft.rows[k] = NoRow => db.rows[k] = NoRow

Identities ==
    /\ Names(db)
    /\ \A c \in Calls : Unspent(c) /\ Held(c) /\ Drafted(c)

LEMMA InitIdentities == Init => Identities
  <1>. SUFFICES ASSUME Init PROVE Identities
    OBVIOUS
  <1>1. PICK rows \in InitRows :
            LET t == [rows |-> rows, size |-> 0]
            IN  /\ db = [t EXCEPT !.size = SizeOf(t, Keys)]
                /\ spills = [f \in Setters \cup Keys |->
                                IF f \in FilesOf(t, Keys) THEN f ELSE Pending]
    BY DEF Init
  <1>2. db.rows = rows
    BY <1>1
  <1>0. \A k \in Keys : rows[k] # NoRow =>
            /\ rows[k].val \in Earlier
            /\ rows[k].file \in {rows[k].val, NoFile}
            /\ \A j \in Keys : rows[j] # NoRow =>
                                 rows[j].val # rows[k].val \/ j = k
    BY RowsAssumption
  <1>3. Names(db)
    BY <1>0, <1>2 DEF Names, Named
  <1>4. ASSUME NEW c \in Calls, NEW k \in Keys, db.rows[k] # NoRow
        PROVE  db.rows[k].val # c
    BY <1>0, <1>2, <1>4, CallsAssumption
  <1>. QED
    BY <1>3, <1>4 DEF Init, Identities, Unspent, Held, Drafted

\* The steps that commit nothing.
LEMMA IdentitiesFrame ==
    ASSUME Control, Identities, db' = db,
           \A c \in Calls : pc[c] = "end" => pc'[c] = "end",
           \A c \in Calls : \/ hand'[c] \in {hand[c], NoRow}
                            \/ \E k \in Keys : hand'[c] = db.rows[k],
           \A c \in Calls : pc'[c] = "commit" =>
              \/ /\ pc[c] = "commit" /\ draft' = draft /\ req'[c] = req[c]
                 /\ hand'[c] = hand[c] /\ now'[c] = now[c]
              \/ Drafted(c)'
    PROVE  Identities'
  <1>1. Names(db)'
    BY DEF Identities, Names
  <1>2. ASSUME NEW c \in Calls PROVE Unspent(c)'
    <2>1. ASSUME pc[c] # "end", NEW d \in Calls, hand'[d] # NoRow
          PROVE  hand'[d].val # c
      BY <2>1 DEF Identities, Unspent
    <2>. QED
      BY <2>1 DEF Identities, Unspent
  <1>3. ASSUME NEW c \in Calls PROVE Held(c)'
    <2>1. CASE hand'[c] \in {hand[c], NoRow}
      BY <2>1 DEF Identities, Held
    <2>2. CASE hand'[c] # NoRow /\ \E k \in Keys : hand'[c] = db.rows[k]
      BY <2>2 DEF Identities, Held, Names
    <2>. QED
      BY <2>1, <2>2
  <1>4. ASSUME NEW c \in Calls PROVE Drafted(c)'
    BY DEF Identities, Drafted, Stored
  <1>. QED
    BY <1>1, <1>2, <1>3, <1>4 DEF Identities

\* The rows that an operation of the database leaves.
LEMMA DeletedRows ==
    ASSUME NEW t \in Tables, NEW S \in SUBSET Keys
    PROVE  /\ \A k \in S : Delete(t, S).rows[k] = NoRow
           /\ \A k \in Keys \ S : Delete(t, S).rows[k] = t.rows[k]
  BY DEF Delete

LEMMA UpsertedRows ==
    ASSUME NEW t \in Tables, NEW k \in Keys, NEW row \in Rows
    PROVE  /\ \A j \in Keys \ {k} : Upsert(t, k, row).rows[j] = t.rows[j]
           /\ Upsert(t, k, row).rows[k] # NoRow
           /\ Upsert(t, k, row).rows[k].val = row.val
           /\ Upsert(t, k, row).rows[k].file = row.file
  <1>1. PICK u \in Tables : u = Upsert(t, k, row)
    BY UpsertTyped
  <1>2. \A j \in Keys \ {k} : u.rows[j] = t.rows[j]
    BY <1>1 DEF Upsert, Tables
  <1>3. \/ u.rows[k] = row
        \/ t.rows[k] \in Rows /\ u.rows[k] = [row EXCEPT !.id = t.rows[k].id]
    BY <1>1 DEF Upsert, Tables
  <1>4. u.rows[k] # NoRow /\ u.rows[k].val = row.val
        /\ u.rows[k].file = row.file
    BY <1>3, NoneAssumption DEF Rows
  <1>. QED
    BY <1>1, <1>2, <1>4

LEMMA TouchedRows ==
    ASSUME NEW t \in Tables, NEW id, NEW time \in 0 .. MaxClock,
           NEW k \in Keys
    PROVE  /\ t.rows[k] = NoRow => Touch(t, id, time).rows[k] = NoRow
           /\ t.rows[k] # NoRow =>
                  SameEntry(Touch(t, id, time).rows[k], t.rows[k])
  <1>1. PICK u \in Tables : u = Touch(t, id, time)
    BY TouchTyped
  <1>2. u.rows[k] = IF k \in WithId(t, id)
                    THEN [t.rows[k] EXCEPT !.used = time] ELSE t.rows[k]
    BY <1>1 DEF Touch, Tables
  <1>3. CASE k \in WithId(t, id)
    <2>1. t.rows[k] \in Rows /\ t.rows[k] # NoRow
      BY <1>3 DEF WithId, Present, Tables
    <2>2. u.rows[k] \in Rows /\ SameEntry(u.rows[k], t.rows[k])
      BY <1>2, <1>3, <2>1, NoneAssumption DEF Rows, SameEntry
    <2>. QED
      BY <1>1, <2>1, <2>2
  <1>4. CASE k \notin WithId(t, id)
    BY <1>1, <1>2, <1>4 DEF SameEntry
  <1>. QED
    BY <1>3, <1>4

LEMMA BodyDrafts ==
    ASSUME Control, NEW c \in Calls, Transact(c)
    PROVE  Drafted(c)'
  <1>1. /\ req[c] \in Requests /\ req[c].key \in Keys /\ db \in Tables
        /\ StoreTyped /\ CallsTyped /\ now[c] \in 0 .. MaxClock
        /\ db' = db /\ req' = req /\ hand' = hand /\ now' = now
        /\ pc[c] = "begin" /\ Body(c)
    BY DEF Transact, Control, Located, Requests, StoreTyped, CallsTyped
  <1>2. ASSUME NEW S \in SUBSET Keys, draft' = Delete(db, S)
        PROVE  \A k \in Keys : \/ draft'.rows[k] = NoRow
                               \/ SameEntry(draft'.rows[k], db.rows[k])
    BY <1>1, <1>2, DeletedRows DEF SameEntry
  <1>3. CASE req[c].op = "set" /\ StoreBody(c)
    <2>1. PICK t : t = Upsert(db, req[c].key, Row(c))
      OBVIOUS
    <2>2. t \in Tables
      BY <1>1, <2>1, RowTyped, UpsertTyped
    <2>3. PICK V \in SUBSET Keys : V = Victims(t)
      BY DEF Victims, Present
    <2>4. draft' = Delete(t, V)
      BY <1>3, <2>1, <2>3 DEF StoreBody
    <2>5. ASSUME NEW k \in Keys, draft'.rows[k] # NoRow
          PROVE  draft'.rows[k] = t.rows[k]
      BY <2>2, <2>4, <2>5, DeletedRows
    <2>6. ASSUME NEW k \in Keys \ {req[c].key}, draft'.rows[k] # NoRow
          PROVE  SameEntry(draft'.rows[k], db.rows[k])
      <3>1. t.rows[k] = db.rows[k]
        BY <1>1, <2>1, RowTyped, UpsertedRows
      <3>. QED
        BY <2>5, <2>6, <3>1 DEF SameEntry
    <2>7. /\ t.rows[req[c].key].val = c
          /\ t.rows[req[c].key].file = SpillOf(c, req[c])
      BY <1>1, <2>1, RowTyped, UpsertedRows
    <2>. QED
      BY <1>1, <1>3, <2>5, <2>6, <2>7 DEF Drafted, Stored
  <1>4. CASE req[c].op = "delete" /\ DropBody({req[c].key})
    BY <1>1, <1>2, <1>4 DEF DropBody, Drafted
  <1>5. CASE /\ req[c].op = "expire"
             /\ DropBody({k \in Keys : Expired(db.rows[k], now[c])})
    BY <1>1, <1>2, <1>5 DEF DropBody, Drafted
  <1>6. CASE /\ req[c].op = "clear"
             /\ draft' = Delete(db, Keys) /\ UNCHANGED spills
    BY <1>1, <1>2, <1>6 DEF Drafted
  <1>7. CASE /\ req[c].op = "get" /\ Expired(hand[c], now[c])
             /\ ExpireBody(c)
    <2>1. WithId(db, hand[c].id) \in SUBSET Keys
      BY DEF WithId, Present
    <2>. QED
      BY <1>1, <1>2, <1>7, <2>1 DEF ExpireBody, Drafted
  <1>8. CASE req[c].op = "get" /\ TouchBody(c)
    BY <1>1, <1>8, TouchedRows DEF TouchBody, Drafted, SameEntry
  <1>9. req[c].op \in {"get", "set", "delete", "clear", "expire"}
    BY <1>1 DEF Requests
  <1>. QED
    BY <1>1, <1>3, <1>4, <1>5, <1>6, <1>7, <1>8, <1>9 DEF Body

\* A commit makes the draft what other calls read.
LEMMA CommitIdentities ==
    ASSUME Control, Identities, NEW c \in Calls, Commit(c)
    PROVE  Identities'
  <1>1. /\ pc[c] = "commit" /\ db' = draft /\ draft' = draft
        /\ UNCHANGED <<req, now>> /\ writer = c
        /\ db \in Tables /\ draft \in Tables
    BY DEF Commit, Control, Located, StoreTyped
  <1>2. /\ \A d \in Calls \ {c} : pc'[d] = pc[d] /\ hand'[d] = hand[d]
        /\ pc'[c] \in {"sweep", "open", "end"}
        /\ hand'[c] \in {hand[c], NoRow}
        /\ req[c].op = "set" => pc'[c] = "end"
    BY <1>1 DEF Commit, Goto, Reply, Control, CallsTyped
  <1>3. \A k \in Keys : \/ draft.rows[k] = NoRow
                        \/ SameEntry(draft.rows[k], db.rows[k])
                        \/ Stored(c, k)
    BY <1>1 DEF Identities, Drafted
  <1>4. \A k \in Keys : db.rows[k] # NoRow => db.rows[k].val # c
    BY <1>1 DEF Identities, Unspent
  <1>5. Names(draft)
    <2>1. ASSUME NEW k \in Keys, draft.rows[k] # NoRow
          PROVE  Named(draft.rows[k])
      BY <1>3, <2>1
      DEF Identities, Names, Named, SameEntry, Stored, SpillOf
    <2>2. ASSUME NEW j \in Keys, NEW k \in Keys, j # k,
                 draft.rows[j] # NoRow, draft.rows[k] # NoRow
          PROVE  draft.rows[j].val # draft.rows[k].val
      BY <1>3, <1>4, <2>2 DEF Identities, Names, SameEntry, Stored
    <2>. QED
      BY <2>1, <2>2 DEF Names
  <1>6. ASSUME NEW d \in Calls PROVE Unspent(d)'
    <2>. SUFFICES ASSUME pc'[d] # "end" PROVE Unspent(d)'
      BY DEF Unspent
    <2>1. pc[d] # "end" /\ (d = c => req[c].op # "set")
      BY <1>1, <1>2
    <2>2. ASSUME NEW k \in Keys, draft.rows[k] # NoRow
          PROVE  draft.rows[k].val # d
      BY <1>3, <2>1, <2>2 DEF Identities, Unspent, SameEntry, Stored
    <2>3. ASSUME NEW e \in Calls, hand'[e] # NoRow PROVE hand'[e].val # d
      BY <1>2, <2>1, <2>3 DEF Identities, Unspent
    <2>. QED
      BY <1>1, <2>2, <2>3 DEF Unspent
  <1>7. ASSUME NEW d \in Calls PROVE Held(d)'
    <2>. SUFFICES ASSUME hand'[d] # NoRow PROVE Held(d)'
      BY DEF Held
    <2>1. hand'[d] = hand[d] /\ hand[d] # NoRow
      BY <1>2
    <2>2. ASSUME NEW k \in Keys, draft.rows[k] # NoRow,
                 draft.rows[k].val = hand[d].val
          PROVE  draft.rows[k].id = hand[d].id
      <3>1. hand[d].val # c
        BY <1>1, <2>1 DEF Identities, Unspent
      <3>. QED
        BY <1>3, <2>1, <2>2, <3>1 DEF Identities, Held, SameEntry, Stored
    <2>. QED
      BY <1>1, <2>1, <2>2 DEF Identities, Held
  <1>8. ASSUME NEW d \in Calls PROVE Drafted(d)'
    <2>1. pc'[d] # "commit"
      BY <1>1, <1>2 DEF Control, Located
    <2>. QED
      BY <2>1 DEF Drafted
  <1>. QED
    BY <1>1, <1>5, <1>6, <1>7, <1>8 DEF Identities, Names

\* A step of a call leaves the other calls where they are.
LEMMA StepLocal ==
    ASSUME Control, NEW c \in Calls,
           \/ Begin(c) \/ SpillFails(c) \/ Interrupt(c)
           \/ EnterWrite(c) \/ Select(c) \/ ReadSpill(c)
           \/ Transact(c) \/ Commit(c) \/ Sweep(c)
           \/ Rollback(c) \/ GiveUp(c)
    PROVE  \A d \in Calls \ {c} :
              /\ pc'[d] = pc[d] /\ req'[d] = req[d] /\ now'[d] = now[d]
              /\ hand'[d] = hand[d] /\ answer'[d] = answer[d]
  <1>. USE DEF Reply, Goto, Control, CallsTyped
  <1>1. CASE Begin(c) \/ SpillFails(c) \/ Interrupt(c) \/ EnterWrite(c)
    BY <1>1 DEF Begin, SpillFails, Interrupt, EnterWrite
  <1>2. CASE Select(c) \/ ReadSpill(c) \/ Transact(c) \/ Sweep(c)
    BY <1>2 DEF Select, ReadSpill, Transact, Sweep
  <1>3. CASE Commit(c)
    BY <1>3 DEF Commit
  <1>4. CASE Rollback(c) \/ GiveUp(c)
    BY <1>4 DEF Rollback, Retry, Raise, GiveUp
  <1>. QED
    BY <1>1, <1>2, <1>3, <1>4

\* A call is the only one at its commit.
LEMMA OneCommits ==
    ASSUME Control, NEW c \in Calls, NEW d \in Calls \ {c}, pc[d] = "commit"
    PROVE  writer = d /\ pc[c] # "commit"
  BY DEF Control, Located

\* Of the call that steps, and of those that do not.
LEMMA StepIdentities ==
    ASSUME Control, Identities, NEW c \in Calls, db' = db,
           OthersAlone(c), pc[c] # "end",
           \/ hand'[c] \in {hand[c], NoRow}
           \/ \E k \in Keys : hand'[c] = db.rows[k],
           pc'[c] = "commit" => Drafted(c)',
           draft' = draft \/ writer = Nobody \/ writer = c
    PROVE  Identities'
  <1>1. ASSUME NEW d \in Calls \ {c}, pc'[d] = "commit"
        PROVE  /\ pc[d] = "commit" /\ draft' = draft /\ req'[d] = req[d]
               /\ hand'[d] = hand[d] /\ now'[d] = now[d]
    <2>1. pc[d] = "commit"
      BY <1>1 DEF OthersAlone
    <2>2. writer = d /\ writer # Nobody
      BY <2>1, OneCommits, NoneAssumption
    <2>. QED
      BY <1>1, <2>1, <2>2 DEF OthersAlone
  <1>2. \A d \in Calls : pc[d] = "end" => pc'[d] = "end"
    BY DEF OthersAlone
  <1>3. \A d \in Calls : \/ hand'[d] \in {hand[d], NoRow}
                         \/ \E k \in Keys : hand'[d] = db.rows[k]
    BY DEF OthersAlone
  <1>. QED
    BY <1>1, <1>2, <1>3, IdentitiesFrame

LEMMA CallIdentities ==
    ASSUME Control, Identities, NEW c \in Calls,
           \/ Begin(c) \/ SpillFails(c) \/ Interrupt(c)
           \/ EnterWrite(c) \/ Select(c) \/ ReadSpill(c)
           \/ Transact(c) \/ Sweep(c) \/ Rollback(c) \/ GiveUp(c)
    PROVE  Identities'
  <1>. USE DEF disk
  <1>1. pc[c] # "end" /\ db' = db /\ Located(c)
    BY DEF Begin, SpillFails, Interrupt, EnterWrite, Select, ReadSpill,
           Transact, Sweep, Rollback, GiveUp, Control
  <1>2. \/ hand'[c] \in {hand[c], NoRow}
        \/ \E k \in Keys : hand'[c] = db.rows[k]
    <2>1. CASE Select(c)
      <3>1. req[c].key \in Keys
        BY <2>1 DEF Select, Control, Located, Requests
      <3>. QED
        BY <2>1, <3>1 DEF Select, Reply, Control, CallsTyped
    <2>. QED
      BY <2>1
      DEF Begin, SpillFails, Interrupt, EnterWrite, ReadSpill, Transact,
          Sweep, Rollback, Retry, Raise, GiveUp, Reply, Control, CallsTyped
  <1>3. draft' = draft \/ writer = Nobody \/ writer = c
    BY DEF Begin, SpillFails, Interrupt, EnterWrite, Select, ReadSpill,
           Transact, Sweep, Rollback, GiveUp, Control, Located
  <1>4. pc'[c] = "commit" => Drafted(c)'
    <2>1. CASE Transact(c)
      BY <2>1, BodyDrafts
    <2>2. CASE ~Transact(c)
      <3>1. pc'[c] # "commit"
        BY <2>2 DEF Begin, SpillFails, Interrupt, EnterWrite, Select,
           ReadSpill, Sweep, Rollback, Retry, Raise, GiveUp, Reply, Goto,
           Control, CallsTyped
      <3>. QED
        BY <3>1
    <2>. QED
      BY <2>1, <2>2
  <1>5. OthersAlone(c)
    <2>1. \A d \in Calls \ {c} : /\ pc'[d] = pc[d] /\ req'[d] = req[d]
                                 /\ now'[d] = now[d] /\ hand'[d] = hand[d]
                                 /\ answer'[d] = answer[d]
      BY StepLocal
    <2>2. \A d \in Calls \ {c} : writer' = d <=> writer = d
      BY NoneAssumption
      DEF Begin, SpillFails, Interrupt, EnterWrite, Select, ReadSpill,
          Transact, Sweep, Rollback, GiveUp, Control, Located
    <2>3. \A d \in Calls \ {c} : guard'[InstanceOf[d]] = d
                                    <=> guard[InstanceOf[d]] = d
      <3>1. CASE Release(c) /\ pc[c] \in {"begin", "commit", "sweep"}
        BY <3>1, ReleaseFacts
      <3>2. CASE /\ guard[InstanceOf[c]] = Nobody
                 /\ guard' = [guard EXCEPT ![InstanceOf[c]] = c]
        BY <3>2, TakeFacts
      <3>3. CASE guard' = guard
        BY <3>3
      <3>. QED
        BY <3>1, <3>2, <3>3
        DEF Begin, SpillFails, Interrupt, EnterWrite, Select, ReadSpill,
            Transact, Sweep, Rollback, Retry, Raise, GiveUp
    <2>. QED
      BY <2>1, <2>2, <2>3 DEF OthersAlone
  <1>. QED
    BY <1>1, <1>2, <1>3, <1>4, <1>5, StepIdentities

LEMMA OtherIdentities ==
    ASSUME Control, Identities,
           \/ \E i \in Instances : Crash(i)
           \/ Tick \/ UNCHANGED vars
    PROVE  Identities'
  <1>. USE DEF vars, disk, control
  <1>1. CASE Tick \/ UNCHANGED vars
    <2>1. /\ db' = db /\ draft' = draft /\ pc' = pc /\ req' = req
          /\ hand' = hand /\ now' = now
      BY <1>1 DEF Tick
    <2>. QED
      BY <2>1, IdentitiesFrame
  <1>2. ASSUME NEW i \in Instances, Crash(i) PROVE Identities'
    <2>1. PICK dying \in SUBSET Running :
              /\ \A c \in dying : pc'[c] = "end" /\ hand'[c] = NoRow
              /\ \A c \in Calls \ dying : pc'[c] = pc[c] /\ hand'[c] = hand[c]
              /\ \/ writer \in dying /\ writer' = Nobody /\ draft' = db
                 \/ writer \notin dying /\ UNCHANGED <<writer, draft>>
      BY <1>2, CrashFacts
    <2>2. db' = db /\ req' = req /\ now' = now
      BY <1>2 DEF Crash
    <2>3. ASSUME NEW c \in Calls, pc'[c] = "commit"
          PROVE  pc[c] = "commit" /\ draft' = draft /\ hand'[c] = hand[c]
      <3>1. c \notin dying /\ pc[c] = "commit" /\ hand'[c] = hand[c]
        BY <2>1, <2>3
      <3>2. writer = c
        BY <3>1 DEF Control, Located
      <3>. QED
        BY <2>1, <3>1, <3>2
    <2>4. \A c \in Calls : pc[c] = "end" => pc'[c] = "end"
      BY <2>1
    <2>5. \A c \in Calls : hand'[c] \in {hand[c], NoRow}
      BY <2>1
    <2>. QED
      BY <2>2, <2>3, <2>4, <2>5, IdentitiesFrame
  <1>. QED
    BY <1>1, <1>2

LEMMA NextIdentities ==
    ASSUME Control, Identities, [Next]_vars
    PROVE  Identities'
  BY Steps, CommitIdentities, CallIdentities, OtherIdentities

\* A value is stored once, in one row, under the name of the call that stored
\* it, and the open transaction has done to the rows what its call asks.
THEOREM IdentitiesHold == Spec => []Identities
  <1>1. Init => Identities
    BY InitIdentities
  <1>2. Control /\ Identities /\ [Next]_vars => Identities'
    BY NextIdentities
  <1>. QED
    BY <1>1, <1>2, ControlHolds, PTL DEF Spec

-----------------------------------------------------------------------------
\* The outcome of a call, by what it has selected and answered.
LEMMA OutcomeFacts ==
    ASSUME NEW c \in Calls
    PROVE  /\ answer[c] # Pending => Outcome[c] = answer[c]
           /\ answer[c] = Pending /\ hand[c] = NoRow => Outcome[c] = Pending
           /\ answer[c] = Pending /\ hand[c] # NoRow =>
                  Outcome[c] = IF Expired(hand[c], now[c]) THEN "miss"
                               ELSE hand[c].val
  BY DEF Outcome

\* The same after a step.
LEMMA OutcomeFactsNext ==
    ASSUME NEW c \in Calls
    PROVE  /\ answer'[c] # Pending => Outcome'[c] = answer'[c]
           /\ answer'[c] = Pending /\ hand'[c] = NoRow => Outcome'[c] = Pending
           /\ answer'[c] = Pending /\ hand'[c] # NoRow =>
                  Outcome'[c] = IF Expired(hand'[c], now'[c]) THEN "miss"
                                ELSE hand'[c].val
  BY DEF Outcome, Expired

\* A step of a call moves its own outcome alone.
LEMMA OutcomeLocal ==
    ASSUME NEW c \in Calls,
           \A d \in Calls \ {c} : /\ now'[d] = now[d] /\ hand'[d] = hand[d]
                                  /\ answer'[d] = answer[d]
    PROVE  /\ Outcome' = [Outcome EXCEPT ![c] = Outcome'[c]]
           /\ Outcome'[c] = Outcome[c] => Outcome' = Outcome
  <1>1. \A d \in Calls \ {c} : Outcome'[d] = Outcome[d]
    BY DEF Outcome, Expired
  <1>2. /\ Outcome = [d \in Calls |-> Outcome[d]]
        /\ Outcome' = [d \in Calls |-> Outcome'[d]]
    BY DEF Outcome
  <1>. QED
    BY <1>1, <1>2

\* A row that stays keeps its cell, one that goes empties it.
StaysOrGoes(k) == db'.rows[k] = NoRow \/ SameEntry(db'.rows[k], db.rows[k])

LEMMA CellStays ==
    ASSUME NEW k \in Keys, StaysOrGoes(k)
    PROVE  Cell'[k] \in {Cell[k], NoRow}
  BY DEF StaysOrGoes, SameEntry, Cell

\* The steps of the abstract specification, by what they do to the two views.
LEMMA Fails ==
    ASSUME Cell' = Cell,
           \A c \in Calls : Outcome'[c] \in {Outcome[c], "raised", "killed"}
    PROVE  Abstract!Next
  <1>1. Outcome' \in [Calls -> Abstract!Range(Outcome) \cup {"raised", "killed"}]
    BY DEF Outcome, Abstract!Range
  <1>. QED
    BY <1>1 DEF Abstract!Next, Abstract!Fail

LEMMA Loses ==
    ASSUME \A k \in Keys : StaysOrGoes(k)
    PROVE  /\ Cell' \in [Keys -> Abstract!Range(Cell) \cup {NoRow}]
           /\ Abstract!Lose(Keys)
  <1>1. \A k \in Keys : Cell'[k] \in {Cell[k], NoRow}
    BY CellStays
  <1>2. DOMAIN Cell' = Keys /\ DOMAIN Cell = Keys
    BY DEF Cell
  <1>3. Cell' \in [Keys -> Abstract!Range(Cell) \cup {NoRow}]
    BY <1>1, <1>2 DEF Abstract!Range, Cell
  <1>. QED
    BY <1>1, <1>3 DEF Abstract!Lose

\* What a cell holds.
LEMMA CellTyped ==
    ASSUME Control, NEW k \in Keys, db.rows[k] # NoRow
    PROVE  /\ Cell[k] = [val |-> db.rows[k].val,
                         mortal |-> db.rows[k].dies # Forever]
           /\ Cell[k] # NoRow
           /\ Cell[k] \in [val : Setters, mortal : BOOLEAN]
  <1>1. db.rows[k].val \in Setters
    BY DEF Control, StoreTyped, Tables, Rows
  <1>2. Cell[k] = [val |-> db.rows[k].val,
                   mortal |-> db.rows[k].dies # Forever]
    BY DEF Cell
  <1>3. Cell[k] \in [val : Setters, mortal : BOOLEAN]
    BY <1>1, <1>2
  <1>. QED
    BY <1>2, <1>3, NoneAssumption

\* A select: the call answers, now or later, what its cell holds.
LEMMA SelectRefines ==
    ASSUME Control, NEW c \in Calls, Select(c)
    PROVE  Abstract!Next
  <1>1. /\ pc[c] = "enter" /\ Located(c) /\ req[c].key \in Keys
        /\ answer[c] = Pending /\ hand[c] = NoRow
        /\ db' = db /\ now' = now /\ now[c] \in 0 .. MaxClock
    BY DEF Select, Control, Located, Requests, disk, CallsTyped
  <1>2. PICK k \in Keys : k = req[c].key
    BY <1>1
  <1>3. Cell' = Cell
    BY <1>1 DEF Cell
  <1>4. Outcome[c] = Pending /\ Outcome' = [Outcome EXCEPT ![c] = Outcome'[c]]
    BY <1>1, OutcomeFacts, StepLocal, OutcomeLocal
  <1>5. CASE db.rows[k] = NoRow
    <2>1. answer'[c] = "miss"
      BY <1>2, <1>5 DEF Select, Reply, Control, CallsTyped
    <2>2. Outcome'[c] = "miss" /\ Cell[k] = NoRow
      BY <1>5, <2>1, OutcomeFactsNext, NoneAssumption DEF Cell
    <2>3. Abstract!Get(c, k)
      BY <1>3, <1>4, <2>2 DEF Abstract!Get, Abstract!Come
    <2>. QED
      BY <2>3 DEF Abstract!Next
  <1>6. CASE db.rows[k] # NoRow
    <2>1. PICK row \in Rows : row = db.rows[k]
      BY <1>6 DEF Control, StoreTyped, Tables
    <2>2. /\ row # NoRow /\ row.val \in Setters /\ row.val # Pending
          /\ row.dies \in 0 .. Forever
      BY <1>6, <2>1, NoneAssumption DEF Rows
    <2>3. \/ answer' = answer /\ hand'[c] = row
          \/ /\ answer'[c] = row.val /\ ~Expired(row, now[c])
      BY <1>2, <1>6, <2>1 DEF Select, Reply, Control, CallsTyped
    <2>4. Outcome'[c] = IF Expired(row, now[c]) THEN "miss" ELSE row.val
      BY <1>1, <2>2, <2>3, OutcomeFactsNext
    <2>5. Expired(row, now[c]) => row.dies # Forever
      BY <1>1, <2>2, NumbersAssumption DEF Expired, Forever
    <2>6. /\ Cell[k] # NoRow /\ Cell[k].val = row.val
          /\ Expired(row, now[c]) => Cell[k].mortal
      <3>1. PICK m : m = (row.dies # Forever)
        OBVIOUS
      <3>2. Cell[k] = [val |-> row.val, mortal |-> m] /\ Cell[k] # NoRow
        BY <1>6, <2>1, <3>1, CellTyped
      <3>3. Cell[k].val = row.val /\ Cell[k].mortal = m
        BY <3>2
      <3>. QED
        BY <2>5, <3>1, <3>2, <3>3
    <2>7. Abstract!Get(c, k)
      <3>1. CASE Expired(row, now[c])
        BY <1>3, <1>4, <2>4, <2>6, <3>1 DEF Abstract!Get, Abstract!Come
      <3>2. CASE ~Expired(row, now[c])
        BY <1>3, <1>4, <2>4, <2>6, <3>2 DEF Abstract!Get, Abstract!Come
      <3>. QED
        BY <3>1, <3>2
    <2>. QED
      BY <2>7 DEF Abstract!Next
  <1>. QED
    BY <1>5, <1>6

\* The file a reader opens holds the value it has selected, or has gone.
LEMMA ReadRefines ==
    ASSUME Control, Identities, NEW c \in Calls, ReadSpill(c)
    PROVE  Abstract!Next
  <1>1. /\ pc[c] = "open" /\ Located(c) /\ answer[c] = Pending
        /\ hand[c] # NoRow /\ hand[c].file # NoFile
        /\ ~Expired(hand[c], now[c]) /\ db' = db
        /\ hand[c] \in Rows
    BY DEF ReadSpill, Control, Located, disk, CallsTyped
  <1>2. hand[c].file = hand[c].val
    BY <1>1 DEF Identities, Held, Named
  <1>3. hand[c].file \in Files /\ hand[c].val \in Setters
    BY <1>1 DEF Rows, Files
  <1>4. spills[hand[c].file] \in {hand[c].val, Pending}
    BY <1>2, <1>3 DEF Control, StoreTyped
  <1>5. answer'[c] \in {hand[c].val, "raised"} /\ hand[c].val # Pending
    BY <1>3, <1>4, NoneAssumption
    DEF ReadSpill, Reply, Control, CallsTyped
  <1>6. Outcome[c] = hand[c].val
    BY <1>1, OutcomeFacts
  <1>7. Outcome'[c] \in {Outcome[c], "raised"}
    BY <1>5, <1>6, OutcomeFactsNext, NoneAssumption
  <1>8. \A d \in Calls : Outcome'[d] \in {Outcome[d], "raised", "killed"}
    BY <1>7, StepLocal DEF Outcome, Expired
  <1>9. Cell' = Cell
    BY <1>1 DEF Cell
  <1>. QED
    BY <1>8, <1>9, Fails

\* The commit: a set lands, rows go, and a get answers what it has selected.
LEMMA CommitRefines ==
    ASSUME Control, Identities, NEW c \in Calls, Commit(c)
    PROVE  Abstract!Next
  <1>1. /\ pc[c] = "commit" /\ Located(c) /\ answer[c] = Pending
        /\ req[c] \in Requests /\ req[c].key \in Keys
        /\ db' = draft /\ now' = now /\ Drafted(c)
    BY DEF Commit, Control, Located, Requests, Identities
  <1>2. Outcome' = [Outcome EXCEPT ![c] = Outcome'[c]]
    BY StepLocal, OutcomeLocal
  <1>3. CASE req[c].op = "set"
    <2>1. hand[c] = NoRow /\ answer'[c] = "done"
      BY <1>1, <1>3 DEF Commit, Located, Reply, Control, CallsTyped
    <2>2. Outcome[c] = Pending /\ Outcome'[c] = "done"
      BY <1>1, <2>1, OutcomeFacts, OutcomeFactsNext, NoneAssumption
    <2>3. PICK k \in Keys : k = req[c].key
      BY <1>1
    <2>4. \A j \in Keys \ {k} : Cell'[j] \in {Cell[j], NoRow}
      BY <1>1, <2>3, CellStays DEF Drafted, Stored, StaysOrGoes
    <2>5. Cell'[k] = NoRow \/ Cell'[k].val = c
      <3>1. db'.rows[k] = NoRow \/ db'.rows[k].val = c
        BY <1>1, <1>3, <2>3 DEF Drafted, Stored
      <3>. QED
        BY <3>1 DEF Cell
    <2>6. Cell' \in [Keys -> [val : Calls \cup Earlier, mortal : BOOLEAN]
                                \cup {NoRow}]
      <3>1. ASSUME NEW j \in Keys, db'.rows[j] # NoRow
            PROVE  db'.rows[j].val \in Calls \cup Earlier
        BY <1>1, <3>1 DEF Control, StoreTyped, Tables, Rows, Setters
      <3>. QED
        BY <3>1 DEF Cell
    <2>7. Abstract!Put(c, k)
      BY <1>2, <2>2, <2>4, <2>5, <2>6
      DEF Abstract!Put, Abstract!Come, Abstract!Lose
    <2>. QED
      BY <2>7 DEF Abstract!Next
  <1>4. CASE req[c].op # "set"
    <2>1. \A k \in Keys : StaysOrGoes(k)
      BY <1>1, <1>4 DEF Drafted, Stored, StaysOrGoes
    <2>2. CASE answer'[c] = "done" /\ req[c].op # "get"
      <3>1. hand[c] = NoRow
        BY <1>1, <2>2 DEF Located
      <3>2. Outcome[c] = Pending /\ Outcome'[c] = "done"
        BY <1>1, <2>2, <3>1, OutcomeFacts, OutcomeFactsNext, NoneAssumption
      <3>3. Abstract!Remove(c)
        BY <1>2, <2>1, <3>2, Loses DEF Abstract!Remove, Abstract!Come
      <3>. QED
        BY <3>3 DEF Abstract!Next
    <2>3. CASE Outcome'[c] = Outcome[c]
      <3>1. Outcome' = Outcome
        BY <2>3, StepLocal, OutcomeLocal
      <3>. QED
        BY <2>1, <3>1, Loses DEF Abstract!Next, Abstract!Evict
    <2>4. CASE req[c].op = "get"
      <3>1. hand[c] # NoRow /\ hand[c] \in Rows
        BY <1>1, <2>4 DEF Located, Control, CallsTyped
      <3>2. hand[c].val # Pending
        BY <3>1, NoneAssumption DEF Rows
      <3>3. \/ Expired(hand[c], now[c]) /\ answer'[c] = "miss"
            \/ ~Expired(hand[c], now[c]) /\ answer'[c] = hand[c].val
            \/ answer' = answer /\ hand' = hand
        BY <1>1, <2>4 DEF Commit, Reply, Control, CallsTyped
      <3>4. Outcome'[c] = Outcome[c]
        BY <1>1, <3>1, <3>2, <3>3, OutcomeFacts, OutcomeFactsNext,
           NoneAssumption
      <3>. QED
        BY <2>3, <3>4
    <2>5. CASE req[c].op = "clear"
      <3>1. answer' = answer /\ hand' = hand
        BY <2>5 DEF Commit
      <3>2. Outcome'[c] = Outcome[c]
        BY <1>1, <3>1, OutcomeFacts, OutcomeFactsNext
      <3>. QED
        BY <2>3, <3>2
    <2>6. CASE req[c].op \in {"delete", "expire"}
      <3>1. answer'[c] = "done"
        BY <2>6 DEF Commit, Reply, Control, CallsTyped
      <3>. QED
        BY <2>2, <2>6, <3>1
    <2>. QED
      BY <1>1, <1>4, <2>4, <2>5, <2>6 DEF Requests
  <1>. QED
    BY <1>3, <1>4

\* A step that leaves the rows, and the outcome of the call or fails it.
LEMMA QuietRefines ==
    ASSUME Control, NEW c \in Calls, db' = db,
           \A d \in Calls \ {c} : /\ now'[d] = now[d] /\ hand'[d] = hand[d]
                                  /\ answer'[d] = answer[d],
           Outcome'[c] \in {Outcome[c], "raised"}
    PROVE  Abstract!Next
  <1>1. Cell' = Cell
    BY DEF Cell
  <1>2. \A d \in Calls : Outcome'[d] \in {Outcome[d], "raised", "killed"}
    BY DEF Outcome, Expired
  <1>. QED
    BY <1>1, <1>2, Fails

LEMMA RestRefines ==
    ASSUME Control, NEW c \in Calls,
           \/ Begin(c) \/ SpillFails(c) \/ Interrupt(c) \/ EnterWrite(c)
           \/ Transact(c) \/ Rollback(c) \/ GiveUp(c)
    PROVE  Abstract!Next
  <1>. USE DEF disk
  <1>1. db' = db /\ answer[c] = Pending
    BY DEF Begin, SpillFails, Interrupt, EnterWrite, Transact, Rollback,
           GiveUp, Control, Located
  <1>2. \/ answer'[c] = "raised"
        \/ answer' = answer /\ hand' = hand /\ now'[c] = now[c]
        \/ answer' = answer /\ hand' = hand /\ hand[c] = NoRow
    <2>1. CASE Begin(c)
      BY <2>1 DEF Begin, Control, Located
    <2>2. CASE EnterWrite(c) \/ Transact(c)
      BY <2>2 DEF EnterWrite, Transact
    <2>3. CASE SpillFails(c) \/ Interrupt(c)
      BY <2>3 DEF SpillFails, Interrupt, Reply, Control, CallsTyped
    <2>4. CASE Rollback(c) \/ GiveUp(c)
      BY <2>4 DEF Rollback, GiveUp, Retry, Raise, Reply, Control, CallsTyped
    <2>. QED
      BY <2>1, <2>2, <2>3, <2>4
  <1>3. Outcome'[c] \in {Outcome[c], "raised"}
    BY <1>1, <1>2, OutcomeFacts, OutcomeFactsNext, NoneAssumption
  <1>. QED
    BY <1>1, <1>3, StepLocal, QuietRefines

\* The rmtree: the call of a clear is done, its rows went at its commit.
LEMMA SweepRefines ==
    ASSUME Control, NEW c \in Calls, Sweep(c)
    PROVE  Abstract!Next
  <1>1. /\ db' = db /\ answer[c] = Pending /\ hand[c] = NoRow
        /\ answer'[c] = "done"
    BY DEF Sweep, Control, Located, Reply, CallsTyped
  <1>2. Outcome[c] = Pending /\ Outcome'[c] = "done"
    BY <1>1, OutcomeFacts, OutcomeFactsNext, NoneAssumption
  <1>3. Outcome' = [Outcome EXCEPT ![c] = "done"]
    BY <1>2, StepLocal, OutcomeLocal
  <1>4. Cell' = Cell
    BY <1>1 DEF Cell
  <1>5. /\ Cell' \in [Keys -> Abstract!Range(Cell) \cup {NoRow}]
        /\ Abstract!Lose(Keys)
    BY <1>4 DEF Abstract!Range, Abstract!Lose, Cell
  <1>6. Abstract!Remove(c)
    BY <1>2, <1>3, <1>5 DEF Abstract!Remove, Abstract!Come
  <1>. QED
    BY <1>6 DEF Abstract!Next

LEMMA CrashRefines ==
    ASSUME Control, NEW i \in Instances, Crash(i)
    PROVE  Abstract!Next
  <1>1. db' = db /\ now' = now
    BY DEF Crash
  <1>2. ASSUME NEW c \in Calls
        PROVE  Outcome'[c] \in {Outcome[c], "raised", "killed"}
    <2>1. CASE answer'[c] = "killed"
      BY <2>1, OutcomeFactsNext, NoneAssumption
    <2>2. CASE answer'[c] = answer[c] /\ hand'[c] = hand[c]
      BY <1>1, <2>2 DEF Outcome, Expired
    <2>. QED
      BY <2>1, <2>2 DEF Crash
  <1>3. Cell' = Cell
    BY <1>1 DEF Cell
  <1>. QED
    BY <1>2, <1>3, Fails

LEMMA RefinesNext ==
    Control /\ Identities /\ [Next]_vars => [Abstract!Next]_(Abstract!vars)
  <1>. SUFFICES ASSUME Control, Identities, [Next]_vars
                PROVE  Abstract!Next \/ UNCHANGED <<Cell, Outcome>>
    BY DEF Abstract!vars
  <1>1. ASSUME Tick \/ UNCHANGED vars PROVE UNCHANGED <<Cell, Outcome>>
    BY <1>1 DEF Tick, vars, disk, control, Cell, Outcome, Expired
  <1>. QED
    BY <1>1, Steps, SelectRefines, ReadRefines, CommitRefines, RestRefines,
       SweepRefines, CrashRefines

\* ImplementsCacheProtocol: one cell per key, for the readers that open a spill
\* file after they have left the lock too.
THEOREM Refinement == Spec => ImplementsCacheProtocol
  <1>1. Init => Abstract!Init
    <2>. SUFFICES ASSUME Init PROVE Abstract!Init
      OBVIOUS
    <2>1. Outcome = [c \in Calls |-> Pending]
      BY OutcomeFacts DEF Init, Outcome
    <2>2. PICK rows \in InitRows :
            LET t == [rows |-> rows, size |-> 0]
            IN  /\ db = [t EXCEPT !.size = SizeOf(t, Keys)]
                /\ spills = [f \in Setters \cup Keys |->
                                IF f \in FilesOf(t, Keys) THEN f ELSE Pending]
      BY DEF Init
    <2>3. db.rows = rows
      BY <2>2
    <2>4. ASSUME NEW k \in Keys, rows[k] # NoRow
          PROVE  rows[k].val \in Earlier
      BY <2>4, RowsAssumption
    <2>5. Cell \in [Keys -> [val : Earlier, mortal : BOOLEAN] \cup {NoRow}]
      BY <2>3, <2>4 DEF Cell
    <2>. QED
      BY <2>1, <2>5 DEF Abstract!Init
  <1>. QED
    BY <1>1, RefinesNext, ControlHolds, IdentitiesHold, PTL
    DEF Spec, ImplementsCacheProtocol, Abstract!Spec

-----------------------------------------------------------------------------
\* The spill of a set that is on its way is there, unless a clear swept it, a
\* retry found it gone, or its own transaction has culled it.
Intact(c) ==
    /\ Spilled(req[c]) /\ pc[c] \in {"enter", "begin", "commit"}
    /\ spills[c] = Pending
    => c \in swept \/ (pc[c] = "commit" /\ c \notin FilesOf(draft, Keys))

\* What the open transaction has dropped from the rows, it has unlinked.
Dropped(c) ==
    pc[c] = "commit" /\ req[c].op \in {"set", "delete", "expire"} =>
        \A f \in (FilesOf(db, Keys) \cup {SpillOf(c, req[c])}) \ {NoFile} :
            f \in FilesOf(draft, Keys) \/ spills[f] = Pending

SpillsKept == \A c \in Calls : Intact(c) /\ Dropped(c)

LEMMA FilesFacts ==
    ASSUME NEW t, NEW S \in SUBSET Keys, NEW f
    PROVE  f \in FilesOf(t, S) <=>
               /\ f # NoFile
               /\ \E k \in S : t.rows[k] # NoRow /\ t.rows[k].file = f
  BY DEF FilesOf, Present

\* Where each name is, a file is in the row of the call it is named for.
LEMMA NamedFiles ==
    ASSUME NEW t, Names(t), NEW f \in FilesOf(t, Keys)
    PROVE  \E k \in Keys :
              /\ t.rows[k] # NoRow /\ t.rows[k].file = f /\ t.rows[k].val = f
              /\ \A j \in Keys : t.rows[j] # NoRow /\ t.rows[j].file = f
                                    => j = k
  <1>1. PICK k \in Keys : t.rows[k] # NoRow /\ t.rows[k].file = f /\ f # NoFile
    BY FilesFacts
  <1>2. t.rows[k].val = f
    BY <1>1 DEF Names, Named
  <1>3. ASSUME NEW j \in Keys, t.rows[j] # NoRow, t.rows[j].file = f
        PROVE  j = k
    <2>1. t.rows[j].val = f
      BY <1>1, <1>3 DEF Names, Named
    <2>. QED
      BY <1>1, <1>2, <1>3, <2>1 DEF Names
  <1>. QED
    BY <1>1, <1>2, <1>3

\* A call that has not ended is named by no row, nor by a get.
LEMMA UnspentFiles ==
    ASSUME Identities, NEW c \in Calls, pc[c] # "end"
    PROVE  /\ c \notin FilesOf(db, Keys)
           /\ \A d \in Calls : hand[d] # NoRow => hand[d].file # c
  <1>1. c \notin FilesOf(db, Keys)
    BY NamedFiles DEF Identities, Unspent
  <1>. QED
    BY <1>1, NoneAssumption DEF Setters, Identities, Unspent, Held, Named

LEMMA SpillFacts ==
    ASSUME NEW c \in Calls, NEW r
    PROVE  /\ SpillOf(c, r) \in {c, NoFile}
           /\ SpillOf(c, r) = c <=> Spilled(r)
           /\ Spilled(r) => r.op = "set"
           /\ c # NoFile /\ c \in Files
  BY NoneAssumption DEF SpillOf, Spilled, Setters, Files

LEMMA UnlinkFacts ==
    ASSUME Control, NEW F, Unlink(F), NEW f \in Files
    PROVE  spills'[f] = IF f \in F THEN Pending ELSE spills[f]
  BY DEF Unlink, Control, StoreTyped

\* What the body of a transaction unlinks is not in the draft; what it drops
\* it unlinks; and it leaves the spills of the other sets.
BodyFiles(c) ==
    /\ \A f \in FilesOf(draft', Keys) \cap Files : spills'[f] = spills[f]
    /\ \A d \in Calls \ {c} : pc[d] # "end" => spills'[d] = spills[d]
    /\ req[c].op \in {"set", "delete", "expire"} =>
          \A f \in (FilesOf(db, Keys) \cup {SpillOf(c, req[c])}) \ {NoFile} :
              f \in FilesOf(draft', Keys) \/ spills'[f] = Pending

LEMMA DeleteFiles ==
    ASSUME NEW t \in Tables, NEW S \in SUBSET Keys, NEW f
    PROVE  f \in FilesOf(Delete(t, S), Keys) <=> f \in FilesOf(t, Keys \ S)
  BY DeletedRows, FilesFacts

\* A delete of the rows of S and of their files.
LEMMA DropFiles ==
    ASSUME Control, Identities, NEW c \in Calls, pc[c] = "begin",
           req[c].op # "set", NEW S \in SUBSET Keys, DropBody(S)
    PROVE  BodyFiles(c)
  <1>1. /\ db \in Tables /\ Names(db)
        /\ Unlink(FilesOf(db, S))
        /\ draft' = Delete(db, S)
    BY DEF Control, StoreTyped, Identities, DropBody
  <1>2. ASSUME NEW f \in FilesOf(draft', Keys) \cap Files
        PROVE  spills'[f] = spills[f]
    <2>1. f \in FilesOf(db, Keys \ S)
      BY <1>1, DeleteFiles
    <2>2. f \in FilesOf(db, Keys)
      BY <2>1, FilesFacts
    <2>3. f \notin FilesOf(db, S)
      BY <1>1, <2>1, <2>2, FilesFacts, NamedFiles
    <2>. QED
      BY <1>1, <2>3, UnlinkFacts
  <1>3. ASSUME NEW d \in Calls \ {c}, pc[d] # "end"
        PROVE  spills'[d] = spills[d]
    <2>1. d \notin FilesOf(db, S)
      BY <1>3, UnspentFiles, FilesFacts
    <2>. QED
      BY <1>1, <2>1, UnlinkFacts, SpillFacts
  <1>4. ASSUME NEW f \in FilesOf(db, Keys)
        PROVE  f \in FilesOf(draft', Keys) \/ spills'[f] = Pending
    <2>1. f \in FilesOf(db, S) \/ f \in FilesOf(db, Keys \ S)
      BY <1>4, FilesFacts
    <2>2. CASE f \in FilesOf(db, S)
      <3>1. f \in Files
        BY <1>1, <1>4, NamedFiles DEF Tables, Rows, Files
      <3>. QED
        BY <1>1, <2>2, <3>1, UnlinkFacts
    <2>3. CASE f \in FilesOf(db, Keys \ S)
      BY <1>1, <2>3, DeleteFiles
    <2>. QED
      BY <2>1, <2>2, <2>3
  <1>5. SpillOf(c, req[c]) = NoFile
    BY SpillFacts
  <1>. QED
    BY <1>2, <1>3, <1>4, <1>5 DEF BodyFiles

LEMMA SetFiles ==
    ASSUME Control, Identities, NEW c \in Calls, pc[c] = "begin",
           req[c].op = "set", StoreBody(c)
    PROVE  BodyFiles(c)
  <1>1. /\ db \in Tables /\ Names(db) /\ req[c].key \in Keys
        /\ req[c] \in Requests /\ StoreTyped /\ CallsTyped
        /\ \A k \in Keys : db.rows[k] # NoRow => db.rows[k].val # c
    BY DEF Control, Located, Requests, StoreTyped, Identities, Unspent
  <1>2. PICK k \in Keys : k = req[c].key
    BY <1>1
  <1>3. PICK own : own = SpillOf(c, req[c])
    OBVIOUS
  <1>4. PICK t \in Tables : t = Upsert(db, k, Row(c))
    BY <1>1, <1>2, RowTyped, UpsertTyped
  <1>5. PICK V \in SUBSET Keys : V = Victims(t)
    BY DEF Victims, Present
  <1>6. /\ draft' = Delete(t, V)
        /\ Unlink((FilesOf(db, {k}) \ {own}) \cup FilesOf(t, V))
    BY <1>2, <1>3, <1>4, <1>5 DEF StoreBody
  <1>7. /\ \A j \in Keys \ {k} : t.rows[j] = db.rows[j]
        /\ t.rows[k] # NoRow /\ t.rows[k].val = c /\ t.rows[k].file = own
        /\ own \in {c, NoFile}
    BY <1>1, <1>3, <1>4, RowTyped, UpsertedRows, SpillFacts
  <1>8. Names(t)
    BY <1>1, <1>7 DEF Names, Named
  <1>9. ASSUME NEW f \in Files
        PROVE  spills'[f] = IF f \in (FilesOf(db, {k}) \ {own})
                                         \cup FilesOf(t, V)
                            THEN Pending ELSE spills[f]
    BY <1>6, UnlinkFacts
  <1>10. ASSUME NEW f \in FilesOf(draft', Keys) \cap Files
         PROVE  spills'[f] = spills[f]
    <2>1. f \in FilesOf(t, Keys \ V)
      BY <1>6, DeleteFiles
    <2>2. PICK j \in Keys \ V : /\ f # NoFile /\ t.rows[j] # NoRow
                                /\ t.rows[j].file = f
      BY <2>1, FilesFacts
    <2>3. f \in FilesOf(t, Keys)
      BY <2>2, FilesFacts
    <2>4. f \notin FilesOf(t, V)
      BY <1>8, <2>2, <2>3, FilesFacts, NamedFiles
    <2>5. f \notin FilesOf(db, {k}) \ {own}
      <3>1. CASE j = k
        BY <1>7, <2>2, <3>1
      <3>2. CASE j # k
        <4>1. db.rows[j] # NoRow /\ db.rows[j].file = f
          BY <1>7, <2>2, <3>2
        <4>2. f \in FilesOf(db, Keys)
          BY <2>2, <4>1, FilesFacts
        <4>3. f \notin FilesOf(db, {k})
          BY <1>1, <3>2, <4>1, <4>2, FilesFacts, NamedFiles
        <4>. QED
          BY <4>3
      <3>. QED
        BY <3>1, <3>2
    <2>. QED
      BY <1>9, <2>4, <2>5
  <1>11. ASSUME NEW d \in Calls \ {c}, pc[d] # "end"
         PROVE  spills'[d] = spills[d]
    <2>1. d \notin FilesOf(db, Keys) /\ d # NoFile /\ d \in Files
      BY <1>11, UnspentFiles, SpillFacts
    <2>2. d \notin FilesOf(db, {k})
      BY <2>1, FilesFacts
    <2>3. d \notin FilesOf(t, V)
      BY <1>7, <1>11, <2>1, FilesFacts
    <2>. QED
      BY <1>9, <2>1, <2>2, <2>3
  <1>12. ASSUME NEW j \in Keys, NEW f, t.rows[j] # NoRow,
                t.rows[j].file = f, f # NoFile
         PROVE  f \in FilesOf(draft', Keys) \/ spills'[f] = Pending
    <2>1. f \in Files
      BY <1>12 DEF Tables, Rows, Files
    <2>2. CASE j \in V
      <3>1. f \in FilesOf(t, V)
        BY <1>12, <2>2, FilesFacts
      <3>. QED
        BY <1>9, <2>1, <3>1
    <2>3. CASE j \notin V
      <3>1. f \in FilesOf(t, Keys \ V)
        BY <1>12, <2>3, FilesFacts
      <3>. QED
        BY <1>6, <3>1, DeleteFiles
    <2>. QED
      BY <2>2, <2>3
  <1>13. ASSUME NEW f \in (FilesOf(db, Keys) \cup {own}) \ {NoFile}
         PROVE  f \in FilesOf(draft', Keys) \/ spills'[f] = Pending
    <2>1. CASE f = own
      BY <1>7, <1>12, <1>13, <2>1
    <2>2. CASE f # own
      <3>1. PICK j \in Keys : db.rows[j] # NoRow /\ db.rows[j].file = f
        BY <1>13, <2>2, FilesFacts
      <3>2. CASE j = k
        <4>1. f \in FilesOf(db, {k}) \ {own} /\ f \in Files
          BY <1>1, <1>13, <2>2, <3>1, <3>2, FilesFacts
          DEF Tables, Rows, Files
        <4>. QED
          BY <1>9, <4>1
      <3>3. CASE j # k
        BY <1>7, <1>12, <1>13, <3>1, <3>3
      <3>. QED
        BY <3>2, <3>3
    <2>. QED
      BY <2>1, <2>2
  <1>. QED
    BY <1>3, <1>10, <1>11, <1>13 DEF BodyFiles

\* A get that expires the row it has selected, or another by then.
LEMMA ExpireFiles ==
    ASSUME Control, Identities, NEW c \in Calls, pc[c] = "begin",
           req[c].op = "get", ExpireBody(c)
    PROVE  BodyFiles(c)
  <1>1. /\ db \in Tables /\ Names(db) /\ hand[c] # NoRow /\ Held(c)
    BY DEF Control, Located, StoreTyped, Identities
  <1>2. PICK S \in SUBSET Keys : S = WithId(db, hand[c].id)
    BY DEF WithId, Present
  <1>3. draft' = Delete(db, S) /\ Unlink({hand[c].file})
    BY <1>2 DEF ExpireBody
  <1>4. ASSUME NEW f \in FilesOf(draft', Keys) \cap Files
        PROVE  spills'[f] = spills[f]
    <2>1. PICK k \in Keys \ S : /\ f # NoFile /\ db.rows[k] # NoRow
                                /\ db.rows[k].file = f
      <3>1. f \in FilesOf(db, Keys \ S)
        BY <1>1, <1>3, DeleteFiles
      <3>. QED
        BY <3>1, FilesFacts
    <2>2. f # hand[c].file
      <3>. SUFFICES ASSUME f = hand[c].file PROVE FALSE
        OBVIOUS
      <3>1. db.rows[k].val = f /\ hand[c].val = f
        BY <1>1, <2>1 DEF Names, Named, Held
      <3>2. db.rows[k].id = hand[c].id
        BY <1>1, <2>1, <3>1 DEF Held
      <3>. QED
        BY <1>2, <2>1, <3>2 DEF WithId, Present
    <2>. QED
      BY <1>3, <2>2, UnlinkFacts
  <1>5. ASSUME NEW d \in Calls \ {c}, pc[d] # "end"
        PROVE  spills'[d] = spills[d]
    <2>1. hand[c].file # d /\ d \in Files
      BY <1>1, <1>5, UnspentFiles, SpillFacts
    <2>. QED
      BY <1>3, <2>1, UnlinkFacts
  <1>. QED
    BY <1>4, <1>5 DEF BodyFiles

LEMMA TransactFiles ==
    ASSUME Control, Identities, NEW c \in Calls, Transact(c)
    PROVE  BodyFiles(c)
  <1>1. /\ pc[c] = "begin" /\ Body(c) /\ req[c].key \in Keys
        /\ req[c].op \in {"get", "set", "delete", "clear", "expire"}
    BY DEF Transact, Control, Located, Requests
  <1>2. CASE req[c].op = "set" /\ StoreBody(c)
    BY <1>1, <1>2, SetFiles
  <1>3. CASE req[c].op = "delete" /\ DropBody({req[c].key})
    BY <1>1, <1>3, DropFiles
  <1>4. CASE /\ req[c].op = "expire"
             /\ DropBody({k \in Keys : Expired(db.rows[k], now[c])})
    <2>1. {k \in Keys : Expired(db.rows[k], now[c])} \in SUBSET Keys
      OBVIOUS
    <2>. QED
      BY <1>1, <1>4, <2>1, DropFiles
  <1>5. CASE req[c].op \in {"get", "clear"} /\ spills' = spills
    BY <1>5 DEF BodyFiles
  <1>6. CASE req[c].op = "get" /\ ExpireBody(c)
    BY <1>1, <1>6, ExpireFiles
  <1>. QED
    BY <1>1, <1>2, <1>3, <1>4, <1>5, <1>6 DEF Body, TouchBody

LEMMA InitSpills == Init => SpillsKept
  BY DEF Init, SpillsKept, Intact, Dropped

\* The steps that change no table and no file.
LEMMA StartSpills ==
    ASSUME Control, Identities, SpillsKept, NEW c \in Calls,
           \/ Begin(c) \/ SpillFails(c) \/ Interrupt(c)
           \/ EnterWrite(c) \/ Select(c) \/ ReadSpill(c)
    PROVE  SpillsKept'
  <1>. USE DEF disk
  <1>1. /\ db' = db /\ draft' = draft /\ swept' = swept
        /\ pc[c] \in {"idle", "enter", "open"}
        /\ \A d \in Calls \ {c} : pc'[d] = pc[d] /\ req'[d] = req[d]
    BY StepLocal
    DEF Begin, SpillFails, Interrupt, EnterWrite, Select, ReadSpill
  <1>2. pc'[c] # "commit"
    BY <1>1 DEF Begin, SpillFails, Interrupt, EnterWrite, Select, ReadSpill,
                Goto, Reply, Control, CallsTyped
  <1>3. CASE Begin(c)
    <2>1. PICK r \in Does[c] :
              /\ req' = [req EXCEPT ![c] = r]
              /\ spills' = [f \in DOMAIN spills |->
                               IF f = SpillOf(c, r) THEN c ELSE spills[f]]
      BY <1>3 DEF Begin
    <2>2. pc[c] = "idle" /\ req'[c] = r
      BY <1>3, <2>1 DEF Begin, Control, CallsTyped
    <2>3. SpillOf(c, r) \in {c, NoFile} /\ c \in Files /\ c # NoFile
          /\ NoFile \notin Files
      BY SpillFacts, NoneAssumption DEF Files
    <2>4. /\ \A f \in Files \ {c} : spills'[f] = spills[f]
          /\ Spilled(r) => spills'[c] = c
      BY <2>1, <2>3, SpillFacts DEF Control, StoreTyped
    <2>5. Intact(c)' /\ Dropped(c)'
      <3>1. Spilled(req'[c]) => spills'[c] # Pending
        BY <2>2, <2>4, NoneAssumption DEF Setters
      <3>. QED
        BY <1>2, <3>1 DEF Intact, Dropped, Spilled
    <2>6. ASSUME NEW d \in Calls \ {c} PROVE Intact(d)' /\ Dropped(d)'
      <3>1. spills'[d] = spills[d] /\ d \in Files
        BY <2>4, SpillFacts
      <3>2. Intact(d)'
        BY <1>1, <3>1 DEF SpillsKept, Intact, Spilled
      <3>3. c \notin FilesOf(db, Keys) /\ SpillOf(d, req[d]) # c
        BY <2>2, <2>3, UnspentFiles, SpillFacts
      <3>4. SpillOf(d, req[d])' = SpillOf(d, req[d])
        BY <1>1 DEF SpillOf, Spilled
      <3>5. ASSUME NEW f \in (FilesOf(db, Keys) \cup {SpillOf(d, req[d])})
                                 \ {NoFile},
                   spills[f] = Pending
            PROVE  spills'[f] = Pending
        <4>1. f # c
          BY <3>3
        <4>2. f \in Files
          BY SpillFacts, FilesFacts, NamedFiles
          DEF Control, StoreTyped, Tables, Rows, Files
        <4>. QED
          BY <2>4, <3>5, <4>1, <4>2
      <3>6. Dropped(d)'
        BY <1>1, <3>4, <3>5 DEF SpillsKept, Dropped
      <3>. QED
        BY <3>2, <3>6
    <2>. QED
      BY <2>5, <2>6 DEF SpillsKept
  <1>4. CASE ~Begin(c)
    <2>1. spills' = spills
      BY <1>4 DEF SpillFails, Interrupt, EnterWrite, Select, ReadSpill
    <2>2. \/ pc'[c] \in {"open", "end"}
          \/ pc[c] = "enter" /\ req' = req
      BY <1>4 DEF SpillFails, Interrupt, EnterWrite, Select, ReadSpill,
                  Goto, Reply, Control, CallsTyped
    <2>3. Intact(c)' /\ Dropped(c)'
      BY <1>1, <1>2, <2>1, <2>2 DEF SpillsKept, Intact, Dropped, Spilled
    <2>4. ASSUME NEW d \in Calls \ {c} PROVE Intact(d)' /\ Dropped(d)'
      BY <1>1, <2>1 DEF SpillsKept, Intact, Dropped, Spilled, SpillOf
    <2>. QED
      BY <2>3, <2>4 DEF SpillsKept
  <1>. QED
    BY <1>3, <1>4

LEMMA TransactSpills ==
    ASSUME Control, Identities, SpillsKept, NEW c \in Calls, Transact(c)
    PROVE  SpillsKept'
  <1>1. /\ db' = db /\ swept' = swept /\ req' = req
        /\ pc[c] = "begin" /\ pc'[c] = "commit" /\ writer = Nobody
        /\ \A d \in Calls \ {c} : pc'[d] = pc[d]
    BY DEF Transact, Goto, Control, CallsTyped
  <1>2. BodyFiles(c)
    BY TransactFiles
  <1>3. Intact(c)'
    <2>1. c \in Files
      BY SpillFacts
    <2>2. CASE spills'[c] = spills[c]
      BY <1>1, <2>2 DEF SpillsKept, Intact, Spilled
    <2>3. CASE spills'[c] # spills[c]
      BY <1>1, <1>2, <2>1, <2>3 DEF BodyFiles, Intact
    <2>. QED
      BY <2>2, <2>3
  <1>4. Dropped(c)'
    BY <1>1, <1>2 DEF BodyFiles, Dropped
  <1>5. ASSUME NEW d \in Calls \ {c} PROVE Intact(d)' /\ Dropped(d)'
    <2>1. pc[d] # "commit" /\ pc'[d] = pc[d]
      BY <1>1, NoneAssumption DEF Control, Located
    <2>2. CASE pc[d] = "end"
      BY <2>1, <2>2 DEF Intact, Dropped
    <2>3. CASE pc[d] # "end"
      BY <1>1, <1>2, <2>1, <2>3
      DEF SpillsKept, Intact, Dropped, BodyFiles, Spilled
    <2>. QED
      BY <2>2, <2>3
  <1>. QED
    BY <1>3, <1>4, <1>5 DEF SpillsKept

\* The steps that end a transaction or a call, and the rmtree.
LEMMA EndSpills ==
    ASSUME Control, SpillsKept, NEW c \in Calls,
           Commit(c) \/ Rollback(c) \/ GiveUp(c) \/ Sweep(c)
    PROVE  SpillsKept'
  <1>1. \A d \in Calls \ {c} : pc'[d] = pc[d] /\ req'[d] = req[d]
    BY StepLocal
  <1>2. pc'[c] # "commit" /\ req'[c] = req[c]
    BY DEF Commit, Rollback, Retry, Raise, GiveUp, Sweep, Goto, Reply,
           Control, CallsTyped
  <1>3. Dropped(c)'
    BY <1>2 DEF Dropped
  <1>4. Intact(c)'
    <2>1. CASE Rollback(c) /\ Retry(c)
      <3>1. spills' = spills /\ c \in Files
        BY <2>1, SpillFacts DEF Retry
      <3>2. Spilled(req[c]) /\ spills[c] = Pending => c \in swept'
        BY <2>1, SpillFacts DEF Rollback
      <3>. QED
        BY <1>2, <3>1, <3>2 DEF Intact, Spilled
    <2>2. CASE ~(Rollback(c) /\ Retry(c))
      <3>1. pc'[c] \in {"sweep", "open", "end"}
        BY <2>2 DEF Commit, Rollback, Raise, GiveUp, Sweep, Goto, Reply,
                    Control, CallsTyped
      <3>. QED
        BY <3>1 DEF Intact
    <2>. QED
      BY <2>1, <2>2
  <1>5. ASSUME NEW d \in Calls \ {c} PROVE Intact(d)' /\ Dropped(d)'
    <2>1. d \in Files /\ SpillOf(c, req[c]) # d
      BY SpillFacts
    <2>2. CASE Commit(c) \/ Rollback(c)
      <3>1. pc[d] # "commit" /\ pc'[d] # "commit"
        BY <1>1, <2>2 DEF Commit, Rollback, Control, Located
      <3>2. spills'[d] = spills[d] /\ swept \subseteq swept'
        <4>1. CASE spills' = spills
          BY <2>2, <4>1 DEF Commit, Rollback
        <4>2. CASE Rollback(c) /\ Raise(c)
          BY <2>1, <4>2, UnlinkFacts DEF Rollback, Raise
        <4>. QED
          BY <2>2, <4>1, <4>2 DEF Commit, Rollback, Retry
      <3>. QED
        BY <1>1, <3>1, <3>2 DEF SpillsKept, Intact, Dropped, Spilled
    <2>3. CASE GiveUp(c) \/ Sweep(c)
      <3>1. /\ db' = db /\ draft' = draft /\ swept \subseteq swept'
            /\ DOMAIN spills = Files
        BY <2>3 DEF GiveUp, Sweep, Control, StoreTyped
      <3>2. \A f \in Files : spills[f] = Pending => spills'[f] = Pending
        BY <2>3, UnlinkFacts DEF GiveUp, Raise, Sweep
      <3>3. spills'[d] = spills[d] \/ d \in swept'
        <4>1. CASE GiveUp(c)
          BY <2>1, <4>1, UnlinkFacts DEF GiveUp, Raise
        <4>2. CASE Sweep(c)
          BY <2>1, <3>1, <4>2, UnlinkFacts DEF Sweep
        <4>. QED
          BY <2>3, <4>1, <4>2
      <3>4. Intact(d)'
        BY <1>1, <3>1, <3>3 DEF SpillsKept, Intact, Spilled
      <3>5. SpillOf(d, req[d])' = SpillOf(d, req[d])
        BY <1>1 DEF SpillOf, Spilled
      <3>6. FilesOf(db, Keys) \cup {SpillOf(d, req[d])}
                \subseteq Files \cup {NoFile}
        BY SpillFacts, FilesFacts
        DEF Control, StoreTyped, Tables, Rows, Files
      <3>7. Dropped(d)'
        BY <1>1, <3>1, <3>2, <3>5, <3>6 DEF SpillsKept, Dropped
      <3>. QED
        BY <3>4, <3>7
    <2>. QED
      BY <2>2, <2>3
  <1>. QED
    BY <1>3, <1>4, <1>5 DEF SpillsKept

LEMMA NextSpills ==
    ASSUME Control, Identities, SpillsKept, [Next]_vars
    PROVE  SpillsKept'
  <1>1. CASE Tick \/ UNCHANGED vars
    BY <1>1 DEF Tick, vars, disk, control, SpillsKept, Intact, Dropped,
                Spilled, SpillOf
  <1>2. ASSUME NEW i \in Instances, Crash(i) PROVE SpillsKept'
    <2>1. PICK dying \in SUBSET Running :
              /\ \A c \in dying : pc'[c] = "end"
              /\ \A c \in Calls \ dying : pc'[c] = pc[c]
              /\ \/ writer \in dying /\ writer' = Nobody /\ draft' = db
                 \/ writer \notin dying /\ UNCHANGED <<writer, draft>>
      BY <1>2, CrashFacts
    <2>2. db' = db /\ req' = req /\ spills' = spills /\ swept' = swept
      BY <1>2 DEF Crash
    <2>3. ASSUME NEW c \in Calls PROVE Intact(c)' /\ Dropped(c)'
      <3>1. CASE c \in dying
        BY <2>1, <3>1 DEF Intact, Dropped
      <3>2. CASE c \notin dying /\ pc[c] = "commit"
        <4>1. writer = c
          BY <3>2 DEF Control, Located
        <4>. QED
          BY <2>1, <2>2, <3>2, <4>1
          DEF SpillsKept, Intact, Dropped, Spilled, SpillOf
      <3>3. CASE c \notin dying /\ pc[c] # "commit"
        BY <2>1, <2>2, <3>3 DEF SpillsKept, Intact, Dropped, Spilled
      <3>. QED
        BY <3>1, <3>2, <3>3
    <2>. QED
      BY <2>3 DEF SpillsKept
  <1>. QED
    BY <1>1, <1>2, Steps, StartSpills, TransactSpills, EndSpills

\* The spill files are where the rows, the draft and the calls want them.
THEOREM SpillsHold == Spec => []SpillsKept
  <1>1. Init => SpillsKept
    BY InitSpills
  <1>2. Control /\ Identities /\ SpillsKept /\ [Next]_vars => SpillsKept'
    BY NextSpills
  <1>. QED
    BY <1>1, <1>2, ControlHolds, IdentitiesHold, PTL DEF Spec

-----------------------------------------------------------------------------
\* A step other than a commit, a rmtree or a body takes no file of a row.
LEMMA RowFilesStay ==
    ASSUME Control, Identities, NEW c \in Calls, NEW f \in FilesOf(db, Keys),
           \/ Begin(c) \/ SpillFails(c) \/ Interrupt(c)
           \/ EnterWrite(c) \/ Select(c) \/ ReadSpill(c)
           \/ Rollback(c) \/ GiveUp(c)
    PROVE  spills'[f] = spills[f]
  <1>. USE DEF disk
  <1>1. f \in Files /\ f # NoFile
    BY FilesFacts DEF Control, StoreTyped, Tables, Rows, Files
  <1>2. pc[c] # "end" /\ f # c
    <2>1. pc[c] # "end"
      BY DEF Begin, SpillFails, Interrupt, EnterWrite, Select, ReadSpill,
             Rollback, GiveUp
    <2>. QED
      BY <2>1, UnspentFiles
  <1>3. CASE Begin(c)
    <2>1. PICK r \in Does[c] :
              spills' = [g \in DOMAIN spills |->
                            IF g = SpillOf(c, r) THEN c ELSE spills[g]]
      BY <1>3 DEF Begin
    <2>2. f # SpillOf(c, r)
      BY <1>1, <1>2, SpillFacts
    <2>. QED
      BY <1>1, <2>1, <2>2 DEF Control, StoreTyped
  <1>4. CASE Unlink({SpillOf(c, req[c])})
    BY <1>1, <1>2, <1>4, SpillFacts, UnlinkFacts
  <1>5. CASE spills' = spills
    BY <1>5
  <1>. QED
    BY <1>3, <1>4, <1>5
    DEF SpillFails, Interrupt, EnterWrite, Select, ReadSpill, Rollback,
        Retry, Raise, GiveUp

LEMMA KeepsNext ==
    ASSUME Control, Identities, SpillsKept, [Next]_vars,
           NEW f \in Dangling' \ Dangling
    PROVE  \/ f \in swept'
           \/ writer' # Nobody /\ f \notin FilesOf(draft', Keys)
  <1>. USE DEF disk
  <1>1. /\ f \in FilesOf(db', Keys) /\ spills'[f] = Pending
        /\ f \in FilesOf(db, Keys) => spills[f] # Pending
    BY DEF Dangling
  <1>2. f \in FilesOf(db, Keys) => f \in Files
    BY FilesFacts DEF Control, StoreTyped, Tables, Rows, Files
  <1>3. ASSUME NEW c \in Calls, Transact(c)
        PROVE  writer' # Nobody /\ f \notin FilesOf(draft', Keys)
    <2>1. db' = db /\ writer' = c
      BY <1>3 DEF Transact
    <2>2. BodyFiles(c)
      BY <1>3, TransactFiles
    <2>. QED
      BY <1>1, <1>2, <2>1, <2>2, NoneAssumption DEF BodyFiles
  <1>4. ASSUME NEW c \in Calls, Commit(c) PROVE f \in swept'
    <2>1. /\ pc[c] = "commit" /\ db' = draft /\ swept' = swept
          /\ spills' = spills /\ Drafted(c) /\ Intact(c)
      BY <1>4 DEF Commit, Identities, SpillsKept
    <2>2. PICK k \in Keys : /\ draft.rows[k] # NoRow /\ f # NoFile
                            /\ draft.rows[k].file = f
      BY <1>1, <2>1, FilesFacts
    <2>3. CASE SameEntry(draft.rows[k], db.rows[k])
      <3>1. f \in FilesOf(db, Keys)
        BY <2>2, <2>3, FilesFacts DEF SameEntry
      <3>. QED
        BY <1>1, <2>1, <3>1
    <2>4. CASE Stored(c, k)
      <3>1. f = c /\ Spilled(req[c])
        BY <2>2, <2>4, SpillFacts DEF Stored
      <3>. QED
        BY <1>1, <2>1, <3>1 DEF Intact
    <2>. QED
      BY <2>1, <2>2, <2>3, <2>4 DEF Drafted
  <1>5. ASSUME NEW c \in Calls, Sweep(c) PROVE f \in swept'
    <2>1. f \in Files /\ spills[f] # Pending
      BY <1>1, <1>2, <1>5 DEF Sweep
    <2>. QED
      BY <1>5, <2>1 DEF Sweep, Control, StoreTyped
  <1>6. ASSUME NEW c \in Calls,
               \/ Begin(c) \/ SpillFails(c) \/ Interrupt(c)
               \/ EnterWrite(c) \/ Select(c) \/ ReadSpill(c)
               \/ Rollback(c) \/ GiveUp(c)
        PROVE  FALSE
    <2>1. db' = db
      BY <1>6 DEF Begin, SpillFails, Interrupt, EnterWrite, Select,
                  ReadSpill, Rollback, GiveUp
    <2>. QED
      BY <1>1, <1>6, <2>1, RowFilesStay
  <1>7. ASSUME Tick \/ UNCHANGED vars \/ \E i \in Instances : Crash(i)
        PROVE  FALSE
    BY <1>1, <1>7 DEF Tick, vars, Crash
  <1>. QED
    BY <1>3, <1>4, <1>5, <1>6, <1>7, Steps

\* RowsKeepTheirSpills: a committed row loses its spill file only to the
\* transaction that drops the row, to a clear's rmtree, or to a cull of its own
\* set in an attempt that was retried.
THEOREM SpillsStay == Spec => RowsKeepTheirSpills
  <1>1. Control /\ Identities /\ SpillsKept /\ [Next]_vars
            => [\A f \in Dangling' \ Dangling :
                   \/ f \in swept'
                   \/ writer' # Nobody /\ f \notin FilesOf(draft', Keys)]_vars
    BY KeepsNext
  <1>. QED
    BY <1>1, ControlHolds, IdentitiesHold, SpillsHold, PTL
    DEF Spec, RowsKeepTheirSpills

-----------------------------------------------------------------------------
\* What NoNewOrphans excuses a new orphan by.
Excused(f) ==
    \/ \E c \in Calls : answer'[c] = "killed" /\ answer[c] # "killed"
    \/ f \in Calls /\ pc[f] = "enter" /\ pc'[f] = "end"
    \/ \E c \in Calls : /\ pc[c] = "commit" /\ pc'[c] = "end"
                        /\ req[c].op = "get"
                        /\ Expired(hand[c], now[c])

LEMMA OrphanFacts ==
    ASSUME Control, Control', NEW f \in Orphans' \ Orphans
    PROVE  /\ f \in Files /\ f # NoFile
           /\ spills'[f] # Pending /\ f \notin FilesOf(db', Keys)
           /\ \A c \in Calls : \/ pc'[c] \in {"idle", "end"}
                               \/ /\ f # SpillOf(c, req'[c])
                                  /\ pc'[c] # "sweep"
           /\ \/ spills[f] = Pending
              \/ f \in FilesOf(db, Keys)
              \/ \E c \in Calls : /\ pc[c] \notin {"idle", "end"}
                                  /\ f = SpillOf(c, req[c]) \/ pc[c] = "sweep"
  <1>1. DOMAIN spills = Files /\ DOMAIN spills' = Files
    BY DEF Control, StoreTyped
  <1>2. NoFile \notin Files
    BY NoneAssumption DEF Files
  <1>3. \A c \in Calls : SpillOf(c, req[c])' = SpillOf(c, req'[c])
    BY DEF SpillOf, Spilled
  <1>. QED
    BY <1>1, <1>2, <1>3 DEF Orphans, Running

\* Where the file and the rows stay, the call that steps let go of the file.
LEMMA LetGo ==
    ASSUME Control, Control', NEW c \in Calls,
           \/ Begin(c) \/ SpillFails(c) \/ Interrupt(c)
           \/ EnterWrite(c) \/ Select(c) \/ ReadSpill(c)
           \/ Transact(c) \/ Commit(c) \/ Sweep(c)
           \/ Rollback(c) \/ GiveUp(c),
           NEW f \in Orphans' \ Orphans, spills'[f] = spills[f],
           f \notin FilesOf(db, Keys)
    PROVE  /\ pc[c] \notin {"idle", "end"}
           /\ f = SpillOf(c, req[c]) \/ pc[c] = "sweep"
  <1>1. PICK d \in Calls : /\ pc[d] \notin {"idle", "end"}
                           /\ f = SpillOf(d, req[d]) \/ pc[d] = "sweep"
    BY OrphanFacts
  <1>2. d # c => pc'[d] = pc[d] /\ req'[d] = req[d]
    BY StepLocal
  <1>3. d = c
    BY <1>1, <1>2, OrphanFacts
  <1>. QED
    BY <1>1, <1>3

LEMMA StartOrphans ==
    ASSUME Control, Control', NEW c \in Calls,
           \/ Begin(c) \/ SpillFails(c) \/ Interrupt(c)
           \/ EnterWrite(c) \/ Select(c) \/ ReadSpill(c),
           NEW f \in Orphans' \ Orphans
    PROVE  Excused(f)
  <1>. USE DEF disk
  <1>0. db' = db /\ f \notin FilesOf(db, Keys) /\ f \in Files
    BY OrphanFacts
    DEF Begin, SpillFails, Interrupt, EnterWrite, Select, ReadSpill
  <1>1. CASE Begin(c)
    <2>1. PICK r \in Does[c] :
              /\ req' = [req EXCEPT ![c] = r]
              /\ spills' = [g \in DOMAIN spills |->
                               IF g = SpillOf(c, r) THEN c ELSE spills[g]]
      BY <1>1 DEF Begin
    <2>2. pc[c] = "idle" /\ pc'[c] = "enter" /\ req'[c] = r
      BY <1>1, <2>1 DEF Begin, Goto, Control, CallsTyped
    <2>3. f # SpillOf(c, r)
      BY <2>2, OrphanFacts
    <2>4. spills'[f] = spills[f]
      BY <1>0, <2>1, <2>3 DEF Control, StoreTyped
    <2>. QED
      BY <1>0, <1>1, <2>2, <2>4, LetGo
  <1>2. CASE ~Begin(c)
    <2>1. spills' = spills /\ pc[c] \in {"idle", "enter", "open"}
      BY <1>2 DEF SpillFails, Interrupt, EnterWrite, Select, ReadSpill
    <2>2. pc[c] # "idle" /\ f = SpillOf(c, req[c])
      BY <1>0, <2>1, LetGo
    <2>3. f = c /\ req[c].op = "set" /\ pc[c] # "open"
      <3>1. Spilled(req[c]) /\ f = c
        BY <2>2, OrphanFacts, SpillFacts
      <3>. QED
        BY <3>1, SpillFacts DEF Control, Located
    <2>4. CASE EnterWrite(c)
      <3>1. pc'[c] = "begin" /\ req' = req
        BY <2>4 DEF EnterWrite, Goto, Control, CallsTyped
      <3>. QED
        BY <2>2, <3>1, OrphanFacts
    <2>5. CASE Interrupt(c)
      <3>1. pc[c] = "enter" /\ pc'[c] = "end"
        BY <2>5 DEF Interrupt, Reply, Goto, Control, CallsTyped
      <3>. QED
        BY <2>3, <3>1 DEF Excused
    <2>. QED
      BY <1>2, <2>2, <2>3, <2>4, <2>5 DEF SpillFails, Select, ReadSpill
  <1>. QED
    BY <1>1, <1>2

LEMMA TransactOrphans ==
    ASSUME Control, Control', NEW c \in Calls, Transact(c),
           NEW f \in Orphans' \ Orphans
    PROVE  FALSE
  <1>1. /\ pc[c] = "begin" /\ pc'[c] = "commit" /\ req' = req /\ db' = db
        /\ Body(c) /\ req[c] \in Requests
    BY DEF Transact, Goto, Control, CallsTyped, Located
  <1>2. f \in Files /\ spills'[f] # Pending /\ f \notin FilesOf(db, Keys)
    BY <1>1, OrphanFacts
  <1>3. spills' = spills \/ \E F : Unlink(F)
    BY <1>1 DEF Body, Requests, StoreBody, DropBody, ExpireBody, TouchBody
  <1>4. spills'[f] = spills[f]
    BY <1>2, <1>3, UnlinkFacts
  <1>5. f = SpillOf(c, req[c])
    BY <1>1, <1>2, <1>4, LetGo
  <1>. QED
    BY <1>1, <1>5, OrphanFacts

LEMMA EndOrphans ==
    ASSUME Control, Control', NEW c \in Calls,
           Rollback(c) \/ GiveUp(c) \/ Sweep(c),
           NEW f \in Orphans' \ Orphans
    PROVE  FALSE
  <1>1. /\ db' = db /\ req' = req /\ f \in Files /\ spills'[f] # Pending
        /\ f \notin FilesOf(db, Keys)
    BY OrphanFacts DEF Rollback, GiveUp, Sweep
  <1>2. ~Sweep(c)
    BY <1>1, UnlinkFacts DEF Sweep, Control, StoreTyped
  <1>3. pc[c] \in {"begin", "commit"}
    BY <1>2 DEF Rollback, GiveUp
  <1>4. CASE Raise(c)
    <2>1. spills'[f] = spills[f] /\ f # SpillOf(c, req[c])
      BY <1>1, <1>4, UnlinkFacts DEF Raise
    <2>. QED
      BY <1>1, <1>3, <2>1, LetGo
  <1>5. CASE Retry(c)
    <2>1. spills' = spills /\ pc'[c] = "begin"
      BY <1>5 DEF Retry, Goto, Control, CallsTyped
    <2>2. f = SpillOf(c, req[c])
      BY <1>1, <1>3, <2>1, LetGo
    <2>. QED
      BY <1>1, <2>1, <2>2, OrphanFacts
  <1>. QED
    BY <1>2, <1>4, <1>5 DEF Rollback, GiveUp

LEMMA CommitOrphans ==
    ASSUME Control, Control', Identities, SpillsKept, NEW c \in Calls,
           Commit(c), NEW f \in Orphans' \ Orphans
    PROVE  Excused(f)
  <1>1. /\ pc[c] = "commit" /\ db' = draft /\ spills' = spills
        /\ req[c] \in Requests /\ Drafted(c) /\ Dropped(c)
    BY DEF Commit, Control, Located, Identities, SpillsKept
  <1>2. /\ f # NoFile /\ spills[f] # Pending /\ f \notin FilesOf(draft, Keys)
    BY <1>1, OrphanFacts
  <1>3. f \in FilesOf(db, Keys) \/ f = SpillOf(c, req[c])
    BY <1>1, LetGo
  <1>4. CASE req[c].op = "clear"
    <2>1. pc'[c] = "sweep"
      BY <1>4 DEF Commit, Goto, Control, CallsTyped
    <2>. QED
      BY <2>1, OrphanFacts
  <1>5. CASE req[c].op \in {"set", "delete", "expire"}
    BY <1>1, <1>2, <1>3, <1>5 DEF Dropped
  <1>6. CASE req[c].op = "get" /\ Expired(hand[c], now[c])
    <2>1. pc'[c] = "end"
      BY <1>6 DEF Commit, Reply, Goto, Control, CallsTyped
    <2>. QED
      BY <1>1, <1>6, <2>1 DEF Excused
  <1>7. CASE req[c].op = "get" /\ ~Expired(hand[c], now[c])
    <2>1. f \in FilesOf(db, Keys)
      BY <1>2, <1>3, <1>7, SpillFacts
    <2>2. PICK k \in Keys : db.rows[k] # NoRow /\ db.rows[k].file = f
      BY <2>1, FilesFacts
    <2>3. draft.rows[k] # NoRow /\ draft.rows[k].file = f
      BY <1>1, <1>7, <2>2 DEF Drafted, Stored, SameEntry
    <2>. QED
      BY <1>2, <2>3, FilesFacts
  <1>. QED
    BY <1>1, <1>4, <1>5, <1>6, <1>7 DEF Requests

LEMMA OrphansNext ==
    ASSUME Control, Control', Identities, SpillsKept, [Next]_vars,
           NEW f \in Orphans' \ Orphans
    PROVE  Excused(f)
  <1>1. ASSUME NEW i \in Instances, Crash(i) PROVE Excused(f)
    <2>1. PICK c \in Running : answer'[c] = "killed"
      BY <1>1, CrashFacts
    <2>2. c \in Calls /\ answer[c] = Pending
      BY <2>1 DEF Running, Control, Located
    <2>. QED
      BY <2>1, <2>2, NoneAssumption DEF Excused
  <1>2. CASE Tick \/ UNCHANGED vars
    BY <1>2 DEF Tick, vars, disk, control, Orphans, Running, SpillOf, Spilled
  <1>. QED
    BY <1>1, <1>2, Steps, StartOrphans, TransactOrphans, EndOrphans,
       CommitOrphans

\* NoNewOrphans: only a death, an interrupt before the transaction, or a reader
\* that deletes by a rowid it read before an overwrite orphans a spill file.
THEOREM NoOrphans == Spec => NoNewOrphans
  <1>1. Control /\ Control' /\ Identities /\ SpillsKept /\ [Next]_vars
            => [\A f \in Orphans' \ Orphans : Excused(f)]_vars
    BY OrphansNext
  <1>2. [\A f \in Orphans' \ Orphans : Excused(f)]_vars
            => [\A f \in Orphans' \ Orphans :
          \/ \E c \in Calls : answer'[c] = "killed" /\ answer[c] # "killed"
          \/ f \in Calls /\ pc[f] = "enter" /\ pc'[f] = "end"
          \/ \E c \in Calls : /\ pc[c] = "commit" /\ pc'[c] = "end"
                              /\ req[c].op = "get"
                              /\ Expired(hand[c], now[c])]_vars
    BY DEF Excused
  <1>. QED
    BY <1>1, <1>2, ControlHolds, IdentitiesHold, SpillsHold, PTL
    DEF Spec, NoNewOrphans

=============================================================================
