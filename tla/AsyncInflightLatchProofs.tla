---------------------- MODULE AsyncInflightLatchProofs ----------------------
(***************************************************************************)
(* Proofs about AsyncInflightLatch, for every set of calls, tasks, keys    *)
(* and slots.  Two arguments meet.  The lock of a slot: a wake-up is only  *)
(* ever given to the head of the queue while the lock is free, so the      *)
(* woken task is the only one that can take it (LockExact).  The call      *)
(* stack of a task: a re-entrant call counts for nothing in the slot, and  *)
(* is safe only because it lies above the call that holds the key and ends *)
(* before it (Stacked and PassesNested).                                   *)
(***************************************************************************)
EXTENDS AsyncInflightLatch, FiniteSetTheorems, TLAPS

Waiting(k) == {c \in Calls : pc[c] = "queued" /\ key[c] = k}
Holding(k) == {c \in Calls : pc[c] = "held" /\ key[c] = k}
Using(k) == Waiting(k) \cup Holding(k)

\* A call between its first step and its last finds its slot in the table.
FramesRegistered ==
    \A c \in Calls : Active(c) =>
        key[c] \in Keys /\ slot[c] \in Slots /\ table[key[c]] = slot[c]

SlotsDistinct ==
    \A j, k \in Keys : table[j] = table[k] /\ table[k] # NoSlot => j = k

FuturesQueued == \A c \in Calls : fut[c] # "none" <=> pc[c] = "queued"

-----------------------------------------------------------------------------
\* The lock of a slot, on its record r, for key k.
Woken(c) == fut[c] \in {"woken", "doomed"}

Elements(q) == {q[i] : i \in 1 .. Len(q)}
Distinct(q) == \A i, j \in 1 .. Len(q) : q[i] = q[j] => i = j

QueueExact(r, k) == Elements(r.waiters) = Waiting(k) /\ Distinct(r.waiters)

HolderExact(r, k) ==
    /\ r.locked =>
          \E c \in Calls : Holding(k) = {c} /\ r.holder = TaskOf[c]
    /\ ~r.locked => Holding(k) = {} /\ r.holder = NoTask

WakesHead(r, k) ==
    \A c \in Waiting(k) : Woken(c) => ~r.locked /\ r.waiters[1] = c

WakeSent(r) ==
    ~r.locked /\ Len(r.waiters) > 0 => fut[r.waiters[1]] # "pending"

LockExact(r, k) ==
    /\ r \in SlotType
    /\ r.refs = Cardinality(Using(k))
    /\ QueueExact(r, k) /\ HolderExact(r, k)
    /\ WakesHead(r, k) /\ WakeSent(r)

\* A key has a slot exactly while it is in use, and its lock is in order.
KeyExact(k) ==
    /\ table[k] = NoSlot <=> Using(k) = {}
    /\ table[k] # NoSlot => LockExact(slots[table[k]], k)

Locks == /\ TypeOK /\ FramesRegistered /\ SlotsDistinct /\ FuturesQueued
         /\ \A k \in Keys : KeyExact(k)

-----------------------------------------------------------------------------
\* c was made, directly or not, from the body of d: it is in every set that
\* takes in the calls made from d and from its own members.
Above(c, d) ==
    \A S \in SUBSET Calls :
        (\A e \in Calls : Active(e) /\ caller[e] \in S \cup {d} => e \in S)
            => c \in S

CallersInBody ==
    \A c \in Calls : Active(c) =>
        \/ caller[c] = NoCall
        \/ /\ caller[c] \in Calls /\ InBody(caller[c])
           /\ TaskOf[caller[c]] = TaskOf[c]

\* Of two calls of one task, one was made from the body of the other.
Stacked ==
    \A c, d \in Calls : Active(c) /\ Active(d) /\ TaskOf[c] = TaskOf[d]
        => c = d \/ Above(c, d) \/ Above(d, c)

\* A re-entrant call was made from the body of the call that holds its key.
PassesNested ==
    \A c \in Calls : pc[c] = "pass" =>
        \E d \in Calls : /\ pc[d] = "held" /\ key[d] = key[c]
                         /\ TaskOf[d] = TaskOf[c] /\ Above(c, d)

Stack == CallersInBody /\ Stacked /\ PassesNested

-----------------------------------------------------------------------------
\* deque.remove and deque.append on a queue without duplicates.
LEMMA RemoveAtElement ==
    ASSUME NEW S, NEW q \in Seq(S), NEW i \in 1 .. Len(q)
    PROVE  /\ RemoveAt(q, i) \in Seq(S) /\ Len(RemoveAt(q, i)) = Len(q) - 1
           /\ \A j \in 1 .. Len(q) - 1 :
                RemoveAt(q, i)[j] = IF j < i THEN q[j] ELSE q[j + 1]
  <1>. DEFINE a == SubSeq(q, 1, i - 1)
              b == SubSeq(q, i + 1, Len(q))
  <1>1. a \in Seq(S) /\ Len(a) = i - 1 /\ \A j \in 1 .. i - 1 : a[j] = q[j]
    OBVIOUS
  <1>2. /\ b \in Seq(S) /\ Len(b) = Len(q) - i
        /\ \A j \in 1 .. Len(q) - i : b[j] = q[i + j]
    OBVIOUS
  <1>3. RemoveAt(q, i) = a \o b
    BY DEF RemoveAt
  <1>. HIDE DEF a, b
  <1>4. a \o b \in Seq(S)
    BY <1>1, <1>2
  <1>5. Len(a \o b) = Len(a) + Len(b)
    <2>1. a \in Seq(S) /\ b \in Seq(S)
      BY <1>1, <1>2
    <2>. QED
      BY <2>1
  <1>6. Len(a \o b) = Len(q) - 1
    <2>1. Len(q) \in Nat
      OBVIOUS
    <2>. QED
      BY <1>1, <1>2, <1>5, <2>1
  <1>7. ASSUME NEW j \in 1 .. Len(q) - 1
        PROVE  (a \o b)[j] = IF j < i THEN q[j] ELSE q[j + 1]
    <2>1. CASE j < i
      BY <1>1, <1>2, <2>1
    <2>2. CASE ~(j < i)
      <3>1. (a \o b)[j] = b[j - (i - 1)]
        BY <1>1, <1>2, <2>2
      <3>2. j - (i - 1) \in 1 .. Len(q) - i /\ i + (j - (i - 1)) = j + 1
        BY <2>2
      <3>. QED
        BY <1>2, <2>2, <3>1, <3>2
    <2>. QED
      BY <2>1, <2>2
  <1>. QED
    BY <1>3, <1>4, <1>6, <1>7

LEMMA RemoveFirstElement ==
    ASSUME NEW S, NEW q \in Seq(S), Distinct(q), NEW e \in Elements(q)
    PROVE  LET r == RemoveFirst(q, e)
           IN  /\ r \in Seq(S) /\ Distinct(r)
               /\ Elements(r) = Elements(q) \ {e}
               /\ q[1] # e => Len(r) > 0 /\ r[1] = q[1]
  <1>1. PICK i \in 1 .. Len(q) : q[i] = e
    BY DEF Elements
  <1>2. RemoveFirst(q, e) = RemoveAt(q, i)
    <2>1. {j \in 1 .. Len(q) : q[j] = e} = {i}
      BY <1>1 DEF Distinct
    <2>2. Min({i}) = i
      BY DEF Min
    <2>3. SelectInSeq(q, LAMBDA v : v = e) = i
      BY <2>1, <2>2 DEF SelectInSeq
    <2>. QED
      BY <1>1, <2>3 DEF RemoveFirst
  <1>. DEFINE r == RemoveAt(q, i)
  <1>3. /\ r \in Seq(S) /\ Len(r) = Len(q) - 1
        /\ \A j \in 1 .. Len(r) : r[j] = IF j < i THEN q[j] ELSE q[j + 1]
    BY RemoveAtElement
  <1>. HIDE DEF r
  <1>4. Len(q) \in Nat /\ Len(r) \in Nat
    BY <1>3
  <1>5. Distinct(r)
    BY <1>3, <1>4 DEF Distinct
  <1>6. ASSUME NEW x \in Elements(r) PROVE x \in Elements(q) \ {e}
    <2>1. PICK j \in 1 .. Len(r) : x = r[j]
      BY DEF Elements
    <2>2. PICK m \in 1 .. Len(q) : x = q[m] /\ m # i
      BY <1>3, <1>4, <2>1
    <2>. QED
      BY <1>1, <2>2 DEF Elements, Distinct
  <1>7. ASSUME NEW x \in Elements(q) \ {e} PROVE x \in Elements(r)
    <2>1. PICK m \in 1 .. Len(q) : x = q[m] /\ m # i
      BY <1>1 DEF Elements
    <2>2. CASE m < i
      <3>1. m \in 1 .. Len(r) /\ r[m] = x
        BY <1>3, <1>4, <2>1, <2>2
      <3>. QED
        BY <3>1 DEF Elements
    <2>3. CASE m > i
      <3>1. m - 1 \in 1 .. Len(r) /\ r[m - 1] = x
        BY <1>3, <1>4, <2>1, <2>3
      <3>. QED
        BY <3>1 DEF Elements
    <2>. QED
      BY <2>1, <2>2, <2>3
  <1>8. q[1] # e => Len(r) > 0 /\ r[1] = q[1]
    BY <1>1, <1>3, <1>4
  <1>. QED
    BY <1>2, <1>3, <1>5, <1>6, <1>7, <1>8 DEF r

LEMMA AppendElement ==
    ASSUME NEW S, NEW q \in Seq(S), Distinct(q), NEW e \in S \ Elements(q)
    PROVE  /\ Append(q, e) \in Seq(S) /\ Distinct(Append(q, e))
           /\ Elements(Append(q, e)) = Elements(q) \cup {e}
           /\ Append(q, e)[1] = IF Len(q) = 0 THEN e ELSE q[1]
           /\ Len(Append(q, e)) > 0
  <1>. DEFINE r == Append(q, e)
  <1>1. /\ r \in Seq(S) /\ Len(r) = Len(q) + 1
        /\ \A j \in 1 .. Len(q) : r[j] = q[j]
        /\ r[Len(q) + 1] = e
    OBVIOUS
  <1>. HIDE DEF r
  <1>2. Len(q) \in Nat
    OBVIOUS
  <1>3. \A j \in 1 .. Len(q) : q[j] # e
    BY DEF Elements
  <1>4. Distinct(r)
    BY <1>1, <1>2, <1>3 DEF Distinct
  <1>5. Elements(r) = Elements(q) \cup {e}
    <2>1. 1 .. Len(r) = (1 .. Len(q)) \cup {Len(q) + 1}
      BY <1>1, <1>2
    <2>. QED
      BY <1>1, <2>1 DEF Elements
  <1>6. Len(r) > 0 /\ r[1] = IF Len(q) = 0 THEN e ELSE q[1]
    BY <1>1, <1>2
  <1>. QED
    BY <1>1, <1>4, <1>5, <1>6 DEF r

-----------------------------------------------------------------------------
\* The calls that count in a slot.
LEMMA UsingFinite ==
    ASSUME NEW k
    PROVE  /\ IsFiniteSet(Using(k)) /\ Cardinality(Using(k)) \in Nat
           /\ Cardinality(Using(k)) = 0 <=> Using(k) = {}
           /\ \A c : c \in Using(k) =>
                  /\ Cardinality(Using(k) \ {c}) = Cardinality(Using(k)) - 1
                  /\ Cardinality(Using(k)) = 1 <=> Using(k) \ {c} = {}
           /\ \A c : c \notin Using(k) =>
                  Cardinality(Using(k) \cup {c}) = Cardinality(Using(k)) + 1
  <1>1. Using(k) \in SUBSET Calls
    BY DEF Using, Waiting, Holding
  <1>2. IsFiniteSet(Using(k))
    BY <1>1, CallsAssumption, FS_Subset
  <1>3. Cardinality(Using(k)) \in Nat
    BY <1>2, FS_CardinalityType
  <1>4. Cardinality(Using(k)) = 0 <=> Using(k) = {}
    BY <1>2, FS_EmptySet
  <1>5. ASSUME NEW c, c \in Using(k)
        PROVE  /\ Cardinality(Using(k) \ {c}) = Cardinality(Using(k)) - 1
               /\ Cardinality(Using(k)) = 1 <=> Using(k) \ {c} = {}
    <2>1. /\ IsFiniteSet(Using(k) \ {c})
          /\ Cardinality(Using(k) \ {c}) = Cardinality(Using(k)) - 1
      BY <1>2, <1>5, FS_RemoveElement
    <2>2. Cardinality(Using(k) \ {c}) = 0 <=> Using(k) \ {c} = {}
      BY <2>1, FS_EmptySet
    <2>. QED
      BY <1>3, <2>1, <2>2
  <1>6. ASSUME NEW c, c \notin Using(k)
        PROVE  Cardinality(Using(k) \cup {c}) = Cardinality(Using(k)) + 1
    BY <1>2, <1>6, FS_AddElement
  <1>. QED
    BY <1>2, <1>3, <1>4, <1>5, <1>6

\* What a step must leave alone for the lock of key j to stay in order.
LEMMA KeyUnchanged ==
    ASSUME NEW j \in Keys, KeyExact(j), table'[j] = table[j],
           table[j] # NoSlot => slots'[table[j]] = slots[table[j]],
           Waiting(j)' = Waiting(j), Holding(j)' = Holding(j),
           \A c \in Waiting(j) : fut'[c] = fut[c]
    PROVE  KeyExact(j)'
  <1>1. Using(j)' = Using(j)
    BY DEF Using
  <1>2. ASSUME table[j] # NoSlot
        PROVE  LockExact(slots[table[j]], j)'
    <2>1. PICK r : r = slots[table[j]]
      OBVIOUS
    <2>2. (slots[table[j]])' = r /\ LockExact(r, j)
      BY <1>2, <2>1 DEF KeyExact
    <2>3. Len(r.waiters) > 0 => r.waiters[1] \in Waiting(j)
      BY <2>2 DEF LockExact, SlotType, QueueExact, Elements
    <2>4. QueueExact(r, j)' /\ HolderExact(r, j)'
      BY <2>2 DEF LockExact, QueueExact, HolderExact
    <2>5. WakesHead(r, j)' /\ WakeSent(r)'
      BY <2>2, <2>3 DEF LockExact, WakesHead, WakeSent, Woken
    <2>6. LockExact(r, j)'
      BY <2>2, <2>4, <2>5, <1>1 DEF LockExact
    <2>. QED
      BY <2>2, <2>6 DEF LockExact, QueueExact, HolderExact, WakesHead, WakeSent
  <1>. QED
    BY <1>1, <1>2 DEF KeyExact

-----------------------------------------------------------------------------
\* A call of `hold` finds the lock of its key in order, or makes it.
LEMMA Located ==
    ASSUME Locks, NEW k \in Keys, NEW s \in Slots, Locate(k, s)
    PROVE  /\ LockExact(Fields(k, s), k)
           /\ table[k] = s \/ (Fields(k, s) = NewSlot /\ Using(k) = {})
           /\ s # NoSlot
           /\ \A j \in Keys \ {k} : table[j] # s
  <1>1. s # NoSlot
    BY NoneAssumption
  <1>2. \A j \in Keys \ {k} : table[j] # s
    BY <1>1 DEF Locks, Locate, Fresh, SlotsDistinct
  <1>3. CASE table[k] = s
    BY <1>1, <1>2, <1>3 DEF Locks, KeyExact, Fields
  <1>4. CASE table[k] = NoSlot
    <2>1. Fields(k, s) = NewSlot /\ Using(k) = {}
      BY <1>1, <1>4 DEF Locks, KeyExact, Fields
    <2>2. NewSlot \in SlotType /\ Len(NewSlot.waiters) = 0
      BY DEF NewSlot, SlotType
    <2>3. Waiting(k) = {} /\ Holding(k) = {}
      BY <2>1 DEF Using
    <2>4. NewSlot.refs = Cardinality(Using(k))
      BY <2>1, UsingFinite DEF NewSlot
    <2>5. QueueExact(NewSlot, k)
      BY <2>2, <2>3 DEF QueueExact, Elements, Distinct
    <2>6. HolderExact(NewSlot, k) /\ WakesHead(NewSlot, k)
      BY <2>3 DEF HolderExact, WakesHead, NewSlot
    <2>7. WakeSent(NewSlot)
      BY <2>2 DEF WakeSent
    <2>. QED
      BY <1>1, <1>2, <2>1, <2>2, <2>4, <2>5, <2>6, <2>7 DEF LockExact
  <1>. QED
    BY <1>3, <1>4 DEF Locate

\* What the first step of a call does, whichever of the three it is.
LEMMA Entering ==
    ASSUME Locks, NEW c \in Calls, NEW from \in Calls \cup {NoCall},
           NEW k \in Keys, NEW s \in Slots, Enter(c, from, k, s),
           NEW p \in {"queued", "held", "pass"}, pc' = [pc EXCEPT ![c] = p]
    PROVE  /\ FramesRegistered' /\ SlotsDistinct'
           /\ pc[c] = "idle" /\ pc'[c] = p /\ key'[c] = k
           /\ table'[k] = s
           /\ \A d \in Calls \ {c} : pc'[d] = pc[d] /\ key'[d] = key[d]
           /\ \A j \in Keys \ {k} : table'[j] = table[j]
           /\ c \notin Using(k)
  <1>1. pc[c] = "idle" /\ pc'[c] = p /\ key'[c] = k
    BY DEF Enter, Locks, TypeOK
  <1>2. \A d \in Calls \ {c} :
            pc'[d] = pc[d] /\ key'[d] = key[d] /\ slot'[d] = slot[d]
    BY DEF Enter, Locks, TypeOK
  <1>3. table'[k] = s /\ slot'[c] = s
        /\ \A j \in Keys \ {k} : table'[j] = table[j]
    BY DEF Enter, Locks, TypeOK
  <1>4. Locate(k, s)
    BY DEF Enter
  <1>5. s # NoSlot /\ \A j \in Keys \ {k} : table[j] # s
    BY <1>4, Located
  <1>6. FramesRegistered'
    <2>. SUFFICES ASSUME NEW d \in Calls, Active(d)'
                  PROVE  /\ key'[d] \in Keys /\ slot'[d] \in Slots
                         /\ table'[key'[d]] = slot'[d]
      BY DEF FramesRegistered
    <2>1. CASE d = c
      BY <1>1, <1>3, <2>1
    <2>2. CASE d # c
      <3>1. Active(d) /\ key'[d] = key[d] /\ slot'[d] = slot[d]
        BY <1>2, <2>2 DEF Active
      <3>2. key[d] \in Keys /\ slot[d] \in Slots /\ table[key[d]] = slot[d]
        BY <3>1 DEF Locks, FramesRegistered
      <3>3. key[d] = k => table[k] = s
        BY <1>4, <3>2, NoneAssumption DEF Locate
      <3>. QED
        BY <1>3, <3>1, <3>2, <3>3
    <2>. QED
      BY <2>1, <2>2
  <1>7. SlotsDistinct'
    BY <1>3, <1>5 DEF Locks, SlotsDistinct
  <1>8. c \notin Using(k)
    BY <1>1 DEF Using, Waiting, Holding
  <1>. QED
    BY <1>1, <1>2, <1>3, <1>6, <1>7, <1>8

LEMMA EnteredLocks ==
    ASSUME Locks, NEW c \in Calls, NEW from \in Calls \cup {NoCall},
           NEW k \in Keys, NEW s \in Slots, Enter(c, from, k, s),
           NEW p \in {"queued", "held", "pass"}, pc' = [pc EXCEPT ![c] = p],
           TypeOK', p = "queued" <=> fut'[c] # "none",
           \A d \in Calls \ {c} : fut'[d] = fut[d],
           \A m \in Slots \ {s} : slots'[m] = slots[m],
           LockExact(slots[s], k)', Using(k)' # {}
    PROVE  Locks'
  <1>1. /\ FramesRegistered' /\ SlotsDistinct'
        /\ pc[c] = "idle" /\ pc'[c] = p /\ key'[c] = k
        /\ table'[k] = s
        /\ \A d \in Calls \ {c} : pc'[d] = pc[d] /\ key'[d] = key[d]
        /\ \A j \in Keys \ {k} : table'[j] = table[j]
    <2>1. FramesRegistered'
      BY Entering
    <2>2. SlotsDistinct'
      BY Entering
    <2>3. /\ pc[c] = "idle" /\ pc'[c] = p /\ key'[c] = k
          /\ \A d \in Calls \ {c} : pc'[d] = pc[d] /\ key'[d] = key[d]
      BY DEF Enter, Locks, TypeOK
    <2>4. table'[k] = s /\ \A j \in Keys \ {k} : table'[j] = table[j]
      BY DEF Enter, Locks, TypeOK
    <2>. QED
      BY <2>1, <2>2, <2>3, <2>4
  <1>2. s # NoSlot /\ \A j \in Keys \ {k} : table[j] # s
    BY Located DEF Enter
  <1>3. FuturesQueued'
    BY <1>1 DEF Locks, FuturesQueued
  <1>4. KeyExact(k)'
    BY <1>1, <1>2 DEF KeyExact
  <1>5. ASSUME NEW j \in Keys \ {k} PROVE KeyExact(j)'
    <2>1. KeyExact(j) /\ table'[j] = table[j]
      BY <1>1 DEF Locks
    <2>2. table[j] # NoSlot => slots'[table[j]] = slots[table[j]]
      BY <1>2 DEF Locks, TypeOK
    <2>3. \A d \in Waiting(j) : fut'[d] = fut[d]
      BY <1>1 DEF Waiting
    <2>4. Waiting(j)' = Waiting(j) /\ Holding(j)' = Holding(j)
      BY <1>1 DEF Waiting, Holding
    <2>. QED
      BY <2>1, <2>2, <2>3, <2>4, KeyUnchanged
  <1>. QED
    BY <1>1, <1>3, <1>4, <1>5 DEF Locks

LEMMA PassLocks ==
    ASSUME Locks, NEW c \in Calls, NEW from \in Calls \cup {NoCall},
           NEW k \in Keys, NEW s \in Slots, Pass(c, from, k, s)
    PROVE  Locks'
  <1>1. Enter(c, from, k, s) /\ pc' = [pc EXCEPT ![c] = "pass"]
        /\ slots' = slots /\ fut' = fut
    BY DEF Pass
  <1>2. /\ pc[c] = "idle" /\ pc'[c] = "pass"
        /\ \A d \in Calls \ {c} : pc'[d] = pc[d] /\ key'[d] = key[d]
    BY <1>1, Entering
  <1>3. TypeOK'
    BY <1>1 DEF Locks, TypeOK, Enter
  \* The holder is a task, so the slot is in the table already.
  <1>4. table[k] = s /\ LockExact(slots[s], k) /\ Holding(k) # {}
    <2>1. LockExact(Fields(k, s), k)
      BY <1>1, Located DEF Enter
    <2>2. TaskOf[c] # NoTask
      BY TaskOfAssumption, NoneAssumption
    <2>3. Fields(k, s).holder # NoTask
      BY <2>2 DEF Pass
    <2>4. Fields(k, s) # NewSlot
      BY <2>3 DEF NewSlot
    <2>5. Holding(k) # {}
      BY <2>1, <2>3 DEF LockExact, HolderExact, SlotType
    <2>. QED
      BY <2>1, <2>4, <2>5 DEF Fields
  <1>5. Waiting(k)' = Waiting(k) /\ Holding(k)' = Holding(k)
    BY <1>2 DEF Waiting, Holding
  <1>6. Using(k)' = Using(k) /\ Using(k)' # {}
    BY <1>4, <1>5 DEF Using
  <1>7. LockExact(slots[s], k)'
    BY <1>1, <1>4, <1>5, <1>6
    DEF LockExact, QueueExact, HolderExact, WakesHead, WakeSent, Woken
  <1>8. fut'[c] = "none"
    BY <1>1, <1>2 DEF Locks, FuturesQueued
  <1>. QED
    BY <1>1, <1>3, <1>6, <1>7, <1>8, EnteredLocks

LEMMA FreeLock ==
    ASSUME NEW r, NEW k \in Keys, LockExact(r, k), Free(r)
    PROVE  /\ ~r.locked /\ Holding(k) = {}
           /\ \A d \in Waiting(k) : ~Woken(d)
  <1>1. ~r.locked /\ Holding(k) = {}
    BY DEF Free, LockExact, HolderExact
  <1>2. DOMAIN r.waiters = 1 .. Len(r.waiters)
    BY DEF LockExact, SlotType
  <1>3. \A d \in Waiting(k) : fut[d] = "cancelled"
    BY <1>2 DEF Free, LockExact, QueueExact, Elements
  <1>. QED
    BY <1>1, <1>3 DEF Woken

LEMMA TakeLocks ==
    ASSUME Locks, NEW c \in Calls, NEW from \in Calls \cup {NoCall},
           NEW k \in Keys, NEW s \in Slots, Take(c, from, k, s)
    PROVE  Locks'
  <1>1. Enter(c, from, k, s) /\ pc' = [pc EXCEPT ![c] = "held"]
        /\ fut' = fut
    BY DEF Take
  <1>2. /\ pc[c] = "idle" /\ pc'[c] = "held" /\ key'[c] = k
        /\ \A d \in Calls \ {c} : pc'[d] = pc[d] /\ key'[d] = key[d]
        /\ c \notin Using(k)
    BY <1>1, Entering
  <1>3. PICK r : r = Fields(k, s)
    OBVIOUS
  <1>4. LockExact(r, k) /\ Free(r)
    BY <1>1, <1>3, Located DEF Enter, Take
  <1>5. ~r.locked /\ Holding(k) = {} /\ \A d \in Waiting(k) : ~Woken(d)
    BY <1>4, FreeLock
  <1>6. PICK q : q = [r EXCEPT !.refs = @ + 1, !.locked = TRUE,
                               !.holder = TaskOf[c]]
    OBVIOUS
  <1>7. slots' = [slots EXCEPT ![s] = q]
    BY <1>3, <1>6 DEF Take
  <1>8. q \in SlotType /\ q.refs = r.refs + 1 /\ q.locked
        /\ q.holder = TaskOf[c] /\ q.waiters = r.waiters
    <2>1. r \in SlotType /\ r.refs \in Nat
      BY <1>4 DEF LockExact, SlotType
    <2>2. q = [refs |-> r.refs + 1, holder |-> TaskOf[c], locked |-> TRUE,
               waiters |-> r.waiters]
      BY <2>1, <1>6 DEF SlotType
    <2>. QED
      BY <2>1, <2>2, TaskOfAssumption DEF SlotType
  <1>9. TypeOK'
    BY <1>1, <1>7, <1>8 DEF Locks, TypeOK, Enter
  <1>10. Waiting(k)' = Waiting(k) /\ Holding(k)' = {c}
    BY <1>2, <1>5 DEF Waiting, Holding
  <1>11. Using(k)' = Using(k) \cup {c}
    BY <1>5, <1>10 DEF Using
  <1>12. q.refs = Cardinality(Using(k))'
    BY <1>2, <1>4, <1>8, <1>11, UsingFinite DEF LockExact
  <1>13. QueueExact(q, k)' /\ HolderExact(q, k)'
    BY <1>4, <1>8, <1>10 DEF LockExact, QueueExact, HolderExact
  <1>14. WakesHead(q, k)' /\ WakeSent(q)'
    BY <1>1, <1>5, <1>8, <1>10 DEF WakesHead, WakeSent, Woken
  <1>15. LockExact(slots[s], k)'
    <2>1. slots'[s] = q
      BY <1>7 DEF Locks, TypeOK
    <2>2. LockExact(q, k)'
      BY <1>8, <1>12, <1>13, <1>14 DEF LockExact
    <2>. QED
      BY <2>1, <2>2
      DEF LockExact, QueueExact, HolderExact, WakesHead, WakeSent
  <1>16. fut'[c] = "none"
    BY <1>1, <1>2 DEF Locks, FuturesQueued
  <1>17. \A m \in Slots \ {s} : slots'[m] = slots[m]
    BY <1>7 DEF Locks, TypeOK
  <1>. QED
    BY <1>1, <1>9, <1>11, <1>15, <1>16, <1>17, EnteredLocks

LEMMA QueueLocks ==
    ASSUME Locks, NEW c \in Calls, NEW from \in Calls \cup {NoCall},
           NEW k \in Keys, NEW s \in Slots, Queue(c, from, k, s)
    PROVE  Locks'
  <1>1. /\ Enter(c, from, k, s) /\ pc' = [pc EXCEPT ![c] = "queued"]
        /\ fut' = [fut EXCEPT ![c] = "pending"]
    BY DEF Queue
  <1>2. /\ pc[c] = "idle" /\ pc'[c] = "queued" /\ key'[c] = k
        /\ \A d \in Calls \ {c} : pc'[d] = pc[d] /\ key'[d] = key[d]
        /\ c \notin Using(k)
    BY <1>1, Entering
  <1>3. fut'[c] = "pending" /\ \A d \in Calls \ {c} : fut'[d] = fut[d]
    BY <1>1 DEF Locks, TypeOK
  <1>4. PICK r : r = slots[s]
    OBVIOUS
  \* A new slot has a free lock, so this one is in the table.
  <1>5. Fields(k, s) = r /\ LockExact(r, k) /\ ~Free(r)
    <2>1. LockExact(Fields(k, s), k) /\ ~Free(Fields(k, s))
      BY <1>1, Located DEF Enter, Queue
    <2>2. Free(NewSlot)
      BY DEF Free, NewSlot
    <2>. QED
      BY <2>1, <2>2, <1>4 DEF Fields
  <1>6. r \in SlotType /\ r.refs \in Nat /\ r.waiters \in Seq(Calls)
    BY <1>5 DEF LockExact, SlotType
  <1>7. PICK n \in Nat, w \in Seq(Calls) :
            n = r.refs + 1 /\ w = Append(r.waiters, c)
    <2>. r.refs + 1 \in Nat /\ Append(r.waiters, c) \in Seq(Calls)
      BY <1>6
    <2>. QED
      OBVIOUS
  <1>q. PICK q : q = [r EXCEPT !.refs = n, !.waiters = w]
    OBVIOUS
  <1>8. slots' = [slots EXCEPT ![s] = q]
    BY <1>5, <1>7, <1>q DEF Queue
  <1>9. slots'[s] = q /\ \A m \in Slots \ {s} : slots'[m] = slots[m]
    BY <1>8 DEF Locks, TypeOK
  <1>10. /\ q \in SlotType /\ q.refs = n /\ q.waiters = w
         /\ q.holder = r.holder /\ q.locked = r.locked
    BY <1>6, <1>q DEF SlotType
  <1>11. TypeOK'
    BY <1>1, <1>8, <1>10 DEF Locks, TypeOK, Enter
  <1>12. Waiting(k)' = Waiting(k) \cup {c} /\ Holding(k)' = Holding(k)
    BY <1>2 DEF Waiting, Holding
  <1>13. Using(k)' = Using(k) \cup {c}
    BY <1>12 DEF Using
  <1>14. q.refs = Cardinality(Using(k))'
    BY <1>2, <1>5, <1>7, <1>10, <1>13, UsingFinite DEF LockExact
  <1>15. c \notin Elements(r.waiters) /\ Distinct(r.waiters)
    BY <1>2, <1>5 DEF LockExact, QueueExact, Using
  <1>16. /\ Distinct(q.waiters) /\ Len(q.waiters) > 0
         /\ Elements(q.waiters) = Elements(r.waiters) \cup {c}
         /\ q.waiters[1] = IF Len(r.waiters) = 0 THEN c ELSE r.waiters[1]
    BY <1>6, <1>7, <1>10, <1>15, AppendElement
  <1>17. QueueExact(q, k)' /\ HolderExact(q, k)'
    BY <1>5, <1>10, <1>12, <1>16
    DEF LockExact, QueueExact, HolderExact
  <1>18. Len(r.waiters) > 0 =>
             r.waiters[1] \in Elements(r.waiters) /\ r.waiters[1] # c
    BY <1>6, <1>15 DEF Elements
  \* The queue was not empty, so its head is what it was.
  <1>19. ~r.locked => Len(r.waiters) > 0
    BY <1>5, <1>6 DEF Free
  <1>20. WakeSent(q)'
    <2>1. ~r.locked => fut[r.waiters[1]] # "pending"
      BY <1>5, <1>19 DEF LockExact, WakeSent
    <2>2. ~r.locked => r.waiters[1] \in Calls \ {c}
      BY <1>6, <1>18, <1>19
    <2>. QED
      BY <1>3, <1>10, <1>16, <1>19, <2>1, <2>2 DEF WakeSent
  <1>21. WakesHead(q, k)'
    <2>. SUFFICES ASSUME NEW d \in Waiting(k)', Woken(d)'
                  PROVE  ~q.locked /\ q.waiters[1] = d
      BY DEF WakesHead
    <2>1. d \in Waiting(k) /\ Woken(d)
      BY <1>3, <1>12 DEF Woken, Waiting
    <2>2. ~r.locked /\ r.waiters[1] = d
      BY <2>1, <1>5 DEF LockExact, WakesHead
    <2>. QED
      BY <2>2, <1>6, <1>10, <1>16, <1>19
  <1>22. LockExact(slots[s], k)'
    <2>1. LockExact(q, k)'
      BY <1>10, <1>14, <1>17, <1>20, <1>21 DEF LockExact
    <2>. QED
      BY <1>9, <2>1
      DEF LockExact, QueueExact, HolderExact, WakesHead, WakeSent
  <1>23. fut'[c] # "none"
    BY <1>3
  <1>. QED
    BY <1>1, <1>3, <1>9, <1>11, <1>13, <1>22, <1>23, EnteredLocks

\* What a queued call does while it stays in its slot.
LEMMA StayedLocks ==
    ASSUME Locks, NEW c \in Calls, pc[c] = "queued", TypeOK',
           key' = key, slot' = slot, table' = table,
           Active(c)', pc'[c] = "queued" <=> fut'[c] # "none",
           \A d \in Calls \ {c} : pc'[d] = pc[d] /\ fut'[d] = fut[d],
           \A m \in Slots \ {slot[c]} : slots'[m] = slots[m],
           LockExact(slots[slot[c]], key[c])', Using(key[c])' # {}
    PROVE  Locks'
  <1>1. /\ key[c] \in Keys /\ slot[c] \in Slots
        /\ table[key[c]] = slot[c] /\ slot[c] # NoSlot
    BY NoneAssumption DEF Locks, FramesRegistered, Active
  <1>2. FramesRegistered'
    BY DEF Locks, FramesRegistered, Active
  <1>3. SlotsDistinct'
    BY DEF Locks, SlotsDistinct
  <1>4. FuturesQueued'
    BY DEF Locks, FuturesQueued
  <1>5. KeyExact(key[c])'
    BY <1>1 DEF KeyExact
  <1>6. ASSUME NEW j \in Keys \ {key[c]} PROVE KeyExact(j)'
    <2>1. KeyExact(j) /\ table'[j] = table[j]
      BY DEF Locks
    <2>2. table[j] # NoSlot => slots'[table[j]] = slots[table[j]]
      BY <1>1 DEF Locks, TypeOK, SlotsDistinct
    <2>3. \A d \in Waiting(j) : fut'[d] = fut[d]
      BY DEF Waiting
    <2>4. Waiting(j)' = Waiting(j) /\ Holding(j)' = Holding(j)
      BY DEF Waiting, Holding
    <2>. QED
      BY <2>1, <2>2, <2>3, <2>4, KeyUnchanged
  <1>7. \A j \in Keys : KeyExact(j)'
    BY <1>5, <1>6
  <1>. QED
    BY <1>2, <1>3, <1>4, <1>7 DEF Locks

LEMMA ResumeLocks ==
    ASSUME Locks, NEW c \in Calls, Resume(c)
    PROVE  Locks'
  <1>1. /\ pc[c] = "queued" /\ fut[c] = "woken"
        /\ pc' = [pc EXCEPT ![c] = "held"]
        /\ fut' = [fut EXCEPT ![c] = "none"]
        /\ key' = key /\ caller' = caller /\ slot' = slot /\ table' = table
    BY DEF Resume
  <1>2. /\ pc'[c] = "held" /\ fut'[c] = "none"
        /\ \A d \in Calls \ {c} : pc'[d] = pc[d] /\ fut'[d] = fut[d]
    BY <1>1 DEF Locks, TypeOK
  <1>3. PICK k \in Keys, s \in Slots : k = key[c] /\ s = slot[c]
    BY <1>1 DEF Locks, FramesRegistered, Active
  <1>4. PICK r : r = slots[s]
    OBVIOUS
  <1>5. LockExact(r, k) /\ c \in Waiting(k)
    <2>1. table[k] = s /\ s # NoSlot
      BY <1>1, <1>3, NoneAssumption DEF Locks, FramesRegistered, Active
    <2>2. c \in Waiting(k)
      BY <1>1, <1>3 DEF Waiting
    <2>. QED
      BY <1>4, <2>1, <2>2 DEF Locks, KeyExact
  \* The wake-up was sent to the head of the queue of a free lock.
  <1>6. ~r.locked /\ Holding(k) = {} /\ r.waiters[1] = c
    BY <1>1, <1>5 DEF LockExact, WakesHead, HolderExact, Woken
  <1>7. r \in SlotType /\ r.refs \in Nat /\ r.waiters \in Seq(Calls)
        /\ c \in Elements(r.waiters) /\ Distinct(r.waiters)
    BY <1>5 DEF LockExact, SlotType, QueueExact
  <1>8. PICK w \in Seq(Calls) :
            /\ w = RemoveFirst(r.waiters, c) /\ Distinct(w)
            /\ Elements(w) = Elements(r.waiters) \ {c}
    BY <1>7, RemoveFirstElement
  <1>q. PICK q : q = [r EXCEPT !.waiters = w, !.locked = TRUE,
                               !.holder = TaskOf[c]]
    OBVIOUS
  <1>9. /\ q.refs = r.refs /\ q.holder = TaskOf[c]
        /\ q.locked /\ q.waiters = w
    BY <1>7, <1>q, TaskOfAssumption DEF SlotType
  <1>10. q \in SlotType
    BY <1>7, <1>q, TaskOfAssumption DEF SlotType
  <1>11. slots' = [slots EXCEPT ![s] = q]
    BY <1>3, <1>4, <1>8, <1>q DEF Resume
  <1>12. slots'[s] = q /\ \A m \in Slots \ {s} : slots'[m] = slots[m]
    BY <1>11 DEF Locks, TypeOK
  <1>13. TypeOK'
    BY <1>1, <1>10, <1>11 DEF Locks, TypeOK
  <1>14. Waiting(k)' = Waiting(k) \ {c} /\ Holding(k)' = {c}
    BY <1>1, <1>2, <1>3, <1>6 DEF Waiting, Holding
  <1>15. Using(k)' = Using(k) /\ Using(k)' # {}
    BY <1>5, <1>6, <1>14 DEF Using
  <1>16. QueueExact(q, k)' /\ HolderExact(q, k)'
    BY <1>5, <1>8, <1>9, <1>14
    DEF LockExact, QueueExact, HolderExact
  <1>17. WakesHead(q, k)' /\ WakeSent(q)'
    <2>1. \A d \in Waiting(k) : Woken(d) => d = c
      BY <1>5, <1>6 DEF LockExact, WakesHead
    <2>2. \A d \in Waiting(k)' : ~Woken(d)'
      BY <1>2, <1>14, <2>1 DEF Woken, Waiting
    <2>. QED
      BY <1>9, <2>2 DEF WakesHead, WakeSent
  <1>18. LockExact(slots[slot[c]], key[c])'
    <2>1. LockExact(q, k)'
      BY <1>5, <1>9, <1>10, <1>15, <1>16, <1>17 DEF LockExact
    <2>2. (slots[slot[c]])' = q /\ key'[c] = k
      BY <1>1, <1>3, <1>12
    <2>. QED
      BY <2>1, <2>2
      DEF LockExact, QueueExact, HolderExact, WakesHead, WakeSent
  <1>19. Active(c)' /\ (pc'[c] = "queued" <=> fut'[c] # "none")
    BY <1>2 DEF Active
  <1>20. Using(key[c])' # {}
    BY <1>1, <1>3, <1>15
  <1>. QED
    BY <1>1, <1>2, <1>3, <1>12, <1>13, <1>18, <1>19, <1>20, StayedLocks

LEMMA CancelLocks ==
    ASSUME Locks, NEW c \in Calls, Cancel(c)
    PROVE  Locks'
  <1>1. /\ pc[c] = "queued" /\ pc' = pc /\ key' = key /\ caller' = caller
        /\ slot' = slot /\ table' = table /\ slots' = slots
    BY DEF Cancel
  <1>2. /\ \/ fut[c] = "pending" /\ fut'[c] = "cancelled"
           \/ fut[c] = "woken" /\ fut'[c] = "doomed"
        /\ \A d \in Calls \ {c} : fut'[d] = fut[d]
    BY DEF Cancel, Locks, TypeOK
  <1>3. TypeOK'
    BY <1>1 DEF Cancel, Locks, TypeOK
  <1>4. PICK k \in Keys, s \in Slots : k = key[c] /\ s = slot[c]
    BY <1>1 DEF Locks, FramesRegistered, Active
  <1>5. PICK r : r = slots[s]
    OBVIOUS
  <1>6. LockExact(r, k) /\ c \in Waiting(k)
    <2>1. table[k] = s /\ s # NoSlot
      BY <1>1, <1>4, NoneAssumption DEF Locks, FramesRegistered, Active
    <2>2. c \in Waiting(k)
      BY <1>1, <1>4 DEF Waiting
    <2>. QED
      BY <1>5, <2>1, <2>2 DEF Locks, KeyExact
  <1>7. Waiting(k)' = Waiting(k) /\ Holding(k)' = Holding(k)
    BY <1>1 DEF Waiting, Holding
  <1>8. Using(k)' = Using(k) /\ Using(k)' # {}
    BY <1>6, <1>7 DEF Using
  <1>9. QueueExact(r, k)' /\ HolderExact(r, k)'
    BY <1>6, <1>7 DEF LockExact, QueueExact, HolderExact
  \* A cancelled wake-up is still a wake-up.
  <1>10. WakesHead(r, k)'
    <2>1. \A d \in Calls : Woken(d)' <=> Woken(d)
      BY <1>2 DEF Woken
    <2>. QED
      BY <1>6, <1>7, <2>1 DEF LockExact, WakesHead, Waiting
  <1>11. WakeSent(r)'
    <2>1. Len(r.waiters) > 0 => r.waiters[1] \in Calls
      BY <1>6 DEF LockExact, SlotType
    <2>. QED
      BY <1>2, <1>6, <2>1 DEF LockExact, WakeSent
  <1>12. LockExact(slots[slot[c]], key[c])'
    <2>1. LockExact(r, k)'
      BY <1>6, <1>8, <1>9, <1>10, <1>11 DEF LockExact
    <2>2. (slots[slot[c]])' = r /\ key'[c] = k
      BY <1>1, <1>4, <1>5
    <2>. QED
      BY <2>1, <2>2
      DEF LockExact, QueueExact, HolderExact, WakesHead, WakeSent
  <1>13. Active(c)' /\ (pc'[c] = "queued" <=> fut'[c] # "none")
    BY <1>1, <1>2 DEF Active
  <1>14. Using(key[c])' # {}
    BY <1>1, <1>4, <1>8
  <1>. QED
    BY <1>1, <1>2, <1>3, <1>12, <1>13, <1>14, StayedLocks

-----------------------------------------------------------------------------
\* What the last step of a call that counts in its slot does to the rest.
LEMMA LeftLocks ==
    ASSUME Locks, NEW c \in Calls, pc[c] \in {"queued", "held"},
           NEW k \in Keys, k = key[c], NEW s \in Slots, s = slot[c],
           NEW rec \in SlotType, rec.refs = slots[s].refs,
           DropRef(c, s, rec), Return(c),
           fut' \in [Calls ->
                        {"none", "pending", "woken", "cancelled", "doomed"}],
           fut'[c] = "none",
           \A d \in Calls \ {c} : fut'[d] = "none" <=> fut[d] = "none",
           \A d \in Calls : key[d] # k => fut'[d] = fut[d],
           \A d \in Calls : pc[d] = "pass" /\ key[d] = k =>
               Holding(k) \ {c} # {},
           QueueExact(rec, k)', HolderExact(rec, k)',
           WakesHead(rec, k)', WakeSent(rec)'
    PROVE  Locks'
  <1>1. table[k] = s /\ s # NoSlot /\ k # NoKey
    BY NoneAssumption DEF Locks, FramesRegistered, Active
  <1>2. /\ pc'[c] = "done" /\ key'[c] = NoKey
        /\ \A d \in Calls \ {c} :
               pc'[d] = pc[d] /\ key'[d] = key[d] /\ slot'[d] = slot[d]
    BY DEF Return, Locks, TypeOK
  <1>3. LockExact(slots[s], k) /\ c \in Using(k)
    BY <1>1 DEF Locks, KeyExact, Using, Waiting, Holding
  <1>4. Using(k)' = Using(k) \ {c}
    BY <1>2 DEF Using, Waiting, Holding
  <1>5. /\ rec.refs = Cardinality(Using(k))
        /\ Cardinality(Using(k))' = rec.refs - 1
        /\ rec.refs = 1 <=> Using(k)' = {}
    BY <1>3, <1>4, UsingFinite DEF LockExact
  <1>6. rec.refs - 1 \in Nat
    <2>1. Cardinality(Using(k) \ {c}) \in Nat
      BY <1>3, CallsAssumption, FS_Subset, FS_CardinalityType
      DEF Using, Waiting, Holding
    <2>. QED
      BY <1>4, <1>5, <2>1
  <1>7. PICK n \in Nat : n = rec.refs - 1
    BY <1>6
  <1>8. PICK q : q = [rec EXCEPT !.refs = n]
    OBVIOUS
  <1>9. /\ q \in SlotType /\ q.refs = n /\ q.waiters = rec.waiters
        /\ q.holder = rec.holder /\ q.locked = rec.locked
    BY <1>8 DEF SlotType
  <1>10. slots' = [slots EXCEPT ![s] = q]
    BY <1>7, <1>8 DEF DropRef
  <1>11. slots'[s] = q /\ \A m \in Slots \ {s} : slots'[m] = slots[m]
    BY <1>10 DEF Locks, TypeOK
  <1>12. table' = IF Using(k)' = {} THEN [table EXCEPT ![k] = NoSlot]
                                    ELSE table
    BY <1>1, <1>5 DEF DropRef
  <1>13. /\ table'[k] = IF Using(k)' = {} THEN NoSlot ELSE s
         /\ \A j \in Keys \ {k} : table'[j] = table[j]
    BY <1>1, <1>12 DEF Locks, TypeOK
  <1>14. TypeOK'
    <2>1. pc' \in [Calls -> {"idle", "queued", "held", "pass", "done"}]
      BY DEF Locks, TypeOK, Return
    <2>2. /\ key' \in [Calls -> Keys \cup {NoKey}]
          /\ caller' \in [Calls -> Calls \cup {NoCall}]
          /\ slot' \in [Calls -> Slots \cup {NoSlot}]
      BY DEF Locks, TypeOK, Return
    <2>3. table' \in [Keys -> Slots \cup {NoSlot}]
      BY <1>12 DEF Locks, TypeOK
    <2>4. slots' \in [Slots -> SlotType]
      BY <1>9, <1>10 DEF Locks, TypeOK
    <2>. QED
      BY <2>1, <2>2, <2>3, <2>4 DEF TypeOK
  \* A call that still counts keeps the slot, and so does a re-entrant one:
  \* the call it was made from counts.
  <1>15. FramesRegistered'
    <2>. SUFFICES ASSUME NEW d \in Calls, Active(d)'
                  PROVE  /\ key'[d] \in Keys /\ slot'[d] \in Slots
                         /\ table'[key'[d]] = slot'[d]
      BY DEF FramesRegistered
    <2>1. /\ d # c /\ Active(d) /\ key'[d] = key[d] /\ slot'[d] = slot[d]
      BY <1>2 DEF Active
    <2>2. key[d] \in Keys /\ slot[d] \in Slots /\ table[key[d]] = slot[d]
      BY <2>1 DEF Locks, FramesRegistered
    <2>3. ASSUME key[d] = k PROVE Using(k)' # {}
      <3>1. CASE pc[d] = "pass"
        BY <3>1, <2>3, <1>4 DEF Using
      <3>2. CASE pc[d] # "pass"
        BY <3>2, <2>1, <2>3, <1>4 DEF Using, Waiting, Holding, Active
      <3>. QED
        BY <3>1, <3>2
    <2>. QED
      BY <1>1, <1>13, <2>1, <2>2, <2>3
  <1>16. SlotsDistinct'
    BY <1>1, <1>13 DEF Locks, SlotsDistinct
  <1>17. FuturesQueued'
    BY <1>2 DEF Locks, FuturesQueued
  <1>18. KeyExact(k)'
    <2>1. LockExact(q, k)'
      BY <1>5, <1>7, <1>9
      DEF LockExact, QueueExact, HolderExact, WakesHead, WakeSent
    <2>2. LockExact(slots[s], k)'
      BY <1>11, <2>1
      DEF LockExact, QueueExact, HolderExact, WakesHead, WakeSent
    <2>. QED
      BY <1>1, <1>13, <2>2 DEF KeyExact
  <1>19. ASSUME NEW j \in Keys \ {k} PROVE KeyExact(j)'
    <2>1. KeyExact(j) /\ table'[j] = table[j]
      BY <1>13 DEF Locks
    <2>2. table[j] # NoSlot => slots'[table[j]] = slots[table[j]]
      BY <1>1, <1>11 DEF Locks, TypeOK, SlotsDistinct
    <2>3. \A d \in Waiting(j) : fut'[d] = fut[d]
      BY DEF Waiting
    <2>4. Waiting(j)' = Waiting(j) /\ Holding(j)' = Holding(j)
      BY <1>2 DEF Waiting, Holding
    <2>. QED
      BY <2>1, <2>2, <2>3, <2>4, KeyUnchanged
  <1>20. \A j \in Keys : KeyExact(j)'
    BY <1>18, <1>19
  <1>. QED
    BY <1>14, <1>15, <1>16, <1>17, <1>20 DEF Locks

FutStates == {"none", "pending", "woken", "cancelled", "doomed"}

LEMMA WakeOne ==
    ASSUME NEW f \in [Calls -> FutStates], NEW q \in Seq(Calls)
    PROVE  LET g == WakeFirst(f, q)
           IN  /\ g \in [Calls -> FutStates]
               /\ \A d \in Calls :
                     \/ g[d] = f[d]
                     \/ /\ Len(q) > 0 /\ d = q[1]
                        /\ f[d] = "pending" /\ g[d] = "woken"
               /\ Len(q) > 0 => g[q[1]] # "pending"
  <1>1. CASE q = <<>>
    BY <1>1 DEF WakeFirst
  <1>2. CASE q # <<>>
    <2>1. Len(q) > 0 /\ Head(q) = q[1] /\ q[1] \in Calls
      BY <1>2
    <2>. QED
      BY <1>2, <2>1 DEF WakeFirst, FutStates
  <1>. QED
    BY <1>1, <1>2

LEMMA UnwindLocks ==
    ASSUME Locks, PassesNested, NEW c \in Calls, Unwind(c)
    PROVE  Locks'
  <1>1. pc[c] = "queued" /\ Return(c)
    BY DEF Unwind
  <1>2. PICK k \in Keys, s \in Slots : k = key[c] /\ s = slot[c]
    BY <1>1 DEF Locks, FramesRegistered, Active
  <1>3. PICK r : r = slots[s]
    OBVIOUS
  <1>4. LockExact(r, k) /\ c \in Waiting(k)
    <2>1. table[k] = s /\ s # NoSlot
      BY <1>1, <1>2, NoneAssumption DEF Locks, FramesRegistered, Active
    <2>2. c \in Waiting(k)
      BY <1>1, <1>2 DEF Waiting
    <2>. QED
      BY <1>3, <2>1, <2>2 DEF Locks, KeyExact
  <1>5. r \in SlotType /\ r.waiters \in Seq(Calls)
        /\ c \in Elements(r.waiters) /\ Distinct(r.waiters)
    BY <1>4 DEF LockExact, SlotType, QueueExact
  <1>6. PICK w \in Seq(Calls) :
            /\ w = RemoveFirst(r.waiters, c) /\ Distinct(w)
            /\ Elements(w) = Elements(r.waiters) \ {c}
            /\ r.waiters[1] # c => Len(w) > 0 /\ w[1] = r.waiters[1]
    BY <1>5, RemoveFirstElement
  <1>7. PICK q : q = [r EXCEPT !.waiters = w]
    OBVIOUS
  <1>8. /\ q \in SlotType /\ q.refs = r.refs /\ q.holder = r.holder
        /\ q.locked = r.locked /\ q.waiters = w
    BY <1>5, <1>7 DEF SlotType
  <1>9. PICK left : left = [fut EXCEPT ![c] = "none"]
    OBVIOUS
  <1>10. /\ left \in [Calls -> FutStates] /\ left[c] = "none"
         /\ \A d \in Calls \ {c} : left[d] = fut[d]
    BY <1>9 DEF Locks, TypeOK, FutStates
  <1>11. /\ fut' = IF q.locked THEN left ELSE WakeFirst(left, w)
         /\ DropRef(c, s, q)
    BY <1>2, <1>3, <1>6, <1>7, <1>8, <1>9 DEF Unwind
  <1>12. /\ fut' \in [Calls -> FutStates]
         /\ \A d \in Calls :
               \/ fut'[d] = left[d]
               \/ /\ ~q.locked /\ Len(w) > 0 /\ d = w[1]
                  /\ left[d] = "pending" /\ fut'[d] = "woken"
         /\ ~q.locked /\ Len(w) > 0 => fut'[w[1]] # "pending"
    <2>1. CASE q.locked
      BY <2>1, <1>10, <1>11
    <2>2. CASE ~q.locked
      BY <2>2, <1>10, <1>11, WakeOne
    <2>. QED
      BY <2>1, <2>2
  <1>13. fut'[c] = "none"
         /\ \A d \in Calls \ {c} : fut'[d] = "none" <=> fut[d] = "none"
    BY <1>10, <1>12
  <1>14. Elements(w) = Waiting(k) \ {c}
    BY <1>4, <1>6 DEF LockExact, QueueExact
  <1>15. ASSUME NEW d \in Calls, key[d] # k PROVE fut'[d] = fut[d]
    <2>1. d # c /\ d \notin Elements(w)
      BY <1>2, <1>14, <1>15 DEF Waiting
    <2>2. ~(Len(w) > 0 /\ d = w[1])
      BY <2>1, <1>6 DEF Elements
    <2>. QED
      BY <1>10, <1>12, <2>1, <2>2
  <1>16. \A d \in Calls \ {c} : pc'[d] = pc[d] /\ key'[d] = key[d]
         /\ pc'[c] = "done"
    BY <1>1 DEF Return, Locks, TypeOK
  <1>17. Waiting(k)' = Waiting(k) \ {c} /\ Holding(k)' = Holding(k)
    BY <1>1, <1>16 DEF Return, Locks, TypeOK, Waiting, Holding
  <1>18. QueueExact(q, k)' /\ HolderExact(q, k)'
    BY <1>4, <1>6, <1>8, <1>14, <1>17
    DEF LockExact, QueueExact, HolderExact
  \* A wake-up sent earlier went to the head, and c, leaving, passes it on.
  <1>19. WakesHead(q, k)'
    <2>. SUFFICES ASSUME NEW d \in Waiting(k) \ {c}, Woken(d)'
                  PROVE  ~q.locked /\ q.waiters[1] = d
      BY <1>17 DEF WakesHead
    <2>1. d \in Calls \ {c}
      BY DEF Waiting
    <2>2. CASE ~q.locked /\ d = w[1]
      BY <2>2, <1>8
    <2>3. CASE fut'[d] = left[d]
      <3>1. Woken(d)
        BY <2>1, <2>3, <1>10 DEF Woken
      <3>2. ~r.locked /\ r.waiters[1] = d
        BY <3>1, <1>4 DEF LockExact, WakesHead
      <3>. QED
        BY <3>2, <2>1, <1>6, <1>8
    <2>. QED
      BY <2>1, <2>2, <2>3, <1>12
  <1>20. WakeSent(q)'
    BY <1>8, <1>12 DEF WakeSent
  <1>21. \A d \in Calls : pc[d] = "pass" /\ key[d] = k =>
             Holding(k) \ {c} # {}
    BY <1>1 DEF PassesNested, Holding
  <1>22. pc[c] \in {"queued", "held"} /\ q.refs = slots[s].refs
    BY <1>1, <1>3, <1>8
  <1>23. /\ fut' \in [Calls ->
                {"none", "pending", "woken", "cancelled", "doomed"}]
         /\ DropRef(c, s, q)
    BY <1>11, <1>12 DEF FutStates
  <1>. QED
    BY <1>1, <1>2, <1>8, <1>13, <1>15, <1>18, <1>19, <1>20, <1>21, <1>22,
       <1>23, LeftLocks

LEMMA LeaveLocks ==
    ASSUME Locks, PassesNested, NEW c \in Calls, Leave(c)
    PROVE  Locks'
  <1>1. pc[c] = "held" /\ Running(c) /\ Return(c)
    BY DEF Leave
  <1>2. PICK k \in Keys, s \in Slots : k = key[c] /\ s = slot[c]
    BY <1>1 DEF Locks, FramesRegistered, Active
  <1>3. PICK r : r = slots[s]
    OBVIOUS
  <1>4. LockExact(r, k) /\ c \in Holding(k)
    <2>1. table[k] = s /\ s # NoSlot
      BY <1>1, <1>2, NoneAssumption DEF Locks, FramesRegistered, Active
    <2>2. c \in Holding(k)
      BY <1>1, <1>2 DEF Holding
    <2>. QED
      BY <1>3, <2>1, <2>2 DEF Locks, KeyExact
  <1>5. /\ r.locked /\ Holding(k) = {c} /\ \A d \in Waiting(k) : ~Woken(d)
        /\ r \in SlotType /\ r.waiters \in Seq(Calls)
        /\ Elements(r.waiters) = Waiting(k)
    BY <1>4 DEF LockExact, HolderExact, WakesHead, SlotType, QueueExact
  <1>6. PICK q : q = [r EXCEPT !.holder = NoTask, !.locked = FALSE]
    OBVIOUS
  <1>7. /\ q \in SlotType /\ q.refs = r.refs /\ q.holder = NoTask
        /\ ~q.locked /\ q.waiters = r.waiters
    BY <1>5, <1>6 DEF SlotType
  <1>8. fut' = WakeFirst(fut, r.waiters) /\ DropRef(c, s, q)
    BY <1>2, <1>3, <1>6, <1>7 DEF Leave
  <1>9. fut \in [Calls -> FutStates]
    BY DEF Locks, TypeOK, FutStates
  <1>10. /\ fut' \in [Calls -> FutStates]
         /\ \A d \in Calls :
               \/ fut'[d] = fut[d]
               \/ /\ Len(r.waiters) > 0 /\ d = r.waiters[1]
                  /\ fut[d] = "pending" /\ fut'[d] = "woken"
         /\ Len(r.waiters) > 0 => fut'[r.waiters[1]] # "pending"
    BY <1>5, <1>8, <1>9, WakeOne
  <1>11. fut[c] = "none"
    BY <1>1, <1>9 DEF Locks, FuturesQueued
  <1>12. fut'[c] = "none"
         /\ \A d \in Calls \ {c} : fut'[d] = "none" <=> fut[d] = "none"
    BY <1>10, <1>11
  <1>13. ASSUME NEW d \in Calls, key[d] # k PROVE fut'[d] = fut[d]
    <2>1. d \notin Elements(r.waiters)
      BY <1>5, <1>13 DEF Waiting
    <2>2. ~(Len(r.waiters) > 0 /\ d = r.waiters[1])
      BY <2>1, <1>5 DEF Elements
    <2>. QED
      BY <1>10, <2>2
  <1>14. Waiting(k)' = Waiting(k) /\ Holding(k)' = {}
    BY <1>1, <1>5 DEF Return, Locks, TypeOK, Waiting, Holding
  <1>15. QueueExact(q, k)' /\ HolderExact(q, k)'
    BY <1>4, <1>7, <1>14 DEF LockExact, QueueExact, HolderExact
  <1>16. WakesHead(q, k)'
    BY <1>5, <1>7, <1>10, <1>14 DEF WakesHead, Woken, Waiting
  <1>17. WakeSent(q)'
    BY <1>7, <1>10 DEF WakeSent
  \* A re-entrant call of this key was made from here and is still open.
  <1>18. ASSUME NEW d \in Calls, pc[d] = "pass", key[d] = k
         PROVE  Holding(k) \ {c} # {}
    <2>1. PICK h \in Calls : pc[h] = "held" /\ key[h] = k /\ Above(d, h)
      BY <1>18 DEF PassesNested
    <2>2. h = c
      BY <2>1, <1>5 DEF Holding
    <2>3. \A e \in Calls : Active(e) /\ caller[e] \in {} \cup {c} => e \in {}
      BY <1>1 DEF Running
    <2>. QED
      BY <2>1, <2>2, <2>3 DEF Above
  <1>19. pc[c] \in {"queued", "held"} /\ q.refs = slots[s].refs
    BY <1>1, <1>3, <1>7
  <1>. QED
    BY <1>1, <1>2, <1>7, <1>8, <1>10, <1>12, <1>13, <1>15, <1>16, <1>17,
       <1>18, <1>19, LeftLocks DEF FutStates

LEMMA LeavePassLocks ==
    ASSUME Locks, NEW c \in Calls, LeavePass(c)
    PROVE  Locks'
  <1>1. /\ pc[c] = "pass" /\ pc'[c] = "done" /\ Return(c)
        /\ fut' = fut /\ table' = table /\ slots' = slots
        /\ \A d \in Calls \ {c} :
               pc'[d] = pc[d] /\ key'[d] = key[d] /\ slot'[d] = slot[d]
    BY DEF LeavePass, Return, Locks, TypeOK
  <1>2. TypeOK'
    BY <1>1 DEF Locks, TypeOK, Return
  <1>3. FramesRegistered'
    BY <1>1 DEF Locks, FramesRegistered, Active
  <1>4. SlotsDistinct' /\ FuturesQueued'
    BY <1>1 DEF Locks, SlotsDistinct, FuturesQueued
  <1>5. ASSUME NEW j \in Keys PROVE KeyExact(j)'
    <2>1. KeyExact(j) /\ Waiting(j)' = Waiting(j) /\ Holding(j)' = Holding(j)
      BY <1>1 DEF Locks, Waiting, Holding
    <2>. QED
      BY <1>1, <2>1, KeyUnchanged
  <1>. QED
    BY <1>2, <1>3, <1>4, <1>5 DEF Locks

LEMMA StutterLocks ==
    ASSUME Locks, UNCHANGED vars
    PROVE  Locks'
  <1>1. TypeOK' /\ FramesRegistered' /\ SlotsDistinct' /\ FuturesQueued'
    BY DEF vars, frame, Locks, TypeOK, FramesRegistered, SlotsDistinct,
           FuturesQueued, Active
  <1>2. ASSUME NEW j \in Keys PROVE KeyExact(j)'
    <2>1. KeyExact(j) /\ Waiting(j)' = Waiting(j) /\ Holding(j)' = Holding(j)
      BY DEF vars, frame, Locks, Waiting, Holding
    <2>. QED
      BY <2>1, KeyUnchanged DEF vars, frame
  <1>. QED
    BY <1>1, <1>2 DEF Locks

LEMMA InitLocks == Init => Locks
  <1>. SUFFICES ASSUME Init PROVE Locks
    OBVIOUS
  <1>1. NewSlot \in SlotType
    BY DEF NewSlot, SlotType
  <1>2. TypeOK
    BY <1>1 DEF Init, TypeOK
  <1>3. FramesRegistered /\ SlotsDistinct /\ FuturesQueued
    BY DEF Init, FramesRegistered, SlotsDistinct, FuturesQueued, Active
  <1>4. \A j \in Keys : KeyExact(j)
    BY DEF Init, KeyExact, Using, Waiting, Holding
  <1>. QED
    BY <1>2, <1>3, <1>4 DEF Locks

-----------------------------------------------------------------------------
\* The call stack.
LEMMA NothingAbove ==
    ASSUME NEW d, NEW c, \A e \in Calls : Active(e) => caller[e] # d
    PROVE  ~Above(c, d)
  <1>1. \A e \in Calls : Active(e) /\ caller[e] \in {} \cup {d} => e \in {}
    OBVIOUS
  <1>. QED
    BY <1>1 DEF Above

LEMMA PushStack ==
    ASSUME Locks, Stack, NEW c \in Calls, NEW from \in Calls \cup {NoCall},
           pc[c] = "idle", MayCall(TaskOf[c], from, key'[c]),
           pc'[c] \in {"queued", "held", "pass"}, caller'[c] = from,
           \A d \in Calls \ {c} : /\ pc'[d] = pc[d] /\ key'[d] = key[d]
                                  /\ caller'[d] = caller[d],
           pc'[c] = "pass" =>
               \E d \in Holding(key'[c]) : TaskOf[d] = TaskOf[c]
    PROVE  Stack'
  <1>1. \A d \in Calls : Active(d)' <=> Active(d) \/ d = c
    BY DEF Active
  <1>2. ~Active(c) /\ \A d \in Calls : Active(d) => caller[d] # c
    BY NoneAssumption DEF Stack, CallersInBody, Active, InBody
  <1>3. ASSUME NEW e, NEW d, Above(e, d) PROVE Above(e, d)'
    <2>. SUFFICES ASSUME NEW S \in SUBSET Calls,
                         \A x \in Calls :
                             Active(x)' /\ caller'[x] \in S \cup {d} => x \in S
                  PROVE  e \in S
      BY DEF Above
    <2>1. \A x \in Calls : Active(x) /\ caller[x] \in S \cup {d} => x \in S
      BY <1>1, <1>2
    <2>. QED
      BY <1>3, <2>1 DEF Above
  <1>4. ASSUME NEW d \in Calls, d = from \/ Above(from, d)
        PROVE  Above(c, d)'
    <2>. SUFFICES ASSUME NEW S \in SUBSET Calls,
                         \A x \in Calls :
                             Active(x)' /\ caller'[x] \in S \cup {d} => x \in S
                  PROVE  c \in S
      BY DEF Above
    <2>1. from \in S \cup {d}
      <3>1. CASE d = from
        BY <3>1
      <3>2. CASE Above(from, d)
        <4>1. \A x \in Calls :
                  Active(x) /\ caller[x] \in S \cup {d} => x \in S
          BY <1>1, <1>2
        <4>. QED
          BY <3>2, <4>1 DEF Above
      <3>. QED
        BY <3>1, <3>2, <1>4
    <2>. QED
      BY <1>1, <2>1
  <1>5. from # NoCall =>
            /\ from \in Calls /\ TaskOf[from] = TaskOf[c] /\ InBody(from)
            /\ Active(from) /\ from # c
            /\ \A e \in Calls : Active(e) => caller[e] # from
    BY <1>2 DEF MayCall, Running, Active
  <1>6. ASSUME NEW d \in Calls, Active(d), TaskOf[d] = TaskOf[c]
        PROVE  Above(c, d)'
    <2>1. from # NoCall
      BY <1>6 DEF MayCall
    <2>2. ~Above(d, from)
      BY <1>5, <2>1, NothingAbove
    <2>3. from = d \/ Above(from, d)
      BY <1>5, <1>6, <2>1, <2>2 DEF Stack, Stacked
    <2>. QED
      BY <2>3, <1>4
  <1>7. CallersInBody'
    <2>. SUFFICES ASSUME NEW d \in Calls, Active(d)'
                  PROVE  \/ caller'[d] = NoCall
                         \/ /\ caller'[d] \in Calls /\ InBody(caller[d])'
                            /\ TaskOf[caller'[d]] = TaskOf[d]
      BY DEF CallersInBody
    <2>1. CASE d = c
      BY <2>1, <1>5 DEF InBody
    <2>2. CASE d # c
      BY <2>2, <1>1, <1>2 DEF Stack, CallersInBody, InBody
    <2>. QED
      BY <2>1, <2>2
  <1>8. Stacked'
    <2>. SUFFICES ASSUME NEW e \in Calls, NEW d \in Calls, Active(e)',
                         Active(d)', TaskOf[e] = TaskOf[d], e # d
                  PROVE  Above(e, d)' \/ Above(d, e)'
      BY DEF Stacked
    <2>1. CASE e = c
      BY <2>1, <1>1, <1>6
    <2>2. CASE d = c
      BY <2>2, <1>1, <1>6
    <2>3. CASE e # c /\ d # c
      <3>1. Above(e, d) \/ Above(d, e)
        BY <2>3, <1>1 DEF Stack, Stacked
      <3>. QED
        BY <3>1, <1>3
    <2>. QED
      BY <2>1, <2>2, <2>3
  <1>9. PassesNested'
    <2>. SUFFICES ASSUME NEW e \in Calls, pc'[e] = "pass"
                  PROVE  \E d \in Calls :
                            /\ pc'[d] = "held" /\ key'[d] = key'[e]
                            /\ TaskOf[d] = TaskOf[e] /\ Above(e, d)'
      BY DEF PassesNested
    <2>1. CASE e = c
      <3>1. PICK d \in Holding(key'[c]) : TaskOf[d] = TaskOf[c]
        BY <2>1
      <3>2. /\ d \in Calls /\ d # c /\ pc[d] = "held" /\ key[d] = key'[c]
            /\ Active(d)
        BY <3>1 DEF Holding, Active
      <3>3. Above(c, d)'
        BY <3>1, <3>2, <1>6
      <3>4. pc'[d] = "held" /\ key'[d] = key'[c]
        BY <3>2
      <3>. QED
        BY <2>1, <3>1, <3>2, <3>3, <3>4
    <2>2. CASE e # c
      <3>1. PICK d \in Calls : /\ pc[d] = "held" /\ key[d] = key[e]
                               /\ TaskOf[d] = TaskOf[e] /\ Above(e, d)
        BY <2>2 DEF Stack, PassesNested
      <3>2. Above(e, d)' /\ d # c
        BY <3>1, <1>3
      <3>. QED
        BY <2>2, <3>1, <3>2
    <2>. QED
      BY <2>1, <2>2
  <1>. QED
    BY <1>7, <1>8, <1>9 DEF Stack

LEMMA PopStack ==
    ASSUME Locks, Stack, NEW c \in Calls, Active(c),
           \A d \in Calls : Active(d) => caller[d] # c,
           pc'[c] = "done",
           \A d \in Calls \ {c} : /\ pc'[d] = pc[d] /\ key'[d] = key[d]
                                  /\ caller'[d] = caller[d]
    PROVE  Stack'
  <1>1. \A d \in Calls : Active(d)' <=> Active(d) /\ d # c
    BY DEF Active
  <1>2. ASSUME NEW e \in Calls \ {c}, NEW d \in Calls, Above(e, d)
        PROVE  Above(e, d)' /\ d # c
    <2>1. ASSUME NEW S \in SUBSET Calls,
                 \A x \in Calls :
                     Active(x)' /\ caller'[x] \in S \cup {d} => x \in S
          PROVE  e \in S
      <3>1. \A x \in Calls :
                Active(x) /\ caller[x] \in (S \cup {c}) \cup {d}
                    => x \in S \cup {c}
        BY <1>1, <2>1
      <3>2. e \in S \cup {c}
        BY <1>2, <3>1 DEF Above
      <3>. QED
        BY <3>2
    <2>2. Above(e, d)'
      BY <2>1 DEF Above
    <2>3. d # c
      BY <1>2, NothingAbove
    <2>. QED
      BY <2>2, <2>3
  <1>3. CallersInBody'
    BY <1>1 DEF Stack, CallersInBody, InBody
  <1>4. Stacked'
    <2>. SUFFICES ASSUME NEW e \in Calls, NEW d \in Calls, Active(e)',
                         Active(d)', TaskOf[e] = TaskOf[d], e # d
                  PROVE  Above(e, d)' \/ Above(d, e)'
      BY DEF Stacked
    <2>1. e # c /\ d # c /\ (Above(e, d) \/ Above(d, e))
      BY <1>1 DEF Stack, Stacked
    <2>. QED
      BY <2>1, <1>2
  <1>5. PassesNested'
    <2>. SUFFICES ASSUME NEW e \in Calls, pc'[e] = "pass"
                  PROVE  \E d \in Calls :
                            /\ pc'[d] = "held" /\ key'[d] = key'[e]
                            /\ TaskOf[d] = TaskOf[e] /\ Above(e, d)'
      BY DEF PassesNested
    <2>1. e # c /\ pc[e] = "pass"
      OBVIOUS
    <2>2. PICK d \in Calls : /\ pc[d] = "held" /\ key[d] = key[e]
                             /\ TaskOf[d] = TaskOf[e] /\ Above(e, d)
      BY <2>1 DEF Stack, PassesNested
    <2>3. Above(e, d)' /\ d # c
      BY <2>1, <2>2, <1>2
    <2>. QED
      BY <2>1, <2>2, <2>3
  <1>. QED
    BY <1>3, <1>4, <1>5 DEF Stack

\* A call that moves on inside `hold` is where it was in the stack.
LEMMA SameStack ==
    ASSUME Stack, key' = key, caller' = caller,
           \A d \in Calls :
               \/ pc'[d] = pc[d]
               \/ pc[d] = "queued" /\ pc'[d] = "held"
    PROVE  Stack'
  <1>0. \A d \in Calls : /\ Active(d)' <=> Active(d)
                         /\ InBody(d) => InBody(d)'
    BY DEF Active, InBody
  <1>1. ASSUME NEW e, NEW d, Above(e, d) PROVE Above(e, d)'
    BY <1>0, <1>1 DEF Above
  <1>2. CallersInBody'
    BY <1>0 DEF Stack, CallersInBody
  <1>3. Stacked'
    <2>. SUFFICES ASSUME NEW e \in Calls, NEW d \in Calls, Active(e)',
                         Active(d)', TaskOf[e] = TaskOf[d], e # d
                  PROVE  Above(e, d)' \/ Above(d, e)'
      BY DEF Stacked
    <2>. QED
      BY <1>0, <1>1 DEF Stack, Stacked
  <1>4. PassesNested'
    <2>. SUFFICES ASSUME NEW e \in Calls, pc'[e] = "pass"
                  PROVE  \E d \in Calls :
                            /\ pc'[d] = "held" /\ key'[d] = key'[e]
                            /\ TaskOf[d] = TaskOf[e] /\ Above(e, d)'
      BY DEF PassesNested
    <2>1. PICK d \in Calls : /\ pc[d] = "held" /\ key[d] = key[e]
                             /\ TaskOf[d] = TaskOf[e] /\ Above(e, d)
      BY DEF Stack, PassesNested
    <2>. QED
      BY <2>1, <1>1
  <1>. QED
    BY <1>2, <1>3, <1>4 DEF Stack

LEMMA InitStack == Init => Stack
  BY DEF Init, Stack, CallersInBody, Stacked, PassesNested, Active

-----------------------------------------------------------------------------
\* Every step keeps the locks and the stacks in order.
IInv == Locks /\ Stack

LEMMA EnterStack ==
    ASSUME IInv, NEW c \in Calls, NEW from \in Calls \cup {NoCall},
           NEW k \in Keys, NEW s \in Slots, Enter(c, from, k, s),
           NEW p \in {"queued", "held", "pass"}, pc' = [pc EXCEPT ![c] = p],
           p = "pass" => Fields(k, s).holder = TaskOf[c]
    PROVE  Stack'
  <1>1. /\ pc[c] = "idle" /\ MayCall(TaskOf[c], from, key'[c])
        /\ pc'[c] = p /\ caller'[c] = from /\ key'[c] = k
        /\ \A d \in Calls \ {c} : /\ pc'[d] = pc[d] /\ key'[d] = key[d]
                                  /\ caller'[d] = caller[d]
    BY DEF Enter, IInv, Locks, TypeOK
  <1>2. ASSUME p = "pass"
        PROVE  \E d \in Holding(key'[c]) : TaskOf[d] = TaskOf[c]
    <2>1. LockExact(Fields(k, s), k)
      BY Located DEF Enter, IInv
    <2>2. Fields(k, s).holder # NoTask
      BY <1>2, TaskOfAssumption, NoneAssumption
    <2>3. Fields(k, s).locked
      BY <2>1, <2>2 DEF LockExact, HolderExact, SlotType
    <2>4. PICK d \in Calls : Holding(k) = {d} /\ TaskOf[d] = TaskOf[c]
      BY <2>1, <2>3, <1>2 DEF LockExact, HolderExact
    <2>. QED
      BY <2>4, <1>1
  <1>. QED
    BY <1>1, <1>2, PushStack DEF IInv

LEMMA NextIInv ==
    ASSUME IInv, [Next]_vars
    PROVE  IInv'
  <1>. USE DEF IInv
  <1>1. ASSUME NEW c \in Calls, Call(c) PROVE IInv'
    <2>1. PICK from \in Calls \cup {NoCall}, k \in Keys, s \in Slots :
              Pass(c, from, k, s) \/ Take(c, from, k, s) \/ Queue(c, from, k, s)
      BY <1>1 DEF Call
    <2>2. CASE Pass(c, from, k, s)
      BY <2>2, PassLocks, EnterStack DEF Pass
    <2>3. CASE Take(c, from, k, s)
      BY <2>3, TakeLocks, EnterStack DEF Take
    <2>4. CASE Queue(c, from, k, s)
      BY <2>4, QueueLocks, EnterStack DEF Queue
    <2>. QED
      BY <2>1, <2>2, <2>3, <2>4
  <1>2. ASSUME NEW c \in Calls, Resume(c) PROVE IInv'
    <2>1. /\ key' = key /\ caller' = caller
          /\ pc[c] = "queued" /\ pc'[c] = "held"
          /\ \A d \in Calls \ {c} : pc'[d] = pc[d]
      BY <1>2 DEF Resume, Locks, TypeOK
    <2>. QED
      BY <1>2, <2>1, ResumeLocks, SameStack
  <1>3. ASSUME NEW c \in Calls, Cancel(c) PROVE IInv'
    <2>1. key' = key /\ caller' = caller /\ pc' = pc
      BY <1>3 DEF Cancel
    <2>. QED
      BY <1>3, <2>1, CancelLocks, SameStack
  <1>4. ASSUME NEW c \in Calls, Return(c), Active(c),
               Running(c) \/ pc[c] = "queued"
        PROVE  Stack'
    <2>1. \A d \in Calls : Active(d) => caller[d] # c
      BY <1>4, NoneAssumption DEF Running, Stack, CallersInBody, InBody
    <2>2. /\ pc'[c] = "done"
          /\ \A d \in Calls \ {c} : /\ pc'[d] = pc[d] /\ key'[d] = key[d]
                                    /\ caller'[d] = caller[d]
      BY <1>4 DEF Return, Locks, TypeOK
    <2>. QED
      BY <1>4, <2>1, <2>2, PopStack
  <1>5. ASSUME NEW c \in Calls, Unwind(c) PROVE IInv'
    BY <1>4, <1>5, UnwindLocks DEF Unwind, Active, Stack
  <1>6. ASSUME NEW c \in Calls, Leave(c) PROVE IInv'
    BY <1>4, <1>6, LeaveLocks DEF Leave, Active, Stack
  <1>7. ASSUME NEW c \in Calls, LeavePass(c) PROVE IInv'
    BY <1>4, <1>7, LeavePassLocks DEF LeavePass, Active
  <1>8. ASSUME UNCHANGED vars PROVE IInv'
    <2>1. key' = key /\ caller' = caller /\ pc' = pc
      BY <1>8 DEF vars, frame
    <2>. QED
      BY <1>8, <2>1, StutterLocks, SameStack
  <1>. QED
    BY <1>1, <1>2, <1>3, <1>5, <1>6, <1>7, <1>8 DEF Next, Finished

THEOREM Invariant == Spec => []IInv
  <1>1. Init => IInv
    BY InitLocks, InitStack DEF IInv
  <1>2. IInv /\ [Next]_vars => IInv'
    BY NextIInv
  <1>. QED
    BY <1>1, <1>2, PTL DEF Spec

\* Every variable of the latch keeps its type.
THEOREM TypeCorrect == Spec => []TypeOK
  BY Invariant, PTL DEF IInv, Locks

LEMMA InvExclusive == IInv => MutualExclusion
  <1>. SUFFICES ASSUME IInv, NEW c \in Calls, NEW d \in Calls, InBody(c),
                       InBody(d), key[c] = key[d]
                PROVE  TaskOf[c] = TaskOf[d]
    BY DEF MutualExclusion
  <1>. USE DEF IInv
  <1>1. PICK k \in Keys : k = key[c]
    BY DEF Locks, FramesRegistered, InBody, Active
  \* Each of the two is, or was made by a task that is, the holder.
  <1>2. ASSUME NEW e \in Calls, InBody(e), key[e] = k
        PROVE  \E h \in Holding(k) : TaskOf[h] = TaskOf[e]
    <2>1. CASE pc[e] = "held"
      BY <2>1, <1>2 DEF Holding
    <2>2. CASE pc[e] = "pass"
      BY <2>2, <1>2 DEF Stack, PassesNested, Holding
    <2>. QED
      BY <2>1, <2>2, <1>2 DEF InBody
  <1>3. PICK h \in Holding(k) : TaskOf[h] = TaskOf[c]
    BY <1>1, <1>2
  <1>4. PICK g \in Holding(k) : TaskOf[g] = TaskOf[d]
    BY <1>1, <1>2
  <1>5. h = g
    <2>1. KeyExact(k) /\ table[k] # NoSlot
      BY <1>3 DEF Locks, KeyExact, Using
    <2>2. HolderExact(slots[table[k]], k)
      BY <2>1 DEF KeyExact, LockExact
    <2>3. slots[table[k]].locked
      BY <1>3, <2>1, <2>2 DEF KeyExact, LockExact, SlotType, HolderExact
    <2>. QED
      BY <1>3, <1>4, <2>2, <2>3 DEF HolderExact
  <1>. QED
    BY <1>3, <1>4, <1>5

\* Two tasks are never inside one key together.
THEOREM Exclusive == Spec => []MutualExclusion
  BY Invariant, InvExclusive, PTL

LEMMA InvExact == IInv => SlotsExact
  <1>. SUFFICES ASSUME IInv, NEW k \in Keys
                PROVE  LET using == {c \in Calls :
                                  pc[c] \in {"queued", "held"} /\ key[c] = k}
                       IN  /\ table[k] = NoSlot <=> using = {}
                           /\ \A c \in using : slot[c] = table[k]
                           /\ table[k] # NoSlot =>
                                  slots[table[k]].refs = Cardinality(using)
    BY DEF SlotsExact
  <1>1. {c \in Calls : pc[c] \in {"queued", "held"} /\ key[c] = k} = Using(k)
    BY DEF Using, Waiting, Holding
  <1>2. \A c \in Using(k) : slot[c] = table[k]
    BY DEF IInv, Locks, FramesRegistered, Active, Using, Waiting, Holding
  <1>3. KeyExact(k)
    BY DEF IInv, Locks
  <1>. QED
    BY <1>1, <1>2, <1>3 DEF KeyExact, LockExact

\* A slot is in the table exactly while a call waits for it or holds it, and
\* counts those calls.
THEOREM Exact == Spec => []SlotsExact
  BY Invariant, InvExact, PTL

LEMMA InvWakeup == IInv => NoLostWakeup
  <1>. SUFFICES ASSUME IInv, NEW k \in Keys, table[k] # NoSlot,
                       NEW s, s = slots[table[k]],
                       ~s.locked, s.waiters # <<>>
                PROVE  fut[Head(s.waiters)] # "pending"
    BY DEF NoLostWakeup
  <1>1. LockExact(s, k)
    BY DEF IInv, Locks, KeyExact
  <1>2. s.waiters \in Seq(Calls)
    BY <1>1 DEF LockExact, SlotType
  <1>3. Len(s.waiters) > 0 /\ Head(s.waiters) = s.waiters[1]
    BY <1>2
  <1>. QED
    BY <1>1, <1>3 DEF LockExact, WakeSent

\* The head of the queue of a free lock has been woken or cancelled.
THEOREM WakeupKept == Spec => []NoLostWakeup
  BY Invariant, InvWakeup, PTL

-----------------------------------------------------------------------------
LEMMA MutexEnter ==
    ASSUME TypeOK, MutualExclusion', NEW c \in Calls, NEW k \in Keys,
           key'[c] = k, ~InBody(c), InBody(c)',
           \A d \in Calls \ {c} : pc'[d] = pc[d] /\ key'[d] = key[d]
    PROVE  Mutex!Enter(c, k)
  <1>1. \A d \in Calls : InBody(d)' <=> InBody(d) \/ d = c
    BY DEF InBody
  <1>2. /\ Inside' = [Inside EXCEPT ![k] = @ \cup {c}]
        /\ c \notin Inside[k]
    BY <1>1 DEF Inside
  <1>3. \A d \in Inside[k] : TaskOf[d] = TaskOf[c]
    BY <1>1 DEF Inside, MutualExclusion
  <1>. QED
    BY <1>2, <1>3 DEF Mutex!Enter, Mutex!MayEnter

LEMMA MutexLeave ==
    ASSUME IInv, NEW c \in Calls, InBody(c), Return(c)
    PROVE  Mutex!Next
  <1>1. /\ \A d \in Calls \ {c} : pc'[d] = pc[d] /\ key'[d] = key[d]
        /\ pc'[c] = "done"
    BY DEF Return, IInv, Locks, TypeOK
  <1>2. PICK k \in Keys : k = key[c]
    BY DEF IInv, Locks, FramesRegistered, InBody, Active
  <1>3. \A d \in Calls : InBody(d)' <=> InBody(d) /\ d # c
    BY <1>1 DEF InBody
  <1>4. Inside' = [Inside EXCEPT ![k] = @ \ {c}] /\ c \in Inside[k]
    BY <1>1, <1>2, <1>3 DEF Inside
  <1>. QED
    BY <1>4 DEF Mutex!Next, Mutex!Leave

LEMMA MutexSame ==
    ASSUME \A d \in Calls :
               /\ InBody(d)' <=> InBody(d)
               /\ InBody(d) => key'[d] = key[d]
    PROVE  Inside' = Inside
  BY DEF Inside

LEMMA MutexStep ==
    ASSUME IInv, IInv', [Next]_vars
    PROVE  [Mutex!Next]_Inside
  <1>1. MutualExclusion' /\ TypeOK /\ Locks
    BY InvExclusive, PTL DEF IInv, Locks
  <1>2. ASSUME NEW c \in Calls, Call(c)
        PROVE  [Mutex!Next]_Inside
    <2>1. PICK from \in Calls \cup {NoCall}, k \in Keys, s \in Slots :
              Pass(c, from, k, s) \/ Take(c, from, k, s) \/ Queue(c, from, k, s)
      BY <1>2 DEF Call
    <2>2. /\ pc[c] = "idle" /\ key'[c] = k
          /\ \A d \in Calls \ {c} : pc'[d] = pc[d] /\ key'[d] = key[d]
      BY <1>1, <2>1 DEF Pass, Take, Queue, Enter, TypeOK
    <2>3. CASE Pass(c, from, k, s) \/ Take(c, from, k, s)
      <3>1. ~InBody(c) /\ InBody(c)'
        BY <1>1, <2>2, <2>3 DEF Pass, Take, InBody, TypeOK
      <3>2. Mutex!Enter(c, k)
        BY <1>1, <2>2, <3>1, MutexEnter
      <3>. QED
        BY <3>2 DEF Mutex!Next
    <2>4. CASE Queue(c, from, k, s)
      <3>1. \A d \in Calls : /\ InBody(d)' <=> InBody(d)
                             /\ InBody(d) => key'[d] = key[d]
        BY <1>1, <2>2, <2>4 DEF Queue, InBody, TypeOK
      <3>. QED
        BY <3>1, MutexSame
    <2>. QED
      BY <2>1, <2>3, <2>4
  <1>3. ASSUME NEW c \in Calls, Resume(c)
        PROVE  [Mutex!Next]_Inside
    <2>1. PICK k \in Keys : k = key[c]
      BY <1>3 DEF IInv, Locks, FramesRegistered, Resume, Active
    <2>2. /\ ~InBody(c) /\ InBody(c)' /\ key'[c] = k
          /\ \A d \in Calls \ {c} : pc'[d] = pc[d] /\ key'[d] = key[d]
      BY <1>1, <1>3, <2>1 DEF Resume, InBody, TypeOK
    <2>3. Mutex!Enter(c, k)
      BY <1>1, <2>2, MutexEnter
    <2>. QED
      BY <2>3 DEF Mutex!Next
  <1>4. ASSUME NEW c \in Calls, Cancel(c) \/ Unwind(c)
        PROVE  [Mutex!Next]_Inside
    <2>1. \A d \in Calls : /\ InBody(d)' <=> InBody(d)
                           /\ InBody(d) => key'[d] = key[d]
      BY <1>1, <1>4 DEF Cancel, Unwind, Return, InBody, TypeOK
    <2>. QED
      BY <2>1, MutexSame
  <1>5. ASSUME NEW c \in Calls, Leave(c) \/ LeavePass(c)
        PROVE  [Mutex!Next]_Inside
    BY <1>5, MutexLeave DEF Leave, LeavePass, InBody
  <1>6. ASSUME UNCHANGED vars
        PROVE  [Mutex!Next]_Inside
    <2>1. \A d \in Calls : /\ InBody(d)' <=> InBody(d)
                           /\ InBody(d) => key'[d] = key[d]
      BY <1>6 DEF vars, frame, InBody
    <2>. QED
      BY <2>1, MutexSame
  <1>. QED
    BY <1>2, <1>3, <1>4, <1>5, <1>6 DEF Next, Finished

\* The asyncio latch is a per-key mutex that a task may re-enter: a call
\* enters by passing, by taking the lock or by being woken, and only when
\* everyone inside belongs to its task.
THEOREM Refinement == Spec => ImplementsKeyMutex
  <1>1. Init => Mutex!Init
    BY DEF Init, Mutex!Init, Inside, InBody
  <1>2. IInv /\ IInv' /\ [Next]_vars => [Mutex!Next]_Inside
    BY MutexStep
  <1>. QED
    BY <1>1, <1>2, Invariant, PTL DEF Spec, ImplementsKeyMutex, Mutex!Spec

=============================================================================
