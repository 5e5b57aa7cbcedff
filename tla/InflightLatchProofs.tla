------------------------ MODULE InflightLatchProofs ------------------------
(***************************************************************************)
(* Proofs about InflightLatch, for every set of calls, threads, keys and   *)
(* locks.  Mutual exclusion is not inductive: two calls inside one key     *)
(* exclude each other only because both found the same lock object in the  *)
(* table, which they did only because the entry outlives every reference   *)
(* to it.  IInv adds that argument.                                        *)
(***************************************************************************)
EXTENDS InflightLatch, FiniteSetTheorems, TLAPS

\* A call between its guarded sections finds its own lock in the table.
FramesRegistered ==
    \A c \in Calls : Active(c) =>
        key[c] \in Keys /\ lock[c] \in Locks /\ tableLock[key[c]] = lock[c]

\* No lock object serves two keys.
LocksDistinct ==
    \A j, k \in Keys : tableLock[j] = tableLock[k] /\ tableLock[k] # NoLock
        => j = k

\* The lock of a call in the body is owned by the call's thread.
OwnerHolds == \A c \in Calls : pc[c] = "held" => owner[lock[c]] = ThreadOf[c]

\* A lock in the table has one acquisition per call in the body.
CountExact ==
    \A k \in Keys, l \in Locks :
        tableLock[k] = l => count[l] = Cardinality(Holding(l))

IInv == TypeOK /\ FramesRegistered /\ LocksDistinct /\ TableExact
        /\ OwnerHolds /\ CountExact

-----------------------------------------------------------------------------
\* What in-flight and holding sets a step of one call leaves to the others.
LEMMA FiniteCalls ==
    ASSUME NEW k, NEW l
    PROVE  /\ IsFiniteSet(InFlight(k)) /\ Cardinality(InFlight(k)) \in Nat
           /\ IsFiniteSet(Holding(l)) /\ Cardinality(Holding(l)) \in Nat
  <1>1. InFlight(k) \in SUBSET Calls /\ Holding(l) \in SUBSET Calls
    BY DEF InFlight, Holding
  <1>2. IsFiniteSet(InFlight(k)) /\ IsFiniteSet(Holding(l))
    BY <1>1, CallsAssumption, FS_Subset
  <1>. QED
    BY <1>2, FS_CardinalityType

LEMMA InitIInv == Init => IInv
  <1>. SUFFICES ASSUME Init PROVE IInv
    OBVIOUS
  <1>1. TypeOK
    BY DEF Init, TypeOK
  <1>2. \A k : InFlight(k) = {}
    BY DEF Init, InFlight, Active
  <1>3. FramesRegistered /\ LocksDistinct /\ OwnerHolds /\ CountExact
    BY NoneAssumption
    DEF Init, FramesRegistered, LocksDistinct, OwnerHolds, CountExact, Active
  <1>4. TableExact
    BY <1>2, FS_EmptySet DEF Init, TableExact
  <1>. QED
    BY <1>1, <1>3, <1>4 DEF IInv

LEMMA RegisterIInv ==
    ASSUME IInv, NEW c \in Calls, NEW from \in Calls \cup {NoCall},
           NEW k \in Keys, NEW l \in Locks, Register(c, from, k, l)
    PROVE  IInv'
  <1>. USE DEF IInv
  <1>0. pc[c] = "idle" /\ ~Active(c)
    BY DEF Register, Active
  <1>1. \A d \in Calls : /\ Active(d)' <=> Active(d) \/ d = c
                         /\ pc'[d] = "held" <=> pc[d] = "held"
                         /\ d # c => key'[d] = key[d] /\ lock'[d] = lock[d]
    BY <1>0 DEF Register, Active, TypeOK
  <1>2. key'[c] = k /\ lock'[c] = l /\ pc'[c] = "wait"
    BY DEF Register, TypeOK
  <1>3. /\ tableLock'[k] = l /\ refs'[k] = refs[k] + 1
        /\ \A j \in Keys \ {k} :
               tableLock'[j] = tableLock[j] /\ refs'[j] = refs[j]
    BY DEF Register, TypeOK
  <1>4. l # NoLock
    BY NoneAssumption
  <1>5. TypeOK'
    BY DEF Register, TypeOK, rlock
  \* A new entry gets a lock nobody else has; an old one keeps its lock.
  <1>6. \/ tableLock[k] = l /\ owner' = owner /\ count' = count
        \/ /\ tableLock[k] = NoLock /\ Fresh(l)
           /\ count'[l] = 0
           /\ \A m \in Locks \ {l} :
                  owner'[m] = owner[m] /\ count'[m] = count[m]
    BY DEF Register, rlock, TypeOK
  <1>7. \A j \in Keys : tableLock[j] = l => j = k
    BY <1>4, <1>6 DEF Fresh, LocksDistinct
  <1>8. \A d \in Calls : Active(d) /\ tableLock[k] = NoLock => key[d] # k
    BY NoneAssumption DEF FramesRegistered
  <1>9. FramesRegistered'
    <2>. SUFFICES ASSUME NEW d \in Calls, Active(d)'
                  PROVE  /\ key'[d] \in Keys /\ lock'[d] \in Locks
                         /\ tableLock'[key'[d]] = lock'[d]
      BY DEF FramesRegistered
    <2>1. CASE d = c
      BY <2>1, <1>2, <1>3
    <2>2. CASE d # c
      <3>1. /\ Active(d) /\ key'[d] = key[d] /\ lock'[d] = lock[d]
            /\ key[d] \in Keys /\ lock[d] \in Locks
            /\ tableLock[key[d]] = lock[d]
        BY <2>2, <1>1 DEF FramesRegistered
      <3>2. key[d] = k => tableLock[k] = l
        BY <3>1, <1>6, <1>8
      <3>. QED
        BY <3>1, <3>2, <1>3
    <2>. QED
      BY <2>1, <2>2
  <1>10. LocksDistinct'
    BY <1>3, <1>7 DEF LocksDistinct
  <1>11. TableExact'
    <2>1. InFlight(k)' = InFlight(k) \cup {c} /\ c \notin InFlight(k)
      BY <1>0, <1>1, <1>2 DEF InFlight
    <2>2. \A j \in Keys \ {k} : InFlight(j)' = InFlight(j)
      BY <1>0, <1>1, <1>2 DEF InFlight
    <2>3. Cardinality(InFlight(k)') = Cardinality(InFlight(k)) + 1
      BY <2>1, FiniteCalls, FS_AddElement
    <2>4. refs'[k] = Cardinality(InFlight(k)')
      BY <2>3, <1>3 DEF TableExact
    <2>5. tableLock'[k] # NoLock /\ InFlight(k)' # {}
      BY <2>1, <1>3, <1>4
    <2>6. \A j \in Keys \ {k} :
              /\ refs'[j] = Cardinality(InFlight(j)')
              /\ tableLock'[j] = NoLock <=> InFlight(j)' = {}
      BY <2>2, <1>3 DEF TableExact
    <2>. QED
      BY <2>4, <2>5, <2>6 DEF TableExact
  <1>12. \A d \in Calls : pc[d] = "held" =>
             d # c /\ (lock[d] = l => owner' = owner /\ count' = count)
    BY <1>0, <1>6 DEF Fresh, Active
  <1>13. OwnerHolds'
    <2>. SUFFICES ASSUME NEW d \in Calls, pc'[d] = "held"
                  PROVE  owner'[lock'[d]] = ThreadOf[d]
      BY DEF OwnerHolds
    <2>1. /\ d # c /\ pc[d] = "held" /\ lock'[d] = lock[d]
          /\ owner[lock[d]] = ThreadOf[d] /\ lock[d] \in Locks
      BY <1>1, <1>12 DEF OwnerHolds, FramesRegistered, Active
    <2>. QED
      BY <2>1, <1>6, <1>12
  <1>14. CountExact'
    <2>1. \A m \in Locks : Holding(m)' = Holding(m)
      BY <1>0, <1>1 DEF Holding
    <2>. SUFFICES ASSUME NEW j \in Keys, NEW m \in Locks, tableLock'[j] = m
                  PROVE  count'[m] = Cardinality(Holding(m))
      BY <2>1 DEF CountExact
    <2>2. CASE tableLock[j] = m /\ count'[m] = count[m]
      BY <2>2 DEF CountExact
    <2>3. CASE m = l /\ Fresh(l) /\ count'[l] = 0
      <3>1. Holding(l) = {}
        BY <2>3 DEF Holding, Fresh, Active
      <3>. QED
        BY <3>1, <2>3, FS_EmptySet
    <2>. QED
      BY <2>2, <2>3, <1>3, <1>4, <1>6, <1>7
  <1>. QED
    BY <1>5, <1>9, <1>10, <1>11, <1>13, <1>14

LEMMA AcquireIInv ==
    ASSUME IInv, NEW c \in Calls, Acquire(c)
    PROVE  IInv'
  <1>. USE DEF IInv
  <1>0. /\ pc[c] = "wait" /\ Active(c)
        /\ key[c] \in Keys /\ lock[c] \in Locks
        /\ tableLock[key[c]] = lock[c]
    BY DEF Acquire, Active, FramesRegistered
  <1>1. UNCHANGED <<key, caller, lock, tableLock, refs>>
    BY DEF Acquire, frame, table
  <1>2. TypeOK'
    <2>1. ThreadOf[c] \in Threads
      BY ThreadOfAssumption
    <2>2. owner' \in [Locks -> Threads \cup {NoThread}]
      BY <2>1, <1>0 DEF Acquire, TypeOK
    <2>3. count' \in [Locks -> Nat]
      BY <1>0 DEF Acquire, TypeOK
    <2>4. pc' \in [Calls -> {"idle", "wait", "held", "drop", "done"}]
      BY DEF Acquire, TypeOK
    <2>. QED
      BY <2>2, <2>3, <2>4, <1>1 DEF TypeOK
  <1>3. \A d \in Calls : /\ Active(d)' <=> Active(d)
                         /\ pc'[d] = "held" <=> pc[d] = "held" \/ d = c
    BY <1>0 DEF Acquire, Active, TypeOK
  <1>4. FramesRegistered' /\ LocksDistinct'
    BY <1>1, <1>3 DEF FramesRegistered, LocksDistinct
  <1>5. \A k : InFlight(k)' = InFlight(k)
    BY <1>1, <1>3 DEF InFlight
  <1>6. TableExact'
    BY <1>1, <1>5 DEF TableExact
  <1>7. /\ owner'[lock[c]] = ThreadOf[c]
        /\ count'[lock[c]] = count[lock[c]] + 1
        /\ \A m \in Locks \ {lock[c]} :
               owner'[m] = owner[m] /\ count'[m] = count[m]
    BY <1>0 DEF Acquire, TypeOK
  \* A lock that is free or mine has no other thread's call in the body.
  <1>8. \A d \in Calls : pc[d] = "held" /\ lock[d] = lock[c]
            => ThreadOf[d] = ThreadOf[c]
    BY NoneAssumption, ThreadOfAssumption DEF Acquire, CanAcquire, OwnerHolds
  <1>9. OwnerHolds'
    <2>. SUFFICES ASSUME NEW d \in Calls, pc'[d] = "held"
                  PROVE  owner'[lock[d]] = ThreadOf[d]
      BY <1>1 DEF OwnerHolds
    <2>1. CASE lock[d] = lock[c]
      BY <2>1, <1>3, <1>7, <1>8
    <2>2. CASE lock[d] # lock[c]
      BY <2>2, <1>3, <1>7 DEF OwnerHolds, FramesRegistered, Active
    <2>. QED
      BY <2>1, <2>2
  <1>10. CountExact'
    <2>1. Holding(lock[c])' = Holding(lock[c]) \cup {c}
      BY <1>1, <1>3 DEF Holding
    <2>2. c \notin Holding(lock[c])
      BY <1>0 DEF Holding
    <2>3. Cardinality(Holding(lock[c])') = Cardinality(Holding(lock[c])) + 1
      BY <2>1, <2>2, FiniteCalls, FS_AddElement
    <2>4. \A m \in Locks \ {lock[c]} : Holding(m)' = Holding(m)
      BY <1>1, <1>3 DEF Holding
    <2>5. count[lock[c]] = Cardinality(Holding(lock[c]))
      BY <1>0 DEF CountExact
    <2>. SUFFICES ASSUME NEW k \in Keys, NEW m \in Locks, tableLock[k] = m
                  PROVE  count'[m] = Cardinality(Holding(m)')
      BY <1>1 DEF CountExact
    <2>6. CASE m = lock[c]
      <3>1. Holding(m)' = Holding(lock[c])'
        BY <2>6, <1>1 DEF Holding
      <3>. QED
        BY <3>1, <2>3, <2>5, <2>6, <1>7
    <2>7. CASE m # lock[c]
      BY <2>4, <2>7, <1>7 DEF CountExact
    <2>. QED
      BY <2>6, <2>7
  <1>. QED
    BY <1>2, <1>4, <1>6, <1>9, <1>10

LEMMA InterruptIInv ==
    ASSUME IInv, NEW c \in Calls, Interrupt(c)
    PROVE  IInv'
  <1>. USE DEF IInv
  <1>1. UNCHANGED <<key, caller, lock, tableLock, refs, owner, count>>
    BY DEF Interrupt, frame, table, rlock
  <1>2. \A d \in Calls : /\ Active(d)' <=> Active(d)
                         /\ pc'[d] = "held" <=> pc[d] = "held"
    BY DEF Interrupt, Active, TypeOK
  <1>3. /\ \A k : InFlight(k)' = InFlight(k)
        /\ \A m : Holding(m)' = Holding(m)
    BY <1>1, <1>2 DEF InFlight, Holding
  <1>4. TypeOK'
    BY <1>1 DEF Interrupt, TypeOK
  <1>5. FramesRegistered' /\ LocksDistinct' /\ OwnerHolds'
    BY <1>1, <1>2 DEF FramesRegistered, LocksDistinct, OwnerHolds
  <1>6. TableExact' /\ CountExact'
    BY <1>1, <1>3 DEF TableExact, CountExact
  <1>. QED
    BY <1>4, <1>5, <1>6

LEMMA LeaveIInv ==
    ASSUME IInv, NEW c \in Calls, Leave(c)
    PROVE  IInv'
  <1>. USE DEF IInv
  <1>0. /\ pc[c] = "held" /\ Active(c)
        /\ key[c] \in Keys /\ lock[c] \in Locks
        /\ tableLock[key[c]] = lock[c]
        /\ c \in Holding(lock[c])
    BY DEF Leave, Active, FramesRegistered, Holding
  <1>1. UNCHANGED <<key, caller, lock, tableLock, refs>>
    BY DEF Leave, frame, table
  <1>2. count[lock[c]] = Cardinality(Holding(lock[c]))
    BY <1>0 DEF CountExact
  <1>3. Cardinality(Holding(lock[c])) \in Nat \ {0}
    BY <1>0, FiniteCalls, FS_EmptySet
  <1>4. /\ count'[lock[c]] = count[lock[c]] - 1
        /\ count[lock[c]] # 1 => owner'[lock[c]] = owner[lock[c]]
        /\ \A m \in Locks \ {lock[c]} :
               owner'[m] = owner[m] /\ count'[m] = count[m]
    BY <1>0 DEF Leave, TypeOK
  <1>5. count' \in [Locks -> Nat]
    BY <1>0, <1>2, <1>3 DEF Leave, TypeOK
  <1>6. TypeOK'
    BY <1>0, <1>1, <1>5 DEF Leave, TypeOK
  <1>7. \A d \in Calls : /\ Active(d)' <=> Active(d)
                         /\ pc'[d] = "held" <=> pc[d] = "held" /\ d # c
    BY <1>0 DEF Leave, Active, TypeOK
  <1>8. FramesRegistered' /\ LocksDistinct'
    BY <1>1, <1>7 DEF FramesRegistered, LocksDistinct
  <1>9. \A k : InFlight(k)' = InFlight(k)
    BY <1>1, <1>7 DEF InFlight
  <1>10. TableExact'
    BY <1>1, <1>9 DEF TableExact
  <1>11. OwnerHolds'
    <2>. SUFFICES ASSUME NEW d \in Calls, pc'[d] = "held"
                  PROVE  owner'[lock[d]] = ThreadOf[d]
      BY <1>1 DEF OwnerHolds
    <2>1. d # c /\ pc[d] = "held" /\ owner[lock[d]] = ThreadOf[d]
          /\ lock[d] \in Locks
      BY <1>7 DEF OwnerHolds, FramesRegistered, Active
    \* With a second call in the body the count is not 1.
    <2>2. CASE lock[d] = lock[c]
      <3>0. d \in Holding(lock[c])
        BY <2>1, <2>2 DEF Holding
      <3>1. Cardinality(Holding(lock[c])) # 1
        <4> DEFINE H == Holding(lock[c])
        <4>1. c \in H /\ d \in H /\ c # d
          BY <3>0, <2>1, <1>0
        <4>2. IsFiniteSet(H)
          BY FiniteCalls
        <4> HIDE DEF H
        <4>3. Cardinality(H) # 1
          BY <4>1, <4>2, FS_Singleton
        <4>. QED
          BY <4>3 DEF H
      <3>. QED
        BY <3>1, <2>1, <2>2, <1>2, <1>4
    <2>3. CASE lock[d] # lock[c]
      BY <2>1, <2>3, <1>4
    <2>. QED
      BY <2>2, <2>3
  <1>12. CountExact'
    <2>1. Holding(lock[c])' = Holding(lock[c]) \ {c}
      BY <1>1, <1>7 DEF Holding
    <2>2. Cardinality(Holding(lock[c])') = Cardinality(Holding(lock[c])) - 1
      BY <2>1, <1>0, FiniteCalls, FS_RemoveElement
    <2>3. \A m \in Locks \ {lock[c]} : Holding(m)' = Holding(m)
      BY <1>1, <1>7 DEF Holding
    <2>. SUFFICES ASSUME NEW k \in Keys, NEW m \in Locks, tableLock[k] = m
                  PROVE  count'[m] = Cardinality(Holding(m)')
      BY <1>1 DEF CountExact
    <2>4. CASE m = lock[c]
      <3>1. Holding(m)' = Holding(lock[c])'
        BY <2>4, <1>1 DEF Holding
      <3>. QED
        BY <3>1, <2>2, <2>4, <1>2, <1>4
    <2>5. CASE m # lock[c]
      BY <2>3, <2>5, <1>4 DEF CountExact
    <2>. QED
      BY <2>4, <2>5
  <1>. QED
    BY <1>6, <1>8, <1>10, <1>11, <1>12

LEMMA DropIInv ==
    ASSUME IInv, NEW c \in Calls, Drop(c)
    PROVE  IInv'
  <1>. USE DEF IInv
  <1>a. key[c] \in Keys
    BY DEF Drop, Active, FramesRegistered
  <1>b. PICK k \in Keys : k = key[c]
    BY <1>a
  <1>0. /\ pc[c] = "drop" /\ Active(c) /\ key[c] = k /\ lock[c] \in Locks
        /\ tableLock[k] = lock[c] /\ c \in InFlight(k)
    BY <1>b DEF Drop, Active, FramesRegistered, InFlight
  <1>1. UNCHANGED <<owner, count>>
    BY DEF Drop, rlock
  <1>2. \A d \in Calls : /\ Active(d)' <=> Active(d) /\ d # c
                         /\ pc'[d] = "held" <=> pc[d] = "held"
                         /\ d # c => key'[d] = key[d] /\ lock'[d] = lock[d]
    BY <1>0 DEF Drop, Active, TypeOK
  <1>3. /\ refs'[k] = refs[k] - 1
        /\ tableLock'[k] = IF refs[k] = 1 THEN NoLock ELSE tableLock[k]
        /\ \A j \in Keys \ {k} :
               tableLock'[j] = tableLock[j] /\ refs'[j] = refs[j]
    BY <1>0 DEF Drop, TypeOK
  <1>4. InFlight(k)' = InFlight(k) \ {c}
    BY <1>2 DEF InFlight
  <1>5. \A j \in Keys \ {k} : InFlight(j)' = InFlight(j)
    BY <1>0, <1>2 DEF InFlight
  <1>6. Cardinality(InFlight(k)') = Cardinality(InFlight(k)) - 1
    BY <1>0, <1>4, FiniteCalls, FS_RemoveElement
  <1>7. refs'[k] = Cardinality(InFlight(k)') /\ refs'[k] \in Nat
    <2>1. IsFiniteSet(InFlight(k)) /\ IsFiniteSet(InFlight(k)')
      BY <1>4, FiniteCalls, FS_RemoveElement
    <2>2. Cardinality(InFlight(k)') \in Nat
      BY <2>1, FS_CardinalityType
    <2>. QED
      BY <2>2, <1>0, <1>3, <1>6 DEF TableExact
  \* The entry goes with its last reference, so only an empty one goes.
  <1>8. refs[k] = 1 <=> InFlight(k)' = {}
    <2>1. IsFiniteSet(InFlight(k)')
      BY <1>4, FiniteCalls, FS_RemoveElement
    <2>2. refs[k] = Cardinality(InFlight(k)') + 1
      BY <1>0, <1>6, FiniteCalls DEF TableExact
    <2>3. Cardinality(InFlight(k)') = 0 <=> InFlight(k)' = {}
      BY <2>1, FS_EmptySet
    <2>. QED
      BY <2>1, <2>2, <2>3, FS_CardinalityType
  <1>9. TypeOK'
    <2>1. refs' \in [Keys -> Nat]
      BY <1>0, <1>3, <1>7 DEF Drop, TypeOK
    <2>2. tableLock' \in [Keys -> Locks \cup {NoLock}]
      BY DEF Drop, TypeOK
    <2>3. pc' \in [Calls -> {"idle", "wait", "held", "drop", "done"}]
      BY DEF Drop, TypeOK
    <2>. QED
      BY <2>1, <2>2, <2>3, <1>1 DEF Drop, TypeOK
  <1>10. TableExact'
    BY <1>0, <1>3, <1>5, <1>7, <1>8, NoneAssumption DEF TableExact
  <1>11. FramesRegistered'
    <2>. SUFFICES ASSUME NEW d \in Calls, Active(d)'
                  PROVE  /\ key'[d] \in Keys /\ lock'[d] \in Locks
                         /\ tableLock'[key'[d]] = lock'[d]
      BY DEF FramesRegistered
    <2>1. /\ d # c /\ Active(d) /\ key'[d] = key[d] /\ lock'[d] = lock[d]
          /\ key[d] \in Keys /\ lock[d] \in Locks
          /\ tableLock[key[d]] = lock[d]
      BY <1>2 DEF FramesRegistered
    <2>2. key[d] = k => refs[k] # 1
      BY <2>1, <1>4, <1>8 DEF InFlight
    <2>. QED
      BY <2>1, <2>2, <1>3
  <1>12. LocksDistinct'
    <2>1. \A j \in Keys : tableLock'[j] # NoLock => tableLock'[j] = tableLock[j]
      BY <1>0, <1>3
    <2>. QED
      BY <2>1 DEF LocksDistinct
  <1>13. OwnerHolds'
    BY <1>0, <1>1, <1>2 DEF OwnerHolds
  <1>14. CountExact'
    <2>1. \A m \in Locks : Holding(m)' = Holding(m)
      BY <1>0, <1>2 DEF Holding
    <2>2. \A j \in Keys, m \in Locks : tableLock'[j] = m => tableLock[j] = m
      BY <1>0, <1>3, NoneAssumption
    <2>. QED
      BY <2>1, <2>2, <1>1 DEF CountExact
  <1>. QED
    BY <1>9, <1>10, <1>11, <1>12, <1>13, <1>14

LEMMA ForkIInv ==
    ASSUME IInv, Fork
    PROVE  IInv'
  <1>. USE DEF IInv
  <1>1. /\ \A c \in Calls : ~Active(c)' /\ pc'[c] # "held"
        /\ \A k \in Keys : tableLock'[k] = NoLock /\ refs'[k] = 0
    BY DEF Fork, Reset, Active
  <1>2. \A k : InFlight(k)' = {}
    BY <1>1 DEF InFlight
  <1>3. TypeOK'
    <2>1. pc' \in [Calls -> {"idle", "wait", "held", "drop", "done"}]
      BY DEF Fork, TypeOK
    <2>2. /\ tableLock' \in [Keys -> Locks \cup {NoLock}]
          /\ refs' \in [Keys -> Nat]
      BY DEF Fork, Reset
    <2>. QED
      BY <2>1, <2>2 DEF Fork, rlock, TypeOK
  <1>4. FramesRegistered' /\ LocksDistinct' /\ OwnerHolds' /\ CountExact'
    BY <1>1, NoneAssumption
    DEF FramesRegistered, LocksDistinct, OwnerHolds, CountExact
  <1>5. TableExact'
    BY <1>1, <1>2, FS_EmptySet DEF TableExact
  <1>. QED
    BY <1>3, <1>4, <1>5

LEMMA StutterIInv ==
    ASSUME IInv, UNCHANGED vars
    PROVE  IInv'
  <1>. USE DEF vars, frame, table, rlock, IInv, InFlight, Holding, Active
  <1>1. TypeOK' /\ FramesRegistered' /\ LocksDistinct'
    BY DEF TypeOK, FramesRegistered, LocksDistinct
  <1>2. TableExact'
    BY DEF TableExact
  <1>3. OwnerHolds' /\ CountExact'
    BY DEF OwnerHolds, CountExact
  <1>. QED
    BY <1>1, <1>2, <1>3

\* The inductive invariant holds of every behaviour.
THEOREM Inductive == Spec => []IInv
  <1>1. IInv /\ [Next]_vars => IInv'
    <2>. SUFFICES ASSUME IInv, [Next]_vars PROVE IInv'
      OBVIOUS
    <2>1. ASSUME NEW c \in Calls, Call(c) PROVE IInv'
      BY <2>1, RegisterIInv DEF Call
    <2>2. ASSUME NEW c \in Calls, Acquire(c) PROVE IInv'
      BY <2>2, AcquireIInv
    <2>3. ASSUME NEW c \in Calls, Interrupt(c) PROVE IInv'
      BY <2>3, InterruptIInv
    <2>4. ASSUME NEW c \in Calls, Leave(c) PROVE IInv'
      BY <2>4, LeaveIInv
    <2>5. ASSUME NEW c \in Calls, Drop(c) PROVE IInv'
      BY <2>5, DropIInv
    <2>6. CASE Fork
      BY <2>6, ForkIInv
    <2>7. CASE Finished \/ UNCHANGED vars
      BY <2>7, StutterIInv DEF Finished
    <2>. QED
      BY <2>1, <2>2, <2>3, <2>4, <2>5, <2>6, <2>7 DEF Next
  <1>. QED
    BY <1>1, InitIInv, PTL DEF Spec

-----------------------------------------------------------------------------
\* Every reachable state is well typed.
THEOREM TypeCorrect == Spec => []TypeOK
  BY Inductive, PTL DEF IInv

\* Two threads are never inside one key together: they would both own the one
\* lock the table maps the key to.
THEOREM Exclusive == Spec => []MutualExclusion
  <1>1. IInv => MutualExclusion
    BY DEF IInv, FramesRegistered, OwnerHolds, MutualExclusion, Active
  <1>. QED
    BY <1>1, Inductive, PTL

\* The table holds the keys in flight and nothing else, with exact counts.
THEOREM Exact == Spec => []TableExact
  BY Inductive, PTL DEF IInv

\* A thread never waits for a key it is inside of.
THEOREM Reentrant == Spec => []ReentryNeverWaits
  <1>1. IInv => ReentryNeverWaits
    BY DEF IInv, FramesRegistered, OwnerHolds, ReentryNeverWaits, Active,
           CanAcquire
  <1>. QED
    BY <1>1, Inductive, PTL

\* The latch implements the abstract per-key mutex.
THEOREM Refinement == Spec => ImplementsKeyMutex
  <1>1. Init => Mutex!Init
    BY DEF Init, Mutex!Init, Inside
  <1>2. IInv /\ IInv' /\ [Next]_vars => [Mutex!Next]_Inside
    <2>. SUFFICES ASSUME IInv, IInv', [Next]_vars
                  PROVE  Mutex!Next \/ Inside' = Inside
      BY DEF Mutex!Next
    <2>. USE DEF IInv
    \* Entering a body is entering the key.
    <2>1. ASSUME NEW c \in Calls, Acquire(c) PROVE Mutex!Next
      <3>1. key[c] \in Keys /\ pc[c] = "wait"
        BY <2>1 DEF Acquire, FramesRegistered, Active
      <3>2. c \notin Inside[key[c]]
        BY <3>1 DEF Inside
      <3>3. key' = key /\ \A d \in Calls : pc'[d] = "held" <=> pc[d] = "held" \/ d = c
        BY <2>1 DEF Acquire, frame, TypeOK
      <3>4. \A d \in Inside[key[c]] : ThreadOf[d] = ThreadOf[c]
        BY <2>1, <3>1, NoneAssumption, ThreadOfAssumption
        DEF Inside, Acquire, CanAcquire, OwnerHolds, FramesRegistered, Active
      <3>5. Inside' = [Inside EXCEPT ![key[c]] = @ \cup {c}]
        BY <3>1, <3>3 DEF Inside
      <3>. QED
        BY <3>1, <3>2, <3>4, <3>5 DEF Mutex!Next, Mutex!Enter, Mutex!MayEnter
    \* Leaving the body is leaving the key.
    <2>2. ASSUME NEW c \in Calls, Leave(c) PROVE Mutex!Next
      <3>1. key[c] \in Keys /\ pc[c] = "held"
        BY <2>2 DEF Leave, FramesRegistered, Active
      <3>2. key' = key /\ \A d \in Calls : pc'[d] = "held" <=> pc[d] = "held" /\ d # c
        BY <2>2 DEF Leave, frame, TypeOK
      <3>3. c \in Inside[key[c]]
        BY <3>1 DEF Inside
      <3>4. Inside' = [Inside EXCEPT ![key[c]] = @ \ {c}]
        BY <3>1, <3>2 DEF Inside
      <3>. QED
        BY <3>1, <3>3, <3>4 DEF Mutex!Next, Mutex!Leave
    <2>3. CASE Fork
      <3>1. Inside' = [k \in Keys |-> {}]
        BY <2>3 DEF Fork, Inside, Active
      <3>. QED
        BY <3>1 DEF Mutex!Next, Mutex!Abandon
    \* The guarded sections and an interrupted wait change who is registered,
    \* never who is inside.
    <2>4. ASSUME NEW c \in Calls, Call(c) \/ Interrupt(c) \/ Drop(c)
          PROVE  Inside' = Inside
      <3>1. \A d \in Calls : /\ pc'[d] = "held" <=> pc[d] = "held"
                             /\ pc[d] = "held" => key'[d] = key[d]
        BY <2>4 DEF Call, Register, Interrupt, Drop, frame, TypeOK
      <3>. QED
        BY <3>1 DEF Inside
    <2>5. CASE Finished \/ UNCHANGED vars
      BY <2>5 DEF Finished, vars, frame, Inside
    <2>. QED
      BY <2>1, <2>2, <2>3, <2>4, <2>5 DEF Next
  <1>. QED
    BY <1>1, <1>2, Inductive, PTL DEF Spec, ImplementsKeyMutex, Mutex!Spec

=============================================================================
