--------------------------- MODULE LogCacheProofs ---------------------------
(***************************************************************************)
(* Proofs about LogCache, for every set of threads, processes, writers and *)
(* keys and every world: it keeps its types, and as long as no lock file   *)
(* is unlinked under a waiter, the newest live record of a key is never    *)
(* lost to a rewrite, a sibling, a clear or a death, and the index of an   *)
(* instance that is alone on its writer serves it, the records that the    *)
(* instance wrote itself at once.                                          *)
(***************************************************************************)
EXTENDS LogCache, SequenceTheorems, SumTheorems

Labels == {"idle", "stamped", "stale", "again", "check", "fetch", "scan",
           "keep", "serve", "verify", "open", "append", "fold", "wipe", "pass", "read",
           "replace", "pop"}
Rewriting == {"pass", "read", "replace", "pop"}
Sigs == UNION {[D -> Nat] : D \in SUBSET Writers}
Calls == [op : Ops \cup {"none"}, key : Keys \cup {NoKey}, now : 0 .. MaxClock,
          dies : Nat, id : 0 .. MaxRecords, pass : Passes \cup {"none"},
          retried : BOOLEAN, loc : Places \cup {NoLoc}, fd : 0 .. MaxClears,
          sig : Sigs, built : Indexes \cup {NoIndex}, hand : Seq(Frames)]
Counts == [records : 0 .. MaxRecords, passes : Nat, clears : 0 .. MaxClears,
           crashes : 0 .. MaxCrashes]

DiskTyped ==
    /\ world \in Worlds /\ clock \in 0 .. MaxClock
    /\ files \subseteq Writers /\ log \in [Writers -> Seq(Frames)]
    /\ \A w \in Writers \ files : log[w] = <<>>
    /\ lock \in [Writers -> 0 .. MaxClears] /\ count \in Counts

MemoryTyped ==
    /\ index \in [Instances -> Indexes \cup {NoIndex}]
    /\ sig \in [Instances -> Sigs]
    /\ fresh \in [Instances -> BOOLEAN] /\ cooled \in [Instances -> BOOLEAN]

CallsTyped ==
    /\ pc \in [Threads -> Labels] /\ call \in [Threads -> Calls]
    /\ guard \in [Instances -> Threads \cup {Nobody}]
    /\ \A i \in Instances : guard[i] # Nobody => InstanceOf[guard[i]] = i

HistoryTyped ==
    /\ best \in [Keys -> [writer : Writers, frame : Frames] \cup {Missing}]
    /\ split \subseteq Writers

\* Which operation is where, and what it then holds.
Working(t) ==
    LET c == call[t]
    IN  \/ c.op = "none" /\ pc[t] = "idle" /\ c = Resting
        \/ c.op = "set" /\ pc[t] \in {"stamped", "check", "fetch", "scan",
                                      "keep", "open", "append", "fold"} \cup Rewriting
        \/ c.op = "get" /\ pc[t] \in {"check", "fetch", "scan", "keep", "serve",
                                      "stale", "again"}
        \/ c.op = "delete" /\ pc[t] \in {"check", "fetch", "scan", "keep",
                                         "verify", "open", "append", "fold"}
        \/ c.op = "clear" /\ pc[t] \in {"open", "wipe"}
        \/ c.op \in Passes \cup Batches /\ pc[t] \in Rewriting

Located(t) ==
    LET c == call[t]
    IN  /\ Working(t)
        /\ c.op \in {"set", "get", "delete"} => c.key \in Keys
        /\ c.op \in {"set", "delete"} => c.id # 0
        /\ pc[t] \in Rewriting => c.pass \in Passes
        /\ pc[t] = "keep" => c.built # NoIndex
        /\ pc[t] = "fold" => c.loc # NoLoc
        /\ c.now <= clock
        /\ guard[InstanceOf[t]] = t
              <=> pc[t] \notin Unguarded /\ c.op \notin Batches

\* A record that is stamped and not yet appended has its place in the bound.
Pending == {t \in Threads : /\ call[t].op \in {"set", "delete"}
                            /\ pc[t] \notin {"fold"} \cup Rewriting}
Clearing == {t \in Threads : call[t].op = "clear"}
Room == count.records + count.crashes - Cardinality(Pending)
Bounded ==
    /\ \A w \in Writers : Len(log[w]) <= Room
    /\ \A t \in Threads : Len(call[t].hand) <= Room
    /\ \A w \in Writers : lock[w] + Cardinality(Clearing) <= count.clears

Control ==
    /\ DiskTyped /\ MemoryTyped /\ CallsTyped /\ HistoryTyped
    /\ Bounded /\ \A t \in Threads : Located(t)

-----------------------------------------------------------------------------
\* While no lock file was unlinked under a waiter.
Flocked == {"append", "read", "replace", "wipe"}
OneLock ==
    /\ \A t \in Threads : pc[t] \in Flocked => call[t].fd = lock[Own(t)]
    /\ \A t, u \in Threads :
           pc[t] = "replace" /\ pc[u] = "replace" /\ Own(t) = Own(u) => t = u

\* What a rewrite is about to put back is in the log, once per key, and has
\* the best records of that log.
InHand(t) ==
    LET hand == call[t].hand
    IN  pc[t] = "replace" =>
        /\ Range(hand) \subseteq Range(log[Own(t)])
        /\ \A m, n \in DOMAIN hand : hand[m].key = hand[n].key => m = n
        /\ \A k \in Keys :
               best[k] # Missing /\ best[k].writer = Own(t)
                   /\ LiveAt(best[k].frame, clock)
               => best[k].frame \in Range(hand)

\* The best record of a key comes after every other one on disk.
Tops(k, n) ==
    LET b == best[k].frame
        w == best[k].writer
    IN  /\ n \in DOMAIN log[w] /\ log[w][n] = b
        /\ \A v \in files : \A m \in DOMAIN log[v] :
              log[v][m].key = k /\ (v = w => m # n) =>
                  \/ b.time > log[v][m].time
                  \/ /\ b.time = log[v][m].time
                     /\ Rank[w] > Rank[v] \/ (v = w /\ n > m)
OnTop(k) ==
    best[k] # Missing /\ LiveAt(best[k].frame, clock) =>
        best[k].frame.key = k /\ \E n \in Nat : Tops(k, n)

Standing ==
    split = {} =>
        /\ OneLock /\ \A t \in Threads : InHand(t)
        /\ \A k \in Keys : OnTop(k)

-----------------------------------------------------------------------------
\* The order of the merges, over the logs as they are.
LogsTyped ==
    /\ log \in [Writers -> Seq(Frames)]
    /\ \A w \in Writers : Len(log[w]) <= MaxRecords + MaxCrashes
Spots == {a \in Places : a.at \in DOMAIN log[a.log]}

LEMMA FrameFacts ==
    /\ Torn \in Frames
    /\ \A f \in Frames :
          /\ f.time \in Nat /\ f.dies \in Nat /\ f.dead \in BOOLEAN
          /\ f.id \in Nat /\ f.key \in Keys \cup {NoKey}
          /\ f.key \in Keys => f # Torn
          /\ f.time \in 0 .. MaxClock
    /\ \A k \in Keys, n \in 0 .. MaxClock, d \in Nat, x \in BOOLEAN,
          i \in 1 .. MaxRecords :
          [key |-> k, time |-> n, dies |-> d, dead |-> x, id |-> i] \in Frames
  <1>1. Torn \in Frames
    BY DEF Frames
  <1>2. ASSUME NEW f \in Frames
        PROVE  /\ f.time \in Nat /\ f.dies \in Nat /\ f.dead \in BOOLEAN
               /\ f.id \in Nat /\ f.key \in Keys \cup {NoKey}
               /\ f.key \in Keys => f # Torn
               /\ f.time \in 0 .. MaxClock
    <2>1. CASE f = Torn
      BY <2>1, NoneAssumption, BoundsAssumption DEF Torn
    <2>2. CASE f # Torn
      BY <2>2, BoundsAssumption DEF Frames
    <2>. QED
      BY <2>1, <2>2
  <1>3. \A k \in Keys, n \in 0 .. MaxClock, d \in Nat, x \in BOOLEAN,
          i \in 1 .. MaxRecords :
          [key |-> k, time |-> n, dies |-> d, dead |-> x, id |-> i] \in Frames
    BY DEF Frames
  <1>. QED
    BY <1>1, <1>2, <1>3

LEMMA LogFacts ==
    ASSUME LogsTyped, NEW w \in Writers
    PROVE  /\ Len(log[w]) \in Nat /\ DOMAIN log[w] = 1 .. Len(log[w])
           /\ log[w] \in Seq(Frames)
           /\ \A n \in DOMAIN log[w] :
                 /\ [log |-> w, at |-> n] \in Spots
                 /\ log[w][n] \in Frames
  <1>1. log[w] \in Seq(Frames) /\ Len(log[w]) <= MaxRecords + MaxCrashes
    BY DEF LogsTyped
  <1>2. Len(log[w]) \in Nat /\ DOMAIN log[w] = 1 .. Len(log[w])
    BY <1>1, LenProperties
  <1>3. ASSUME NEW n \in DOMAIN log[w]
        PROVE  [log |-> w, at |-> n] \in Spots /\ log[w][n] \in Frames
    <2>1. n \in 1 .. MaxRecords + MaxCrashes
      BY <1>1, <1>2, BoundsAssumption
    <2>2. [log |-> w, at |-> n] \in Places
      BY <2>1 DEF Places
    <2>. QED
      BY <1>1, <1>2, <2>2, ElementOfSeq DEF Spots
  <1>. QED
    BY <1>1, <1>2, <1>3

LEMMA SpotFacts ==
    ASSUME LogsTyped, NEW a \in Spots
    PROVE  /\ a.log \in Writers /\ a.at \in DOMAIN log[a.log] /\ a.at \in Nat
           /\ a = [log |-> a.log, at |-> a.at] /\ a \in Places
           /\ FrameAt(a) \in Frames /\ FrameAt(a).time \in Nat
           /\ Rank[a.log] \in Nat
  <1>1. /\ a.log \in Writers /\ a.at \in DOMAIN log[a.log] /\ a.at \in Nat
        /\ a = [log |-> a.log, at |-> a.at] /\ a \in Places
    BY BoundsAssumption DEF Spots, Places
  <1>. QED
    BY <1>1, LogFacts, FrameFacts, LogsAssumption DEF FrameAt

LEMMA LocationFacts ==
    ASSUME LogsTyped, NEW W \in SUBSET Writers, NEW k
    PROVE  /\ \A a : a \in Locations(W, k)
                 <=> a \in Spots /\ a.log \in W /\ FrameAt(a).key = k
           /\ Locations(W, k) \subseteq Spots
  <1>1. ASSUME NEW a \in Locations(W, k)
        PROVE  a \in Spots /\ a.log \in W /\ FrameAt(a).key = k
    <2>1. PICK w \in W : a \in {[log |-> w, at |-> n] :
                    n \in {m \in DOMAIN log[w] : log[w][m].key = k}}
      BY <1>1 DEF Locations
    <2>2. PICK n \in DOMAIN log[w] : /\ a = [log |-> w, at |-> n]
                                    /\ log[w][n].key = k
      BY <2>1
    <2>. QED
      BY <2>2, LogFacts DEF FrameAt
  <1>2. ASSUME NEW a \in Spots, a.log \in W, FrameAt(a).key = k
        PROVE  a \in Locations(W, k)
    BY <1>2, SpotFacts DEF Locations, FrameAt
  <1>. QED
    BY <1>1, <1>2

LEMMA OrderFacts ==
    ASSUME LogsTyped
    PROVE  /\ \A a \in Spots : ~After(a, a)
           /\ \A a, b \in Spots : a # b => After(a, b) \/ After(b, a)
           /\ \A a, b \in Spots : After(a, b) => ~After(b, a)
           /\ \A a, b, c \in Spots : After(a, b) /\ After(b, c) => After(a, c)
  <1>1. \A a, b \in Spots : Rank[a.log] = Rank[b.log] => a.log = b.log
    BY SpotFacts, LogsAssumption DEF IsInjective
  <1>2. \A a, b \in Spots : a.log = b.log /\ a.at = b.at => a = b
    BY SpotFacts
  <1>. QED
    BY <1>1, <1>2, SpotFacts DEF After

LEMMA PlacesFinite ==
    IsFiniteSet(Places)
  <1>. DEFINE N == 1 .. MaxRecords + MaxCrashes
              f == [p \in Writers \X N |-> [log |-> p[1], at |-> p[2]]]
  <1>1. IsFiniteSet(Writers \X N)
    <2>1. IsFiniteSet(N)
      BY FS_Interval, BoundsAssumption
    <2>. HIDE DEF N
    <2>. QED
      BY <2>1, FS_Product, ThreadsAssumption
  <1>2. f \in Surjection(Writers \X N, Places)
    <2>1. f \in [Writers \X N -> Places]
      BY DEF Places
    <2>2. \A a \in Places : /\ <<a.log, a.at>> \in Writers \X N
                            /\ f[<<a.log, a.at>>] = a
      BY DEF Places
    <2>. QED
      BY <2>1, <2>2 DEF Surjection
  <1>. QED
    BY <1>1, <1>2, FS_Surjection

LEMMA LastExists ==
    ASSUME LogsTyped, NEW S \in SUBSET Spots, S # {}
    PROVE  \E a \in S : \A b \in S \ {a} : After(a, b)
  <1>. DEFINE Has(T) == \E a \in T : \A b \in T \ {a} : After(a, b)
              C == {T \in SUBSET S : T # {} /\ ~Has(T)}
  <1>. SUFFICES ASSUME C # {} PROVE FALSE
    OBVIOUS
  <1>1. IsFiniteSet(S)
    BY PlacesFinite, FS_Subset DEF Spots
  <1>2. C \in SUBSET SUBSET S
    OBVIOUS
  <1>3. PICK T \in C : \A x \in T : T \ {x} \notin C
    <2>. HIDE DEF C
    <2>. QED
      BY <1>1, <1>2, SmallestSubset
  <1>4. PICK x \in T : TRUE
    OBVIOUS
  <1>5. T \ {x} = {} \/ Has(T \ {x})
    BY <1>3
  <1>6. T \ {x} # {}
    <2>. SUFFICES ASSUME T \ {x} = {} PROVE FALSE
      OBVIOUS
    <2>1. T = {x}
      BY <1>4
    <2>. QED
      BY <2>1, <1>3
  <1>7. PICK a \in T \ {x} : \A b \in (T \ {x}) \ {a} : After(a, b)
    BY <1>5, <1>6
  <1>8. T \subseteq Spots
    OBVIOUS
  <1>9. After(a, x) \/ After(x, a)
    BY <1>4, <1>7, <1>8, OrderFacts
  <1>10. CASE After(a, x)
    BY <1>10, <1>7, <1>3
  <1>11. CASE After(x, a)
    <2>1. \A b \in T \ {x} : After(x, b)
      BY <1>11, <1>7, <1>8, <1>4, OrderFacts
    <2>. QED
      BY <2>1, <1>4, <1>3
  <1>. QED
    BY <1>9, <1>10, <1>11

LEMMA WinnerFacts ==
    ASSUME LogsTyped, NEW S \in SUBSET Spots, S # {}
    PROVE  /\ Winner(S) \in S
           /\ \A b \in S \ {Winner(S)} : After(Winner(S), b)
           /\ \A a \in S : (\A b \in S \ {a} : After(a, b)) => a = Winner(S)
  <1>1. /\ Winner(S) \in S
        /\ \A b \in S \ {Winner(S)} : After(Winner(S), b)
    BY LastExists DEF Winner
  <1>. QED
    BY <1>1, OrderFacts

-----------------------------------------------------------------------------
\* What a rewrite keeps, numbered by how many of it come before.
Earlier(K, a) == {b \in K : After(a, b)}

LEMMA Numbered ==
    ASSUME LogsTyped, NEW K \in SUBSET Spots
    PROVE  /\ IsFiniteSet(K) /\ Cardinality(K) \in Nat
           /\ \A a \in K : Cardinality(Earlier(K, a)) + 1 \in 1 .. Cardinality(K)
           /\ \A a, b \in K :
                 Cardinality(Earlier(K, a)) = Cardinality(Earlier(K, b)) => a = b
           /\ \A n \in 1 .. Cardinality(K) :
                 \E a \in K : Cardinality(Earlier(K, a)) = n - 1
  <1>1. IsFiniteSet(K) /\ Cardinality(K) \in Nat
    BY PlacesFinite, FS_Subset, FS_CardinalityType DEF Spots
  <1>2. \A a \in K : /\ IsFiniteSet(Earlier(K, a))
                     /\ Cardinality(Earlier(K, a)) \in Nat
    BY <1>1, FS_Subset, FS_CardinalityType DEF Earlier
  <1>3. ASSUME NEW a \in K
        PROVE  Cardinality(Earlier(K, a)) + 1 \in 1 .. Cardinality(K)
    <2>1. Earlier(K, a) \subseteq K \ {a}
      BY OrderFacts DEF Earlier
    <2>2. /\ IsFiniteSet(K \ {a})
          /\ Cardinality(K \ {a}) = Cardinality(K) - 1
      BY <1>1, FS_RemoveElement
    <2>3. Cardinality(Earlier(K, a)) <= Cardinality(K \ {a})
      BY <2>1, <2>2, FS_Subset
    <2>. QED
      BY <2>2, <2>3, <1>1, <1>2
  <1>4. ASSUME NEW a \in K, NEW b \in K, After(a, b)
        PROVE  Cardinality(Earlier(K, b)) < Cardinality(Earlier(K, a))
    <2>1. Earlier(K, b) \subseteq Earlier(K, a) \ {b} /\ b \in Earlier(K, a)
      BY <1>4, OrderFacts DEF Earlier
    <2>2. /\ IsFiniteSet(Earlier(K, a) \ {b})
          /\ Cardinality(Earlier(K, a) \ {b}) = Cardinality(Earlier(K, a)) - 1
      BY <1>2, <2>1, FS_RemoveElement
    <2>3. Cardinality(Earlier(K, b)) <= Cardinality(Earlier(K, a) \ {b})
      BY <2>1, <2>2, FS_Subset
    <2>. QED
      BY <2>2, <2>3, <1>2
  <1>5. ASSUME NEW a \in K, NEW b \in K,
               Cardinality(Earlier(K, a)) = Cardinality(Earlier(K, b))
        PROVE  a = b
    <2>1. ~After(a, b) /\ ~After(b, a)
      BY <1>2, <1>4, <1>5
    <2>. QED
      BY <2>1, OrderFacts
  <1>6. \A n \in 1 .. Cardinality(K) :
            \E a \in K : Cardinality(Earlier(K, a)) = n - 1
    <2>. DEFINE N == 1 .. Cardinality(K)
                rank == [a \in K |-> Cardinality(Earlier(K, a)) + 1]
    <2>1. rank \in Injection(K, N)
      BY <1>2, <1>3, <1>5 DEF Injection, IsInjective
    <2>2. IsFiniteSet(N) /\ Cardinality(N) = Cardinality(K)
      BY <1>1, FS_Interval
    <2>3. rank \in Surjection(K, N)
      <3>. HIDE DEF N, rank
      <3>. QED
        BY <2>1, <2>2, FS_Injection
    <2>4. ASSUME NEW n \in N
          PROVE  \E a \in K : Cardinality(Earlier(K, a)) = n - 1
      <3>1. PICK a \in K : rank[a] = n
        BY <2>3 DEF Surjection
      <3>. QED
        BY <3>1, <1>2
    <2>. QED
      BY <2>4
  <1>. QED
    BY <1>1, <1>3, <1>5, <1>6

\* One location for each key, and what a rewrite takes from them.
LEMMA WinnersFacts ==
    ASSUME LogsTyped, NEW W \in SUBSET Writers
    PROVE  /\ Winners(W) \subseteq Spots
           /\ \A a \in Winners(W) : a.log \in W
           /\ \A a, b \in Winners(W) : FrameAt(a).key = FrameAt(b).key => a = b
           /\ \A k \in Keys : Locations(W, k) # {}
                 => Winner(Locations(W, k)) \in Winners(W)
  <1>1. ASSUME NEW a \in Winners(W)
        PROVE  /\ a \in Locations(W, FrameAt(a).key)
               /\ a = Winner(Locations(W, FrameAt(a).key))
    <2>1. PICK k \in Keys : Locations(W, k) # {} /\ a = Winner(Locations(W, k))
      BY DEF Winners
    <2>2. a \in Locations(W, k)
      BY <2>1, LocationFacts, WinnerFacts
    <2>. QED
      BY <2>1, <2>2, LocationFacts
  <1>2. \A k \in Keys : Locations(W, k) # {}
            => Winner(Locations(W, k)) \in Winners(W)
    BY DEF Winners
  <1>. QED
    BY <1>1, <1>2, LocationFacts

Seen(w, pass) == IF pass = "compact" THEN {w} ELSE files

LEMMA KeptFacts ==
    ASSUME LogsTyped, files \in SUBSET Writers, NEW w \in Writers,
           NEW pass, NEW now, NEW hand, hand = Kept(w, pass, now)
    PROVE  /\ hand \in Seq(Frames) /\ Len(hand) <= Len(log[w])
           /\ Range(hand) \subseteq Range(log[w])
           /\ \A m, n \in DOMAIN hand : hand[m].key = hand[n].key => m = n
           /\ \A a \in Winners(Seen(w, pass)) :
                 a.log = w /\ LiveAt(FrameAt(a), now)
                    => FrameAt(a) \in Range(hand)
  <1>. DEFINE W == Seen(w, pass)
              K == {a \in Winners(W) : a.log = w /\ LiveAt(FrameAt(a), now)}
              N == 1 .. Cardinality(K)
              At(n) == CHOOSE a \in K : Cardinality(Earlier(K, a)) = n - 1
  <1>1. hand = [n \in N |-> FrameAt(At(n))]
    BY DEF Kept, Earlier, Seen
  <1>2. W \in SUBSET Writers
    BY DEF Seen
  <1>3. /\ K \in SUBSET Spots /\ \A a \in K : a.log = w
        /\ \A a, b \in K : FrameAt(a).key = FrameAt(b).key => a = b
    BY <1>2, WinnersFacts
  <1>. HIDE DEF K
  <1>4. /\ IsFiniteSet(K) /\ Cardinality(K) \in Nat
        /\ \A a \in K : Cardinality(Earlier(K, a)) + 1 \in N
        /\ \A a, b \in K :
              Cardinality(Earlier(K, a)) = Cardinality(Earlier(K, b)) => a = b
        /\ \A n \in N : \E a \in K : Cardinality(Earlier(K, a)) = n - 1
    BY <1>3, Numbered
  <1>5. \A n \in N : At(n) \in K /\ Cardinality(Earlier(K, At(n))) = n - 1
    BY <1>4
  <1>6. \A a \in K : Cardinality(Earlier(K, a)) \in Nat
    BY <1>4, FS_Subset, FS_CardinalityType DEF Earlier
  <1>7. \A a \in K : a = At(Cardinality(Earlier(K, a)) + 1)
    BY <1>4, <1>5, <1>6
  <1>. HIDE DEF At
  <1>8. /\ hand \in Seq(Frames) /\ DOMAIN hand = N /\ Len(hand) = Cardinality(K)
        /\ \A n \in N : hand[n] = FrameAt(At(n))
    <2>1. \A n \in N : FrameAt(At(n)) \in Frames
      BY <1>3, <1>5, SpotFacts
    <2>2. hand \in [N -> Frames]
      BY <1>1, <2>1
    <2>. QED
      BY <1>1, <1>4, <2>2
  <1>9. Len(hand) <= Len(log[w])
    <2>. DEFINE D == 1 .. Len(log[w])
                at == [a \in K |-> a.at]
    <2>1. \A a \in K : a.at \in D
      BY <1>3, SpotFacts, LogFacts
    <2>2. \A a, b \in K : a.at = b.at => a = b
      BY <1>3, SpotFacts
    <2>3. at \in Injection(K, D)
      BY <2>1, <2>2 DEF Injection, IsInjective
    <2>4. IsFiniteSet(D) /\ Cardinality(D) = Len(log[w]) /\ Len(log[w]) \in Nat
      BY LogFacts, FS_Interval
    <2>5. Cardinality(K) <= Cardinality(D)
      <3>. HIDE DEF D, at
      <3>. QED
        BY <2>3, <2>4, FS_Injection
    <2>. QED
      BY <1>8, <2>4, <2>5
  <1>10. Range(hand) \subseteq Range(log[w])
    <2>1. \A n \in N : FrameAt(At(n)) \in Range(log[w])
      BY <1>3, <1>5, SpotFacts DEF FrameAt, Range
    <2>. QED
      BY <1>8, <2>1 DEF Range
  <1>11. \A m, n \in DOMAIN hand : hand[m].key = hand[n].key => m = n
    <2>. SUFFICES ASSUME NEW m \in N, NEW n \in N, hand[m].key = hand[n].key
                  PROVE  m = n
      BY <1>8
    <2>1. At(m) = At(n)
      BY <1>3, <1>5, <1>8
    <2>. QED
      BY <2>1, <1>5, <1>4
  <1>12. \A a \in K : FrameAt(a) \in Range(hand)
    BY <1>4, <1>7, <1>8 DEF Range
  <1>. QED
    BY <1>8, <1>9, <1>10, <1>11, <1>12 DEF K

-----------------------------------------------------------------------------
\* What the invariant says of the parts.
LEMMA RestingFacts ==
    /\ Resting \in Calls /\ Resting.op = "none" /\ Resting.hand = <<>>
    /\ Resting.now = 0 /\ Len(Resting.hand) = 0
  <1>1. <<>> \in Sigs
    BY DEF Sigs
  <1>2. <<>> \in Seq(Frames) /\ Len(<<>>) = 0
    BY EmptySeq
  <1>. QED
    BY <1>1, <1>2, BoundsAssumption DEF Resting, Calls

LEMMA ControlFacts ==
    ASSUME Control
    PROVE  /\ IsFiniteSet(Pending) /\ Cardinality(Pending) \in Nat
           /\ IsFiniteSet(Clearing) /\ Cardinality(Clearing) \in Nat
           /\ count.records \in Nat /\ count.crashes \in Nat
           /\ count.clears \in Nat
           /\ Room \in Int /\ Room <= MaxRecords + MaxCrashes
           /\ LogsTyped
           /\ \A w \in Writers : lock[w] \in Nat
  <1>1. /\ IsFiniteSet(Pending) /\ Cardinality(Pending) \in Nat
        /\ IsFiniteSet(Clearing) /\ Cardinality(Clearing) \in Nat
    BY ThreadsAssumption, FS_Subset, FS_CardinalityType DEF Pending, Clearing
  <1>2. /\ count.records \in 0 .. MaxRecords /\ count.crashes \in 0 .. MaxCrashes
        /\ count.clears \in 0 .. MaxClears
    BY DEF Control, DiskTyped, Counts
  <1>3. Room \in Int /\ Room <= MaxRecords + MaxCrashes
    BY <1>1, <1>2, BoundsAssumption DEF Room
  <1>4. \A w \in Writers : Len(log[w]) \in Nat
    BY LenProperties DEF Control, DiskTyped
  <1>5. LogsTyped
    BY <1>3, <1>4, BoundsAssumption DEF LogsTyped, Control, DiskTyped, Bounded
  <1>6. \A w \in Writers : lock[w] \in Nat
    BY BoundsAssumption DEF Control, DiskTyped
  <1>. QED
    BY <1>1, <1>2, <1>3, <1>5, <1>6, BoundsAssumption

LEMMA SizeFacts ==
    ASSUME Control
    PROVE  /\ \A w \in Writers : Len(log[w]) \in Nat /\ Len(log[w]) <= Room
           /\ Room \in Int
  <1>1. \A w \in Writers : Len(log[w]) \in Nat
    BY ControlFacts, LogFacts
  <1>. QED
    BY <1>1, ControlFacts DEF Control, Bounded

LEMMA CallFacts ==
    ASSUME Control, NEW t \in Threads
    PROVE  /\ InstanceOf[t] \in Instances /\ Own(t) \in Writers
           /\ pc[t] \in Labels /\ call[t] \in Calls
           /\ call[t].op \in Ops \cup {"none"} /\ call[t].key \in Keys \cup {NoKey}
           /\ call[t].now \in 0 .. MaxClock /\ call[t].dies \in Nat
           /\ call[t].id \in 0 .. MaxRecords
           /\ call[t].pass \in Passes \cup {"none"}
           /\ call[t].retried \in BOOLEAN /\ call[t].loc \in Places \cup {NoLoc}
           /\ call[t].fd \in 0 .. MaxClears /\ call[t].sig \in Sigs
           /\ call[t].built \in Indexes \cup {NoIndex}
           /\ call[t].hand \in Seq(Frames)
           /\ Len(call[t].hand) \in Nat /\ Len(call[t].hand) <= Room
           /\ Located(t)
  <1>1. InstanceOf[t] \in Instances /\ Own(t) \in Writers
    BY ThreadsAssumption DEF Own
  <1>2. pc[t] \in Labels /\ call[t] \in Calls
    BY DEF Control, CallsTyped
  <1>3. Len(call[t].hand) \in Nat
    BY <1>2, LenProperties DEF Calls
  <1>. QED
    BY <1>1, <1>2, <1>3 DEF Calls, Control, Bounded

\* Who holds self._lock after a step of one thread.
LEMMA GuardFacts ==
    ASSUME Control, NEW t \in Threads,
           UNCHANGED guard \/ Take(t) \/ Release(t)
    PROVE  /\ guard' \in [Instances -> Threads \cup {Nobody}]
           /\ \A i \in Instances : guard'[i] # Nobody => InstanceOf[guard'[i]] = i
           /\ \A u \in Threads \ {t} :
                 guard'[InstanceOf[u]] = u <=> guard[InstanceOf[u]] = u
           /\ Take(t) => guard'[InstanceOf[t]] = t
           /\ Release(t) => guard'[InstanceOf[t]] # t
  <1>1. /\ guard \in [Instances -> Threads \cup {Nobody}]
        /\ \A i \in Instances : guard[i] # Nobody => InstanceOf[guard[i]] = i
        /\ \A u \in Threads : InstanceOf[u] \in Instances
        /\ Nobody \notin Threads
    BY ThreadsAssumption, NoneAssumption DEF Control, CallsTyped
  <1>2. CASE UNCHANGED guard /\ ~Take(t) /\ ~Release(t)
    BY <1>1, <1>2
  <1>3. CASE Take(t)
    <2>1. ~Release(t)
      BY <1>1, <1>3 DEF Take, Release
    <2>. QED
      BY <1>1, <1>3, <2>1 DEF Take
  <1>4. CASE Release(t)
    <2>1. ~Take(t)
      BY <1>1, <1>4 DEF Take, Release
    <2>. QED
      BY <1>1, <1>4, <2>1 DEF Release
  <1>. QED
    BY <1>2, <1>3, <1>4

\* A step that moves one thread, to label l with the record c.
Moves(t, l, c) ==
    /\ pc' = [pc EXCEPT ![t] = l] /\ call' = [call EXCEPT ![t] = c]
    /\ UNCHANGED guard \/ Take(t) \/ Release(t)

LEMMA MovesFacts ==
    ASSUME Control, NEW t \in Threads, NEW l \in Labels, NEW c \in Calls,
           Moves(t, l, c)
    PROVE  /\ CallsTyped' /\ pc'[t] = l /\ call'[t] = c
           /\ \A u \in Threads \ {t} :
                 /\ pc'[u] = pc[u] /\ call'[u] = call[u]
                 /\ guard'[InstanceOf[u]] = u <=> guard[InstanceOf[u]] = u
           /\ Pending' \ {t} = Pending \ {t} /\ Clearing' \ {t} = Clearing \ {t}
  <1>1. /\ pc'[t] = l /\ call'[t] = c
        /\ \A u \in Threads \ {t} : pc'[u] = pc[u] /\ call'[u] = call[u]
    BY DEF Moves, Control, CallsTyped
  <1>2. CallsTyped'
    BY GuardFacts DEF Moves, Control, CallsTyped
  <1>. QED
    BY <1>1, <1>2, GuardFacts DEF Moves, Pending, Clearing

LEMMA MovesLocated ==
    ASSUME Control, NEW t \in Threads, NEW l \in Labels, NEW c \in Calls,
           Moves(t, l, c), clock' = clock, Located(t)'
    PROVE  \A u \in Threads : Located(u)'
  <1>1. ASSUME NEW u \in Threads \ {t} PROVE Located(u)'
    <2>1. Located(u)
      BY DEF Control
    <2>. QED
      BY <2>1, MovesFacts DEF Located, Working
  <1>. QED
    BY <1>1

-----------------------------------------------------------------------------
\* A step of one thread that leaves the disk and the counts alone.
Quiet(t) ==
    /\ UNCHANGED <<world, clock, disk, count>>
    /\ t \in Pending' => t \in Pending
    /\ t \in Clearing' => t \in Clearing

LEMMA QuietBounded ==
    ASSUME Control, NEW t \in Threads, NEW l \in Labels, NEW c \in Calls,
           Moves(t, l, c), Quiet(t), Len(c.hand) <= Room
    PROVE  Bounded' /\ DiskTyped'
  <1>1. Pending' \subseteq Pending /\ Clearing' \subseteq Clearing
    BY MovesFacts DEF Quiet, Pending, Clearing
  <1>2. /\ IsFiniteSet(Pending') /\ Cardinality(Pending') <= Cardinality(Pending)
        /\ Cardinality(Pending') \in Nat
        /\ Cardinality(Clearing') <= Cardinality(Clearing)
        /\ Cardinality(Clearing') \in Nat
    <2>1. IsFiniteSet(Pending) /\ IsFiniteSet(Clearing)
      BY ControlFacts
    <2>2. /\ IsFiniteSet(Pending')
          /\ Cardinality(Pending') <= Cardinality(Pending)
      BY <1>1, <2>1, FS_Subset
    <2>3. /\ IsFiniteSet(Clearing')
          /\ Cardinality(Clearing') <= Cardinality(Clearing)
      BY <1>1, <2>1, FS_Subset
    <2>. QED
      BY <2>2, <2>3, FS_CardinalityType
  <1>3. Room' >= Room /\ Room' \in Int
    BY <1>2, ControlFacts DEF Room, Quiet
  <1>4. \A w \in Writers : Len(log'[w]) <= Room'
    BY <1>3, ControlFacts, LogFacts DEF Control, Bounded, Quiet, disk
  <1>5. \A u \in Threads : Len(call'[u].hand) <= Room'
    <2>1. \A u \in Threads \ {t} : call'[u] = call[u]
      BY MovesFacts
    <2>2. call'[t] = c /\ Len(c.hand) \in Nat
      BY MovesFacts, LenProperties DEF Calls
    <2>3. \A u \in Threads \ {t} : Len(call'[u].hand) <= Room'
      BY <1>3, <2>1, CallFacts, ControlFacts
    <2>4. Len(call'[t].hand) <= Room'
      BY <1>3, <2>2, ControlFacts
    <2>. QED
      BY <2>3, <2>4
  <1>6. \A w \in Writers : lock'[w] + Cardinality(Clearing') <= count.clears'
    BY <1>2, ControlFacts DEF Quiet, disk, Control, Bounded
  <1>7. DiskTyped'
    BY DEF Quiet, disk, Control, DiskTyped
  <1>. QED
    BY <1>4, <1>5, <1>6, <1>7 DEF Bounded

LEMMA QuietControl ==
    ASSUME Control, NEW t \in Threads, NEW l \in Labels, NEW c \in Calls,
           Moves(t, l, c), Quiet(t), Len(c.hand) <= Room,
           MemoryTyped', UNCHANGED <<best, split>>, Located(t)'
    PROVE  Control'
  <1>1. CallsTyped'
    BY MovesFacts
  <1>2. \A u \in Threads : Located(u)'
    BY MovesLocated DEF Quiet
  <1>3. Bounded' /\ DiskTyped'
    BY QuietBounded
  <1>4. HistoryTyped'
    BY DEF Control, HistoryTyped
  <1>. QED
    BY <1>1, <1>2, <1>3, <1>4 DEF Control

LEMMA ReturnMoves ==
    ASSUME NEW t \in Threads, Return(t)
    PROVE  Moves(t, "idle", Resting)
  BY DEF Return, Goto, Moves

\* A thread that returns is idle, and holds nothing.
LEMMA ReturnFacts ==
    ASSUME Control, NEW t \in Threads, Return(t), clock' = clock
    PROVE  /\ pc'[t] = "idle" /\ call'[t] = Resting /\ Located(t)'
           /\ t \notin Pending' /\ t \notin Clearing'
  <1>1. /\ pc'[t] = "idle" /\ call'[t] = Resting
        /\ guard'[InstanceOf[t]] # t
    <2>1. "idle" \in Labels /\ Resting \in Calls /\ Moves(t, "idle", Resting)
      BY ReturnMoves, RestingFacts DEF Labels
    <2>2. pc'[t] = "idle" /\ call'[t] = Resting
      BY <2>1, MovesFacts
    <2>3. Release(t)
      BY DEF Return
    <2>. QED
      BY <2>2, <2>3, GuardFacts
  <1>2. clock \in 0 .. MaxClock
    BY DEF Control, DiskTyped
  <1>. QED
    BY <1>1, <1>2, RestingFacts, BoundsAssumption
    DEF Located, Working, Rewriting, Unguarded, Ops, Passes, Batches,
        Pending, Clearing

LEMMA ReturnControl ==
    ASSUME Control, NEW t \in Threads, Return(t),
           UNCHANGED <<world, clock, disk, count, best, split>>, MemoryTyped'
    PROVE  Control'
  <1>1. Quiet(t)
    BY ReturnFacts DEF Quiet
  <1>2. Len(Resting.hand) <= Room
    BY RestingFacts, ControlFacts, CallFacts
  <1>. QED
    BY <1>1, <1>2, ReturnMoves, ReturnFacts, RestingFacts, QuietControl
    DEF Labels

-----------------------------------------------------------------------------
LEMMA EnterControl ==
    ASSUME Control, NEW t \in Threads, Enter(t)
    PROVE  Control'
  <1>. DEFINE c == IF pc[t] = "again" THEN [call[t] EXCEPT !.now = clock]
                   ELSE call[t]
  <1>1. /\ call[t] \in Calls /\ clock \in 0 .. MaxClock /\ Located(t)
        /\ Len(call[t].hand) <= Room
    BY CallFacts DEF Control, DiskTyped
  <1>2. c \in Calls /\ c.hand = call[t].hand /\ c.op = call[t].op
        /\ c.key = call[t].key /\ c.id = call[t].id /\ c.now <= clock
    <2>1. call[t].now <= clock /\ clock <= clock
      BY <1>1, BoundsAssumption DEF Located
    <2>2. CASE pc[t] = "again"
      <3>1. c = [call[t] EXCEPT !.now = clock]
        BY <2>2
      <3>. QED
        BY <1>1, <2>1, <3>1 DEF Calls
    <2>3. CASE pc[t] # "again"
      <3>1. c = call[t]
        BY <2>3
      <3>. QED
        BY <1>1, <2>1, <3>1
    <2>. QED
      BY <2>2, <2>3
  <1>3. Moves(t, "check", c)
    BY <1>1 DEF Enter, Moves, Goto, Control, CallsTyped
  <1>4. /\ pc'[t] = "check" /\ call'[t] = c /\ guard'[InstanceOf[t]] = t
    BY <1>2, <1>3, MovesFacts, GuardFacts DEF Enter, Labels
  <1>5. call[t].op \in {"set", "get"} /\ pc[t] \in {"stamped", "again"}
    BY <1>1 DEF Enter, Located, Working, Rewriting, Passes, Batches
  <1>6. Located(t)'
    BY <1>1, <1>2, <1>4, <1>5
    DEF Enter, Located, Working, Rewriting, Unguarded, Batches
  <1>7. Quiet(t)
    BY <1>2, <1>4, <1>5 DEF Enter, Quiet, Pending, Clearing, Rewriting
  <1>8. MemoryTyped' /\ UNCHANGED <<best, split>>
    BY DEF Enter, Control, MemoryTyped, memory, history
  <1>. QED
    BY <1>1, <1>2, <1>3, <1>6, <1>7, <1>8, QuietControl DEF Labels

\* What the caller of _ensure_index makes of a well-typed index.
LEMMA LookupTyped ==
    ASSUME NEW ix \in Indexes, NEW k \in Keys
    PROVE  Lookup(ix, k) \in Places \cup {NoLoc}
  BY NoneAssumption DEF Lookup, Indexes

LEMMA UseControl ==
    ASSUME Control, NEW t \in Threads, NEW ix \in Indexes, Use(t, ix),
           pc[t] \in {"fetch", "keep"}, UNCHANGED guard,
           UNCHANGED <<world, clock, disk, count, best, split>>, MemoryTyped'
    PROVE  Control'
  <1>. DEFINE op == call[t].op
              l == CASE op = "set" -> "open" [] op = "get" -> "serve"
                     [] OTHER -> "verify"
              c == [call[t] EXCEPT
                       !.loc = IF op = "set" THEN NoLoc ELSE Lookup(ix, call[t].key),
                       !.built = NoIndex, !.sig = <<>>]
  <1>1. /\ call[t] \in Calls /\ Located(t) /\ Len(call[t].hand) <= Room
    BY CallFacts
  <1>2. op \in {"set", "get", "delete"} /\ call[t].key \in Keys
    BY <1>1 DEF Located, Working, Rewriting
  <1>3. Lookup(ix, call[t].key) \in Places \cup {NoLoc} /\ <<>> \in Sigs
    BY <1>2, LookupTyped, RestingFacts DEF Calls, Resting
  <1>4. /\ c \in Calls /\ c.hand = call[t].hand /\ c.op = op
        /\ c.key = call[t].key /\ c.id = call[t].id /\ c.now = call[t].now
    BY <1>1, <1>3 DEF Calls
  <1>5. l \in Labels /\ Moves(t, l, c)
    BY <1>2 DEF Use, Moves, Goto, Labels, Control, CallsTyped
  <1>6. pc'[t] = l /\ call'[t] = c
    BY <1>4, <1>5, MovesFacts
  <1>7. Located(t)'
    BY <1>1, <1>2, <1>4, <1>6
    DEF Located, Working, Rewriting, Unguarded, Batches
  <1>8. Quiet(t)
    BY <1>1, <1>2, <1>4, <1>6 DEF Quiet, Pending, Clearing, Rewriting
  <1>. QED
    BY <1>1, <1>4, <1>5, <1>7, <1>8, QuietControl

LEMMA BuildTyped ==
    ASSUME Control, NEW now
    PROVE  Build(now) \in Indexes /\ CurrentSig \in Sigs
  <1>1. LogsTyped /\ files \in SUBSET Writers
    BY ControlFacts DEF Control, DiskTyped
  <1>2. \A k \in Keys : Locations(files, k) # {}
            => Winner(Locations(files, k)) \in Places
    BY <1>1, LocationFacts, WinnerFacts DEF Spots
  <1>3. Build(now) \in Indexes
    BY <1>2 DEF Build, Indexes
  <1>4. CurrentSig \in [files -> Nat]
    BY <1>1, LogFacts DEF CurrentSig
  <1>5. CurrentSig \in Sigs
    BY <1>1, <1>4 DEF Sigs
  <1>. QED
    BY <1>3, <1>5

LEMMA CheckControl ==
    ASSUME Control, NEW t \in Threads, Check(t)
    PROVE  Control'
  <1>. DEFINE i == InstanceOf[t]
              c == [call[t] EXCEPT !.sig = CurrentSig]
  <1>1. /\ MemoryTyped' /\ pc[t] = "check" /\ UNCHANGED guard
        /\ UNCHANGED <<world, clock, disk, count, best, split>>
    BY DEF Check, Control, MemoryTyped, history
  <1>2. CASE Goto(t, "fetch") /\ UNCHANGED call
    <2>1. /\ call[t] \in Calls /\ Located(t) /\ Len(call[t].hand) <= Room
      BY CallFacts
    <2>2. Moves(t, "fetch", call[t]) /\ "fetch" \in Labels
      BY <1>1, <1>2 DEF Moves, Goto, Labels, Control, CallsTyped
    <2>3. pc'[t] = "fetch" /\ call'[t] = call[t]
      BY <2>1, <2>2, MovesFacts
    <2>4. Located(t)'
      BY <1>1, <2>1, <2>3 DEF Located, Working, Rewriting, Unguarded, Batches
    <2>5. Quiet(t)
      BY <1>1, <2>1, <2>3 DEF Quiet, Pending, Clearing, Rewriting
    <2>. QED
      BY <1>1, <2>1, <2>2, <2>4, <2>5, QuietControl
  <1>3. CASE ~(Goto(t, "fetch") /\ UNCHANGED call)
    <2>1. /\ call[t] \in Calls /\ Located(t) /\ Len(call[t].hand) <= Room
      BY CallFacts
    <2>2. CurrentSig \in Sigs
      BY BuildTyped
    <2>3. /\ c \in Calls /\ c.hand = call[t].hand /\ c.op = call[t].op
          /\ c.key = call[t].key /\ c.id = call[t].id /\ c.now = call[t].now
      BY <2>1, <2>2 DEF Calls
    <2>4. Moves(t, "scan", c) /\ "scan" \in Labels
      BY <1>1, <1>3 DEF Check, Moves, Goto, Labels
    <2>5. pc'[t] = "scan" /\ call'[t] = c
      BY <2>3, <2>4, MovesFacts
    <2>6. Located(t)'
      BY <1>1, <2>1, <2>3, <2>5
      DEF Located, Working, Rewriting, Unguarded, Batches
    <2>7. Quiet(t)
      BY <1>1, <2>1, <2>3, <2>5 DEF Quiet, Pending, Clearing, Rewriting
    <2>. QED
      BY <1>1, <2>1, <2>3, <2>4, <2>6, <2>7, QuietControl
  <1>. QED
    BY <1>2, <1>3

LEMMA FetchControl ==
    ASSUME Control, NEW t \in Threads, Fetch(t)
    PROVE  Control'
  <1>. DEFINE ix == index[InstanceOf[t]]
  <1>1. /\ MemoryTyped' /\ pc[t] = "fetch"
        /\ UNCHANGED <<world, clock, disk, count, best, split>>
    BY DEF Fetch, Control, MemoryTyped, memory, history
  <1>2. CASE Return(t)
    BY <1>1, <1>2, ReturnControl
  <1>3. CASE ix # NoIndex /\ Use(t, ix) /\ UNCHANGED guard
    <2>1. ix \in Indexes
      BY <1>3, CallFacts DEF Control, MemoryTyped
    <2>. QED
      BY <1>1, <1>3, <2>1, UseControl
  <1>. QED
    BY <1>2, <1>3 DEF Fetch

LEMMA ScanControl ==
    ASSUME Control, NEW t \in Threads, Scan(t)
    PROVE  Control'
  <1>. DEFINE c == [call[t] EXCEPT !.built = Build(clock)]
  <1>1. /\ MemoryTyped' /\ pc[t] = "scan" /\ UNCHANGED guard
        /\ UNCHANGED <<world, clock, disk, count, best, split>>
    BY DEF Scan, Control, MemoryTyped, memory, history
  <1>2. /\ call[t] \in Calls /\ Located(t) /\ Len(call[t].hand) <= Room
    BY CallFacts
  <1>3. Build(clock) \in Indexes /\ Build(clock) # NoIndex
    BY BuildTyped, NoneAssumption
  <1>4. /\ c \in Calls /\ c.hand = call[t].hand /\ c.op = call[t].op
        /\ c.key = call[t].key /\ c.id = call[t].id /\ c.now = call[t].now
        /\ c.built # NoIndex
    BY <1>2, <1>3 DEF Calls
  <1>5. Moves(t, "keep", c) /\ "keep" \in Labels
    BY <1>1 DEF Scan, Moves, Goto, Labels
  <1>6. pc'[t] = "keep" /\ call'[t] = c
    BY <1>4, <1>5, MovesFacts
  <1>7. Located(t)'
    BY <1>1, <1>2, <1>4, <1>6 DEF Located, Working, Rewriting, Unguarded, Batches
  <1>8. Quiet(t)
    BY <1>1, <1>2, <1>4, <1>6 DEF Quiet, Pending, Clearing, Rewriting
  <1>. QED
    BY <1>1, <1>2, <1>4, <1>5, <1>7, <1>8, QuietControl

LEMMA KeepControl ==
    ASSUME Control, NEW t \in Threads, Keep(t)
    PROVE  Control'
  <1>1. call[t].built \in Indexes /\ call[t].sig \in Sigs
    BY CallFacts DEF Keep, Located
  <1>2. MemoryTyped'
    BY <1>1 DEF Keep, Control, MemoryTyped
  <1>3. /\ pc[t] = "keep" /\ UNCHANGED guard /\ Use(t, call[t].built)
        /\ UNCHANGED <<world, clock, disk, count, best, split>>
    BY DEF Keep, history
  <1>. QED
    BY <1>1, <1>2, <1>3, UseControl

LEMMA ServeControl ==
    ASSUME Control, NEW t \in Threads, Serve(t)
    PROVE  Control'
  <1>. DEFINE c == [call[t] EXCEPT !.retried = TRUE, !.loc = NoLoc]
  <1>1. /\ MemoryTyped' /\ pc[t] = "serve"
        /\ UNCHANGED <<world, clock, disk, count, best, split>>
    BY DEF Serve, Control, MemoryTyped, memory, history
  <1>2. CASE Got(t) # Retry
    BY <1>1, <1>2, ReturnControl DEF Serve
  <1>3. CASE Got(t) = Retry
    <2>1. /\ call[t] \in Calls /\ Located(t) /\ Len(call[t].hand) <= Room
      BY CallFacts
    <2>2. /\ c \in Calls /\ c.hand = call[t].hand /\ c.op = call[t].op
          /\ c.key = call[t].key /\ c.id = call[t].id /\ c.now = call[t].now
      BY <2>1 DEF Calls
    <2>3. Moves(t, "stale", c) /\ "stale" \in Labels /\ Release(t)
      BY <1>3, <2>1 DEF Serve, Moves, Goto, Labels, Control, CallsTyped
    <2>4. pc'[t] = "stale" /\ call'[t] = c /\ guard'[InstanceOf[t]] # t
      BY <2>2, <2>3, MovesFacts, GuardFacts
    <2>5. Located(t)'
      BY <1>1, <2>1, <2>2, <2>4
      DEF Located, Working, Rewriting, Unguarded, Batches
    <2>6. Quiet(t)
      BY <1>1, <2>1, <2>2, <2>4
      DEF Quiet, Pending, Clearing, Rewriting, Located, Working
    <2>. QED
      BY <1>1, <2>1, <2>2, <2>3, <2>5, <2>6, QuietControl
  <1>. QED
    BY <1>2, <1>3

LEMMA ForgetTyped ==
    ASSUME Control, NEW t \in Threads, Forget(t)
    PROVE  /\ index' \in [Instances -> Indexes \cup {NoIndex}]
           /\ sig' \in [Instances -> Sigs]
  <1>1. <<>> \in Sigs
    BY RestingFacts DEF Calls, Resting
  <1>. QED
    BY <1>1 DEF Forget, Control, MemoryTyped

LEMMA InvalidateControl ==
    ASSUME Control, NEW t \in Threads, Invalidate(t)
    PROVE  Control'
  <1>1. /\ pc[t] = "stale" /\ UNCHANGED <<guard, call>>
        /\ UNCHANGED <<world, clock, disk, count, best, split>>
    BY DEF Invalidate, history
  <1>2. MemoryTyped'
    BY ForgetTyped DEF Invalidate, Control, MemoryTyped
  <1>3. /\ call[t] \in Calls /\ Located(t) /\ Len(call[t].hand) <= Room
    BY CallFacts
  <1>4. Moves(t, "again", call[t]) /\ "again" \in Labels
    BY <1>1 DEF Invalidate, Moves, Goto, Labels, Control, CallsTyped
  <1>5. pc'[t] = "again" /\ call'[t] = call[t]
    BY <1>3, <1>4, MovesFacts
  <1>6. Located(t)'
    BY <1>1, <1>3, <1>5 DEF Located, Working, Rewriting, Unguarded, Batches
  <1>7. Quiet(t)
    BY <1>1, <1>3, <1>5 DEF Quiet, Pending, Clearing, Rewriting
  <1>. QED
    BY <1>1, <1>2, <1>3, <1>4, <1>6, <1>7, QuietControl

LEMMA VerifyControl ==
    ASSUME Control, NEW t \in Threads, Verify(t)
    PROVE  Control'
  <1>1. /\ MemoryTyped' /\ pc[t] = "verify"
        /\ UNCHANGED <<world, clock, disk, count, best, split>>
    BY DEF Verify, Control, MemoryTyped, memory, history
  <1>2. CASE Return(t)
    BY <1>1, <1>2, ReturnControl
  <1>3. CASE ~Return(t)
    <2>1. /\ call[t] \in Calls /\ Located(t) /\ Len(call[t].hand) <= Room
      BY CallFacts
    <2>2. Moves(t, "open", call[t]) /\ "open" \in Labels
      BY <1>3 DEF Verify, Moves, Goto, Labels, Control, CallsTyped
    <2>3. pc'[t] = "open" /\ call'[t] = call[t] /\ UNCHANGED guard
      BY <1>3, <2>1, <2>2, MovesFacts DEF Verify
    <2>4. Located(t)'
      BY <1>1, <2>1, <2>3 DEF Located, Working, Rewriting, Unguarded, Batches
    <2>5. Quiet(t)
      BY <1>1, <2>1, <2>3 DEF Quiet, Pending, Clearing, Rewriting
    <2>. QED
      BY <1>1, <2>1, <2>2, <2>4, <2>5, QuietControl
  <1>. QED
    BY <1>2, <1>3

LEMMA OpenLockControl ==
    ASSUME Control, NEW t \in Threads, OpenLock(t)
    PROVE  Control'
  <1>. DEFINE c == [call[t] EXCEPT !.fd = lock[Own(t)]]
              l == IF call[t].op = "clear" THEN "wipe" ELSE "append"
  <1>1. /\ MemoryTyped' /\ pc[t] = "open" /\ UNCHANGED guard
        /\ UNCHANGED <<world, clock, disk, count, best, split>>
    BY DEF OpenLock, Control, MemoryTyped, memory, history
  <1>2. /\ call[t] \in Calls /\ Located(t) /\ Len(call[t].hand) <= Room
    BY CallFacts
  <1>3. lock[Own(t)] \in 0 .. MaxClears
    BY CallFacts DEF Control, DiskTyped
  <1>4. /\ c \in Calls /\ c.hand = call[t].hand /\ c.op = call[t].op
        /\ c.key = call[t].key /\ c.id = call[t].id /\ c.now = call[t].now
    BY <1>2, <1>3 DEF Calls
  <1>5. Moves(t, l, c) /\ l \in Labels
    BY <1>1 DEF OpenLock, Moves, Goto, Labels
  <1>6. pc'[t] = l /\ call'[t] = c
    BY <1>4, <1>5, MovesFacts
  <1>7. Located(t)'
    BY <1>1, <1>2, <1>4, <1>6 DEF Located, Working, Rewriting, Unguarded, Batches
  <1>8. Quiet(t)
    BY <1>1, <1>2, <1>4, <1>6 DEF Quiet, Pending, Clearing, Rewriting
  <1>. QED
    BY <1>1, <1>2, <1>4, <1>5, <1>7, <1>8, QuietControl

LEMMA FoldControl ==
    ASSUME Control, NEW t \in Threads, Fold(t)
    PROVE  Control'
  <1>. DEFINE i == InstanceOf[t]
              c == call[t]
              sizes == Resized(i, c.loc.at)
  <1>1. /\ c \in Calls /\ Located(t) /\ Len(c.hand) <= Room /\ pc[t] = "fold"
        /\ i \in Instances /\ Own(t) \in Writers /\ c.loc \in Places
        /\ c.key \in Keys /\ c.op \in {"set", "delete"}
    BY CallFacts DEF Fold, Located, Working, Rewriting, Passes, Batches
  <1>2. sizes \in Sigs
    <2>1. sig[i] \in Sigs
      BY <1>1 DEF Control, MemoryTyped
    <2>2. PICK D \in SUBSET Writers : sig[i] \in [D -> Nat]
      BY <2>1 DEF Sigs
    <2>3. c.loc.at \in Nat
      BY <1>1, BoundsAssumption DEF Places
    <2>4. sizes \in [{Own(t)} \cup D -> Nat]
      BY <2>2, <2>3 DEF Resized, Own
    <2>. QED
      BY <1>1, <2>4 DEF Sigs
  <1>3. sig' \in [Instances -> Sigs]
    BY <1>1, <1>2 DEF Fold, Control, MemoryTyped
  <1>4. index' \in [Instances -> Indexes \cup {NoIndex}]
    <2>1. CASE index[i] = NoIndex
      BY <2>1 DEF Fold, Control, MemoryTyped
    <2>2. CASE index[i] # NoIndex
      <3>. DEFINE e == IF c.op = "delete" THEN Deleted ELSE c.loc
                  ix == [index[i] EXCEPT !.overlay[c.key] = e]
      <3>1. index[i] \in Indexes
        BY <1>1, <2>2 DEF Control, MemoryTyped
      <3>2. e \in Places \cup {NoLoc, Deleted}
        BY <1>1
      <3>3. ix \in Indexes
        BY <1>1, <3>1, <3>2 DEF Indexes
      <3>4. index' = [index EXCEPT ![i] = ix]
        BY <1>1, <2>2 DEF Fold, Control, MemoryTyped
      <3>. QED
        BY <3>3, <3>4 DEF Control, MemoryTyped
    <2>. QED
      BY <2>1, <2>2
  <1>5. MemoryTyped'
    BY <1>3, <1>4 DEF Fold, Control, MemoryTyped
  <1>6. UNCHANGED <<world, clock, disk, count, best, split>>
    BY DEF Fold, history
  <1>7. CASE Return(t)
    BY <1>5, <1>6, <1>7, ReturnControl
  <1>8. CASE ~Return(t)
    <2>1. PICK p \in Passes :
              /\ call' = [call EXCEPT ![t].pass = p, ![t].loc = NoLoc]
              /\ Goto(t, "pass") /\ UNCHANGED guard /\ c.op = "set"
      BY <1>8 DEF Fold, Passes
    <2>. DEFINE d == [c EXCEPT !.pass = p, !.loc = NoLoc]
    <2>2. /\ d \in Calls /\ d.hand = c.hand /\ d.op = c.op /\ d.pass = p
          /\ d.key = c.key /\ d.id = c.id /\ d.now = c.now
      BY <1>1 DEF Calls
    <2>3. Moves(t, "pass", d) /\ "pass" \in Labels
      BY <2>1 DEF Moves, Goto, Labels, Control, CallsTyped
    <2>4. pc'[t] = "pass" /\ call'[t] = d
      BY <2>2, <2>3, MovesFacts
    <2>5. Located(t)'
      BY <1>1, <1>6, <2>1, <2>2, <2>4
      DEF Located, Working, Rewriting, Unguarded, Batches
    <2>6. Quiet(t)
      BY <1>1, <1>6, <2>2, <2>4 DEF Quiet, Pending, Clearing, Rewriting
    <2>. QED
      BY <1>1, <1>5, <1>6, <2>2, <2>3, <2>5, <2>6, QuietControl
  <1>. QED
    BY <1>7, <1>8

\* Threads that rewrite a log go from label to label without further ado.
LEMMA RewritingControl ==
    ASSUME Control, NEW t \in Threads, NEW l \in Rewriting, NEW c \in Calls,
           pc[t] \in Rewriting, Moves(t, l, c), UNCHANGED guard,
           c.op = call[t].op, c.pass = call[t].pass, c.key = call[t].key,
           c.id = call[t].id, c.now <= clock, Len(c.hand) <= Room,
           UNCHANGED <<world, clock, count>>
    PROVE  /\ \A u \in Threads : Located(u)'
           /\ t \notin Pending' /\ t \notin Clearing'
           /\ CallsTyped'
  <1>1. l \in Labels
    BY DEF Rewriting, Labels
  <1>2. pc'[t] = l /\ call'[t] = c /\ CallsTyped'
    BY <1>1, MovesFacts
  <1>3. Located(t)
    BY CallFacts
  <1>4. call[t].op \in {"set"} \cup Passes \cup Batches
    BY <1>3 DEF Located, Working, Rewriting
  <1>5. Working(t)'
    <2>1. CASE c.op = "set"
      BY <1>2, <2>1 DEF Working
    <2>2. CASE c.op # "set"
      BY <1>2, <1>4, <2>2 DEF Working
    <2>. QED
      BY <2>1, <2>2
  <1>6. Located(t)'
    BY <1>2, <1>3, <1>5 DEF Located, Rewriting, Unguarded
  <1>7. t \notin Pending' /\ t \notin Clearing'
    BY <1>2, <1>4 DEF Pending, Clearing, Passes, Batches
  <1>. QED
    BY <1>1, <1>2, <1>6, <1>7, MovesLocated

LEMMA StartPassControl ==
    ASSUME Control, NEW t \in Threads, StartPass(t)
    PROVE  Control'
  <1>. DEFINE c == [call[t] EXCEPT !.now = clock, !.fd = lock[Own(t)]]
  <1>1. /\ MemoryTyped' /\ pc[t] = "pass"
        /\ UNCHANGED <<world, clock, disk, count, best, split>>
    BY DEF StartPass, Control, MemoryTyped, memory, history
  <1>2. CASE Return(t)
    BY <1>1, <1>2, ReturnControl
  <1>3. CASE ~Return(t)
    <2>1. /\ call[t] \in Calls /\ Len(call[t].hand) <= Room
          /\ lock[Own(t)] \in 0 .. MaxClears /\ clock \in 0 .. MaxClock
      BY CallFacts DEF Control, DiskTyped
    <2>2. /\ c \in Calls /\ c.hand = call[t].hand /\ c.op = call[t].op
          /\ c.key = call[t].key /\ c.id = call[t].id /\ c.now <= clock
          /\ c.pass = call[t].pass
      <3>1. clock <= clock
        BY <2>1, BoundsAssumption
      <3>. QED
        BY <2>1, <3>1 DEF Calls
    <2>3. Moves(t, "read", c) /\ "read" \in Labels /\ UNCHANGED guard
      BY <1>3 DEF StartPass, Moves, Goto, Labels, Control, CallsTyped
    <2>4. Located(t)' /\ t \notin Pending' /\ t \notin Clearing'
      BY <1>1, <2>1, <2>2, <2>3, RewritingControl DEF Rewriting
    <2>5. Quiet(t)
      BY <1>1, <2>4 DEF Quiet
    <2>. QED
      BY <1>1, <2>1, <2>2, <2>3, <2>4, <2>5, QuietControl
  <1>. QED
    BY <1>2, <1>3

LEMMA HandFacts ==
    ASSUME Control, NEW t \in Threads, NEW hand,
           hand = Kept(Own(t), call[t].pass, call[t].now)
    PROVE  /\ hand \in Seq(Frames) /\ Len(hand) <= Room
  <1>1. LogsTyped /\ files \in SUBSET Writers /\ Own(t) \in Writers
    BY ControlFacts, CallFacts DEF Control, DiskTyped
  <1>2. hand \in Seq(Frames) /\ Len(hand) <= Len(log[Own(t)])
    BY <1>1, KeptFacts
  <1>3. Len(hand) \in Nat
    BY <1>2, LenProperties
  <1>. QED
    BY <1>1, <1>2, <1>3, LogFacts, ControlFacts DEF Control, Bounded

LEMMA ReadLogsControl ==
    ASSUME Control, NEW t \in Threads, ReadLogs(t)
    PROVE  Control'
  <1>. DEFINE hand == Kept(Own(t), call[t].pass, call[t].now)
              c == [call[t] EXCEPT !.hand = hand]
  <1>1. /\ MemoryTyped' /\ pc[t] = "read"
        /\ UNCHANGED <<world, clock, disk, count, best, split>>
    BY DEF ReadLogs, Control, MemoryTyped, memory, history
  <1>2. CASE Return(t)
    BY <1>1, <1>2, ReturnControl
  <1>3. CASE ~Return(t)
    <2>1. /\ call[t] \in Calls /\ Located(t)
          /\ hand \in Seq(Frames) /\ Len(hand) <= Room
      BY CallFacts, HandFacts
    <2>2. Moves(t, "replace", c) /\ "replace" \in Labels /\ UNCHANGED guard
      BY <1>3 DEF ReadLogs, Moves, Goto, Labels, Control, CallsTyped
    <2>. HIDE DEF hand
    <2>3. /\ c \in Calls /\ c.hand = hand /\ c.op = call[t].op
          /\ c.key = call[t].key /\ c.id = call[t].id /\ c.now <= clock
          /\ c.pass = call[t].pass
      BY <2>1 DEF Calls, Located
    <2>4. Located(t)' /\ t \notin Pending' /\ t \notin Clearing'
      BY <1>1, <2>1, <2>2, <2>3, RewritingControl DEF Rewriting
    <2>5. Quiet(t)
      BY <1>1, <2>4 DEF Quiet
    <2>. QED
      BY <1>1, <2>1, <2>2, <2>3, <2>4, <2>5, QuietControl
  <1>. QED
    BY <1>2, <1>3

LEMMA PopControl ==
    ASSUME Control, NEW t \in Threads, Pop(t)
    PROVE  Control'
  <1>1. index' \in [Instances -> Indexes \cup {NoIndex}]
        /\ sig' \in [Instances -> Sigs]
    BY ForgetTyped DEF Pop
  <1>2. MemoryTyped'
    BY <1>1 DEF Pop, Control, MemoryTyped
  <1>3. Return(t) /\ UNCHANGED <<world, clock, disk, count, best, split>>
    BY DEF Pop, history
  <1>. QED
    BY <1>2, <1>3, ReturnControl

-----------------------------------------------------------------------------
\* Steps that change the disk or the counts.
LEMMA RoomFacts ==
    ASSUME Control, Pending' \subseteq Pending, Clearing' \subseteq Clearing,
           count'.records = count.records, count'.crashes \in Nat,
           count'.crashes >= count.crashes
    PROVE  /\ Room' \in Int /\ Room' >= Room
           /\ Room' >= Room + (count'.crashes - count.crashes)
           /\ Cardinality(Clearing') \in Nat
           /\ Cardinality(Clearing') <= Cardinality(Clearing)
           /\ \A x \in Pending : x \notin Pending' => Room' >= Room + 1
           /\ \A x \in Clearing : x \notin Clearing' =>
                 Cardinality(Clearing') + 1 <= Cardinality(Clearing)
  <1>1. /\ IsFiniteSet(Pending') /\ Cardinality(Pending') <= Cardinality(Pending)
        /\ Cardinality(Pending') \in Nat
        /\ IsFiniteSet(Clearing')
        /\ Cardinality(Clearing') <= Cardinality(Clearing)
        /\ Cardinality(Clearing') \in Nat
    BY ControlFacts, FS_Subset, FS_CardinalityType
  <1>2. ASSUME NEW x \in Pending, x \notin Pending'
        PROVE  Cardinality(Pending') + 1 <= Cardinality(Pending)
    <2>1. /\ IsFiniteSet(Pending \ {x})
          /\ Cardinality(Pending \ {x}) = Cardinality(Pending) - 1
      BY ControlFacts, FS_RemoveElement
    <2>2. Pending' \subseteq Pending \ {x}
      BY <1>2
    <2>. QED
      BY <2>1, <2>2, <1>1, ControlFacts, FS_Subset
  <1>3. ASSUME NEW x \in Clearing, x \notin Clearing'
        PROVE  Cardinality(Clearing') + 1 <= Cardinality(Clearing)
    <2>1. /\ IsFiniteSet(Clearing \ {x})
          /\ Cardinality(Clearing \ {x}) = Cardinality(Clearing) - 1
      BY ControlFacts, FS_RemoveElement
    <2>2. Clearing' \subseteq Clearing \ {x}
      BY <1>3
    <2>. QED
      BY <2>1, <2>2, <1>1, ControlFacts, FS_Subset
  <1>. QED
    BY <1>1, <1>2, <1>3, ControlFacts DEF Room

LEMMA ReplaceControl ==
    ASSUME Control, NEW t \in Threads, Replace(t)
    PROVE  Control'
  <1>. DEFINE w == Own(t)
              hand == call[t].hand
  <1>1. /\ MemoryTyped' /\ HistoryTyped' /\ pc[t] = "replace" /\ call' = call
        /\ UNCHANGED <<world, clock, count, lock, guard>>
    BY DEF Replace, Control, MemoryTyped, HistoryTyped, memory, history
  <1>2. /\ call[t] \in Calls /\ Located(t) /\ hand \in Seq(Frames)
        /\ Len(hand) \in Nat /\ Len(hand) <= Room /\ w \in Writers
    BY CallFacts
  <1>3. Moves(t, "pop", call[t]) /\ "pop" \in Labels
    BY <1>1 DEF Replace, Moves, Goto, Labels, Control, CallsTyped
  <1>4. /\ \A u \in Threads : Located(u)'
        /\ t \notin Pending' /\ t \notin Clearing' /\ CallsTyped'
    BY <1>1, <1>2, <1>3, RewritingControl DEF Rewriting, Located
  <1>5. /\ log'[w] = hand /\ \A v \in Writers \ {w} : log'[v] = log[v]
        /\ log' \in [Writers -> Seq(Frames)]
        /\ files' \subseteq Writers
        /\ \A v \in Writers \ files' : log'[v] = <<>>
    BY <1>2 DEF Replace, Control, DiskTyped
  <1>6. DiskTyped'
    BY <1>1, <1>5 DEF Control, DiskTyped
  <1>7. Pending' \subseteq Pending /\ Clearing' \subseteq Clearing
    BY <1>2, <1>3, <1>4, MovesFacts
  <1>8. /\ Room' \in Int /\ Room' >= Room
        /\ Cardinality(Clearing') \in Nat
        /\ Cardinality(Clearing') <= Cardinality(Clearing)
    BY <1>1, <1>7, RoomFacts, ControlFacts
  <1>9. \A v \in Writers : Len(log'[v]) <= Room'
    <2>1. ASSUME NEW v \in Writers PROVE Len(log'[v]) <= Room'
      <3>1. CASE v = w
        BY <1>2, <1>5, <1>8, <3>1, SizeFacts
      <3>2. CASE v # w
        BY <1>5, <1>8, <3>2, SizeFacts
      <3>. QED
        BY <3>1, <3>2
    <2>. QED
      BY <2>1
  <1>10. \A u \in Threads : Len(call'[u].hand) <= Room'
    BY <1>1, <1>8, CallFacts, ControlFacts
  <1>11. \A v \in Writers : lock'[v] + Cardinality(Clearing') <= count'.clears
    BY <1>1, <1>8, ControlFacts DEF Control, Bounded
  <1>. QED
    BY <1>1, <1>4, <1>6, <1>9, <1>10, <1>11 DEF Control, Bounded

\* The record that t appends.
Made(t) == [key |-> call[t].key, time |-> call[t].now, dies |-> call[t].dies,
            dead |-> call[t].op = "delete", id |-> call[t].id]

LEMMA AppendFrameFacts ==
    ASSUME Control, NEW t \in Threads, AppendFrame(t)
    PROVE  /\ Made(t) \in Frames /\ Made(t).key \in Keys
           /\ files' = files \cup {Own(t)} /\ files' \in SUBSET Writers
           /\ log'[Own(t)] = Append(log[Own(t)], Made(t))
           /\ \A v \in Writers \ {Own(t)} : log'[v] = log[v]
           /\ log' \in [Writers -> Seq(Frames)]
           /\ Len(log'[Own(t)]) = Len(log[Own(t)]) + 1
           /\ log'[Own(t)][Len(log[Own(t)]) + 1] = Made(t)
           /\ \A n \in DOMAIN log[Own(t)] : log'[Own(t)][n] = log[Own(t)][n]
           /\ best' = best \/ best' = [best EXCEPT ![Made(t).key] =
                                         [writer |-> Own(t), frame |-> Made(t)]]
  <1>1. /\ call[t].op \in {"set", "delete"} /\ call[t].key \in Keys
        /\ call[t].id \in 1 .. MaxRecords /\ call[t].now \in 0 .. MaxClock
        /\ call[t].dies \in Nat /\ Own(t) \in Writers
    <2>1. Located(t) /\ pc[t] = "append" /\ call[t].id \in 0 .. MaxRecords
      BY CallFacts DEF AppendFrame
    <2>2. call[t].op \in {"set", "delete"}
      BY <2>1 DEF Located, Working, Rewriting
    <2>. QED
      BY <2>1, <2>2, CallFacts, BoundsAssumption DEF Located
  <1>2. Made(t) \in Frames /\ Made(t).key \in Keys
    BY <1>1, FrameFacts DEF Made
  <1>3. /\ log' = [log EXCEPT ![Own(t)] = Append(@, Made(t))]
        /\ files' = files \cup {Own(t)}
        /\ best' = best \/ best' = [best EXCEPT ![Made(t).key] =
                                      [writer |-> Own(t), frame |-> Made(t)]]
    BY DEF AppendFrame, Made
  <1>4. log[Own(t)] \in Seq(Frames) /\ log \in [Writers -> Seq(Frames)]
        /\ files \in SUBSET Writers
    BY <1>1 DEF Control, DiskTyped
  <1>5. log'[Own(t)] = Append(log[Own(t)], Made(t))
    BY <1>1, <1>3, <1>4
  <1>6. /\ Append(log[Own(t)], Made(t)) \in Seq(Frames)
        /\ Len(Append(log[Own(t)], Made(t))) = Len(log[Own(t)]) + 1
        /\ Append(log[Own(t)], Made(t))[Len(log[Own(t)]) + 1] = Made(t)
        /\ \A n \in 1 .. Len(log[Own(t)]) :
              Append(log[Own(t)], Made(t))[n] = log[Own(t)][n]
    BY <1>2, <1>4, AppendProperties
  <1>7. DOMAIN log[Own(t)] = 1 .. Len(log[Own(t)])
    BY <1>4, LenProperties
  <1>. QED
    BY <1>1, <1>2, <1>3, <1>4, <1>5, <1>6, <1>7

LEMMA AppendFrameControl ==
    ASSUME Control, NEW t \in Threads, AppendFrame(t)
    PROVE  Control'
  <1>. DEFINE w == Own(t)
              loc == [log |-> w, at |-> Len(log[w]) + 1]
              c == [call[t] EXCEPT !.loc = loc]
  <1>1. /\ MemoryTyped' /\ pc[t] = "append"
        /\ UNCHANGED <<world, clock, count, lock, guard, split>>
    BY DEF AppendFrame, Control, MemoryTyped, memory
  <1>2. /\ call[t] \in Calls /\ Located(t) /\ w \in Writers
        /\ Len(call[t].hand) \in Nat /\ Len(call[t].hand) <= Room
    BY CallFacts
  <1>3. t \in Pending /\ call[t].op \in {"set", "delete"}
    BY <1>1, <1>2 DEF Pending, Rewriting, Located, Working
  <1>4. Len(log[w]) \in Nat /\ Len(log[w]) + 1 <= MaxRecords + MaxCrashes
    <2>1. Cardinality(Pending) # 0
      BY <1>3, ControlFacts, FS_EmptySet
    <2>2. count.records <= MaxRecords /\ count.crashes <= MaxCrashes
      BY BoundsAssumption DEF Control, DiskTyped, Counts
    <2>3. Room + 1 <= MaxRecords + MaxCrashes
      BY <2>1, <2>2, ControlFacts, BoundsAssumption DEF Room
    <2>4. Len(log[w]) \in Nat /\ Len(log[w]) <= Room
      BY <1>2, LogFacts, ControlFacts DEF Control, Bounded
    <2>. QED
      BY <2>3, <2>4, ControlFacts, BoundsAssumption
  <1>5. loc \in Places
    BY <1>2, <1>4, BoundsAssumption DEF Places
  <1>. HIDE DEF loc
  <1>6. /\ c \in Calls /\ c.hand = call[t].hand /\ c.op = call[t].op
        /\ c.key = call[t].key /\ c.id = call[t].id /\ c.now = call[t].now
        /\ c.loc = loc
    BY <1>2, <1>5 DEF Calls
  <1>7. Moves(t, "fold", c) /\ "fold" \in Labels
    BY <1>1 DEF AppendFrame, Moves, Goto, Labels, loc
  <1>8. pc'[t] = "fold" /\ call'[t] = c
    BY <1>6, <1>7, MovesFacts
  <1>9. Located(t)'
    BY <1>1, <1>2, <1>3, <1>5, <1>6, <1>8, NoneAssumption
    DEF Located, Working, Rewriting, Unguarded, Batches
  <1>10. \A u \in Threads : Located(u)'
    BY <1>1, <1>6, <1>7, <1>9, MovesLocated
  <1>11. CallsTyped'
    BY <1>6, <1>7, MovesFacts
  <1>12. t \notin Pending' /\ t \notin Clearing'
    BY <1>3, <1>6, <1>8 DEF Pending, Clearing
  <1>13. Pending' \subseteq Pending /\ Clearing' \subseteq Clearing
    BY <1>6, <1>7, <1>12, MovesFacts
  <1>14. /\ Room' \in Int /\ Room' >= Room + 1 /\ Room' >= Room
         /\ Cardinality(Clearing') \in Nat
         /\ Cardinality(Clearing') <= Cardinality(Clearing)
    BY <1>1, <1>3, <1>12, <1>13, RoomFacts, ControlFacts
  <1>15. \A v \in Writers : Len(log'[v]) <= Room'
    <2>1. ASSUME NEW v \in Writers PROVE Len(log'[v]) <= Room'
      <3>1. CASE v = w
        <4>1. Len(log'[w]) = Len(log[w]) + 1
          BY AppendFrameFacts
        <4>. QED
          BY <1>2, <1>14, <3>1, <4>1, SizeFacts
      <3>2. CASE v # w
        <4>1. log'[v] = log[v]
          BY <3>2, AppendFrameFacts
        <4>. QED
          BY <1>14, <4>1, SizeFacts
      <3>. QED
        BY <3>1, <3>2
    <2>. QED
      BY <2>1
  <1>16. \A u \in Threads : Len(call'[u].hand) <= Room'
    <2>1. \A u \in Threads \ {t} : call'[u] = call[u]
      BY <1>6, <1>7, MovesFacts
    <2>2. \A u \in Threads : call'[u].hand = call[u].hand
      BY <1>6, <1>8, <2>1
    <2>. QED
      BY <2>2, <1>14, CallFacts, ControlFacts
  <1>17. \A v \in Writers : lock'[v] + Cardinality(Clearing') <= count'.clears
    BY <1>1, <1>14, ControlFacts DEF Control, Bounded
  <1>18. DiskTyped'
    BY <1>1, AppendFrameFacts DEF Control, DiskTyped
  <1>19. HistoryTyped'
    <2>1. best \in [Keys -> [writer : Writers, frame : Frames] \cup {Missing}]
      BY DEF Control, HistoryTyped
    <2>2. [writer |-> w, frame |-> Made(t)] \in [writer : Writers, frame : Frames]
      BY <1>2, AppendFrameFacts
    <2>3. best' \in [Keys -> [writer : Writers, frame : Frames] \cup {Missing}]
      BY <2>1, <2>2, AppendFrameFacts
    <2>. QED
      BY <1>1, <2>3 DEF Control, HistoryTyped
  <1>. QED
    BY <1>1, <1>10, <1>11, <1>15, <1>16, <1>17, <1>18, <1>19 DEF Control, Bounded

LEMMA WipeFacts ==
    ASSUME Control, NEW t \in Threads, Wipe(t)
    PROVE  /\ pc[t] = "wipe" /\ call[t].op = "clear" /\ Own(t) \in Writers
           /\ UNCHANGED <<world, clock, cooled, count>>
           /\ files' = files \ {Own(t)} /\ log'[Own(t)] = <<>>
           /\ \A v \in Writers \ {Own(t)} : log'[v] = log[v] /\ lock'[v] = lock[v]
           /\ log' \in [Writers -> Seq(Frames)]
           /\ lock'[Own(t)] = lock[Own(t)] + 1
           /\ split \subseteq split'
  <1>1. /\ pc[t] = "wipe" /\ Located(t) /\ Own(t) \in Writers
    BY CallFacts DEF Wipe
  <1>2. call[t].op = "clear"
    BY <1>1 DEF Located, Working, Rewriting
  <1>3. <<>> \in Seq(Frames)
    BY EmptySeq
  <1>4. /\ log \in [Writers -> Seq(Frames)] /\ lock \in [Writers -> 0 .. MaxClears]
    BY DEF Control, DiskTyped
  <1>. QED
    BY <1>1, <1>2, <1>3, <1>4 DEF Wipe

LEMMA WipeControl ==
    ASSUME Control, NEW t \in Threads, Wipe(t)
    PROVE  Control'
  <1>. DEFINE w == Own(t)
              left(k) == Locations(files \ {w}, k)
  <1>1. /\ call[t].op = "clear" /\ w \in Writers
        /\ UNCHANGED <<world, clock, count>>
        /\ files' = files \ {w} /\ log'[w] = <<>>
        /\ \A v \in Writers \ {w} : log'[v] = log[v] /\ lock'[v] = lock[v]
        /\ log' \in [Writers -> Seq(Frames)] /\ lock'[w] = lock[w] + 1
    BY WipeFacts
  <1>2. Return(t) /\ Forget(t)
    BY DEF Wipe
  <1>3. MemoryTyped'
    BY <1>2, ForgetTyped DEF Wipe, Control, MemoryTyped
  <1>4. /\ pc'[t] = "idle" /\ call'[t] = Resting /\ Located(t)'
        /\ t \notin Pending' /\ t \notin Clearing'
    BY <1>1, <1>2, ReturnFacts
  <1>5. Moves(t, "idle", Resting) /\ "idle" \in Labels /\ Resting \in Calls
    BY <1>2, ReturnMoves, RestingFacts DEF Labels
  <1>6. CallsTyped' /\ \A u \in Threads : Located(u)'
    BY <1>1, <1>4, <1>5, MovesFacts, MovesLocated
  <1>7. Pending' \subseteq Pending /\ Clearing' \subseteq Clearing
    BY <1>4, <1>5, MovesFacts
  <1>8. /\ Room' \in Int /\ Room' >= Room
        /\ Cardinality(Clearing') \in Nat
        /\ Cardinality(Clearing') + 1 <= Cardinality(Clearing)
    <2>1. t \in Clearing /\ t \notin Clearing'
      BY <1>1, <1>4 DEF Clearing
    <2>2. count'.records = count.records /\ count'.crashes = count.crashes
          /\ count.crashes \in Nat
      BY <1>1, ControlFacts
    <2>. QED
      BY <1>7, <2>1, <2>2, RoomFacts
  <1>9. \A v \in Writers : Len(log'[v]) <= Room'
    <2>1. ASSUME NEW v \in Writers PROVE Len(log'[v]) <= Room'
      <3>1. Len(<<>>) = 0
        OBVIOUS
      <3>2. CASE v = w
        BY <1>1, <1>8, <3>1, <3>2, SizeFacts
      <3>3. CASE v # w
        BY <1>1, <1>8, <3>3, SizeFacts
      <3>. QED
        BY <3>2, <3>3
    <2>. QED
      BY <2>1
  <1>10. \A u \in Threads : Len(call'[u].hand) <= Room'
    <2>1. \A u \in Threads \ {t} : call'[u] = call[u]
      BY <1>5, MovesFacts
    <2>2. Len(call'[t].hand) = 0
      BY <1>4, RestingFacts
    <2>3. Room' >= 0
      BY <1>1, <1>8, SizeFacts
    <2>4. \A u \in Threads \ {t} : Len(call'[u].hand) <= Room'
      BY <2>1, <1>8, CallFacts, SizeFacts
    <2>. QED
      BY <2>2, <2>3, <2>4
  <1>11. \A v \in Writers : lock'[v] + Cardinality(Clearing') <= count'.clears
    <2>1. ASSUME NEW v \in Writers
          PROVE  lock'[v] + Cardinality(Clearing') <= count'.clears
      <3>1. /\ lock[v] \in Nat /\ count.clears \in Nat
            /\ lock[v] + Cardinality(Clearing) <= count.clears
            /\ Cardinality(Clearing) \in Nat
        BY ControlFacts DEF Control, Bounded
      <3>2. lock'[v] <= lock[v] + 1 /\ lock'[v] \in Nat
        BY <1>1, <3>1
      <3>3. PICK a, b \in Nat : a = lock[v] /\ b = lock'[v]
        BY <3>1, <3>2
      <3>4. PICK c, d \in Nat :
                c = Cardinality(Clearing) /\ d = Cardinality(Clearing')
        BY <1>8, <3>1
      <3>5. /\ b <= a + 1 /\ d + 1 <= c /\ a + c <= count.clears
            /\ count'.clears = count.clears
        BY <1>1, <1>8, <3>1, <3>2, <3>3, <3>4
      <3>. QED
        BY <3>1, <3>3, <3>4, <3>5
    <2>. QED
      BY <2>1
  <1>12. DiskTyped'
    <2>1. \A v \in Writers : lock'[v] \in 0 .. MaxClears
      <3>1. \A v \in Writers : lock'[v] \in Nat
        BY <1>1, ControlFacts
      <3>2. count'.clears <= MaxClears /\ count'.clears \in Nat
        BY <1>1, BoundsAssumption DEF Control, DiskTyped, Counts
      <3>. QED
        BY <1>8, <1>11, <3>1, <3>2, BoundsAssumption
    <2>2. lock' \in [Writers -> 0 .. MaxClears]
      BY <2>1 DEF Wipe, Control, DiskTyped
    <2>3. \A v \in Writers \ files' : log'[v] = <<>>
      BY <1>1 DEF Control, DiskTyped
    <2>. QED
      BY <1>1, <2>2, <2>3 DEF Control, DiskTyped
  <1>13. HistoryTyped'
    <2>1. \A k \in Keys : left(k) # {} =>
              [writer |-> Winner(left(k)).log, frame |-> FrameAt(Winner(left(k)))]
                  \in [writer : Writers, frame : Frames]
      <3>1. LogsTyped /\ files \ {w} \in SUBSET Writers
        BY ControlFacts DEF Control, DiskTyped
      <3>2. ASSUME NEW k \in Keys, left(k) # {}
            PROVE  /\ Winner(left(k)).log \in Writers
                   /\ FrameAt(Winner(left(k))) \in Frames
        <4>1. left(k) \in SUBSET Spots
          BY <3>1, LocationFacts
        <4>. HIDE DEF left
        <4>2. Winner(left(k)) \in Spots
          BY <3>1, <3>2, <4>1, WinnerFacts
        <4>. QED
          BY <3>1, <4>2, SpotFacts
      <3>. QED
        BY <3>2
    <2>2. best \in [Keys -> [writer : Writers, frame : Frames] \cup {Missing}]
          /\ split \subseteq Writers
      BY DEF Control, HistoryTyped
    <2>3. best' \in [Keys -> [writer : Writers, frame : Frames] \cup {Missing}]
      BY <2>1, <2>2 DEF Wipe
    <2>4. split' \subseteq Writers
      BY <1>1, <2>2 DEF Wipe
    <2>. QED
      BY <2>3, <2>4 DEF HistoryTyped
  <1>. QED
    BY <1>3, <1>6, <1>9, <1>10, <1>11, <1>12, <1>13 DEF Control, Bounded

LEMMA Joined ==
    ASSUME NEW A, NEW B, NEW t, t \notin A, B \ {t} = A \ {t}
    PROVE  /\ t \in B => B = A \cup {t}
           /\ t \notin B => B = A
  <1>1. ASSUME t \in B PROVE B = A \cup {t}
    BY <1>1
  <1>2. ASSUME t \notin B PROVE B = A
    BY <1>2
  <1>. QED
    BY <1>1, <1>2

\* A call that begins: it may take its place among those with a record to
\* append, or with a log to clear.
LEMMA BeginControlIf ==
    ASSUME Control, NEW t \in Threads, pc[t] = "idle",
           NEW l \in Labels, NEW c \in Calls, Moves(t, l, c), Located(t)',
           c.hand = <<>>,
           UNCHANGED <<world, clock, disk, memory, best, split>>,
           count' \in Counts, count'.crashes = count.crashes,
           t \in Pending' => count'.records = count.records + 1,
           t \notin Pending' => count'.records = count.records,
           t \in Clearing' => count'.clears = count.clears + 1,
           t \notin Clearing' => count'.clears = count.clears
    PROVE  Control'
  <1>1. /\ CallsTyped' /\ call'[t] = c
        /\ Pending' \ {t} = Pending \ {t} /\ Clearing' \ {t} = Clearing \ {t}
    BY MovesFacts
  <1>2. t \notin Pending /\ t \notin Clearing
    BY CallFacts DEF Pending, Clearing, Located, Working, Rewriting
  <1>3. /\ t \in Pending' => Pending' = Pending \cup {t}
        /\ t \notin Pending' => Pending' = Pending
        /\ t \in Clearing' => Clearing' = Clearing \cup {t}
        /\ t \notin Clearing' => Clearing' = Clearing
    BY <1>1, <1>2, Joined
  <1>4. /\ Cardinality(Pending \cup {t}) = Cardinality(Pending) + 1
        /\ Cardinality(Clearing \cup {t}) = Cardinality(Clearing) + 1
    BY <1>2, ControlFacts, FS_AddElement
  <1>5. Room' = Room
    <2>1. CASE t \in Pending'
      <3>1. /\ Cardinality(Pending') = Cardinality(Pending) + 1
            /\ count'.records = count.records + 1
        BY <1>3, <1>4, <2>1
      <3>2. /\ Cardinality(Pending) \in Nat /\ count.records \in Nat
            /\ count.crashes \in Nat
        BY ControlFacts
      <3>. QED
        BY <3>1, <3>2 DEF Room
    <2>2. CASE t \notin Pending'
      <3>1. Cardinality(Pending') = Cardinality(Pending)
        BY <1>3, <2>2
      <3>. QED
        BY <2>2, <3>1, ControlFacts DEF Room
    <2>. QED
      BY <2>1, <2>2
  <1>6. \A v \in Writers : Len(log'[v]) <= Room'
    BY <1>5, SizeFacts DEF disk
  <1>7. \A u \in Threads : Len(call'[u].hand) <= Room'
    <2>1. \A u \in Threads \ {t} : call'[u] = call[u]
      BY MovesFacts
    <2>2. Len(call'[t].hand) = 0 /\ 0 <= Len(call[t].hand)
      BY <1>1, CallFacts
    <2>3. \A u \in Threads \ {t} : Len(call'[u].hand) <= Room'
      BY <2>1, <1>5, CallFacts
    <2>4. 0 <= Room'
      BY <2>2, <1>5, CallFacts, SizeFacts
    <2>. QED
      BY <2>2, <2>3, <2>4
  <1>8. \A v \in Writers : lock'[v] + Cardinality(Clearing') <= count'.clears
    <2>1. ASSUME NEW v \in Writers
          PROVE  lock'[v] + Cardinality(Clearing') <= count'.clears
      <3>1. /\ lock[v] \in Nat /\ count.clears \in Nat
            /\ lock[v] + Cardinality(Clearing) <= count.clears
            /\ Cardinality(Clearing) \in Nat /\ lock'[v] = lock[v]
        BY ControlFacts DEF Control, Bounded, disk
      <3>2. CASE t \in Clearing'
        <4>1. /\ Cardinality(Clearing') = Cardinality(Clearing) + 1
              /\ count'.clears = count.clears + 1
          BY <1>3, <1>4, <3>2
        <4>. QED
          BY <3>1, <4>1
      <3>3. CASE t \notin Clearing'
        <4>1. Cardinality(Clearing') = Cardinality(Clearing)
          BY <1>3, <3>3
        <4>. QED
          BY <3>1, <3>3, <4>1
      <3>. QED
        BY <3>2, <3>3
    <2>. QED
      BY <2>1
  <1>9. DiskTyped' /\ MemoryTyped' /\ HistoryTyped'
    BY DEF Control, DiskTyped, MemoryTyped, HistoryTyped, disk, memory
  <1>10. \A u \in Threads : Located(u)'
    BY MovesLocated
  <1>. QED
    BY <1>1, <1>6, <1>7, <1>8, <1>9, <1>10 DEF Control, Bounded

LEMMA StampControl ==
    ASSUME Control, NEW t \in Threads, NEW k \in Keys,
           NEW life \in world.lifetimes[t], Stamp(t, k, life)
    PROVE  Control'
  <1>. DEFINE dies == IF life = Forever THEN life ELSE clock + life
              id == count.records + 1
              c == [Resting EXCEPT !.op = "set", !.key = k, !.now = clock,
                                   !.dies = dies, !.id = id]
  <1>1. /\ pc[t] = "idle" /\ Located(t) /\ UNCHANGED guard
        /\ clock \in 0 .. MaxClock /\ clock <= clock
        /\ UNCHANGED <<world, clock, disk, memory, best, split>>
    <2>1. clock \in 0 .. MaxClock
      BY DEF Control, DiskTyped
    <2>2. clock <= clock
      BY <2>1, BoundsAssumption
    <2>. QED
      BY <2>1, <2>2, CallFacts DEF Stamp, history
  <1>2. dies \in Nat
    <2>1. life \in 0 .. Forever
      <3>1. world \in Worlds
        BY DEF Control, DiskTyped
      <3>2. world.lifetimes \in [Threads -> SUBSET (0 .. Forever)]
        BY <3>1, WorldsAssumption
      <3>. QED
        BY <3>2
    <2>. QED
      BY <1>1, <2>1, BoundsAssumption DEF Forever
  <1>3. /\ count' = [count EXCEPT !.records = id] /\ id \in 1 .. MaxRecords
        /\ count' \in Counts
    <2>1. count \in Counts /\ count.records < MaxRecords
      BY DEF Stamp, Control, DiskTyped
    <2>2. count' = [count EXCEPT !.records = id]
      BY DEF Stamp
    <2>3. id \in 1 .. MaxRecords
      BY <2>1, BoundsAssumption DEF Counts
    <2>. QED
      BY <2>1, <2>2, <2>3, BoundsAssumption DEF Counts
  <1>. HIDE DEF dies, id
  <1>4. c \in Calls
    <2>1. id \in 0 .. MaxRecords
      BY <1>3, BoundsAssumption
    <2>. QED
      BY <1>1, <1>2, <2>1, RestingFacts DEF Calls, Ops
  <1>5. /\ c.op = "set" /\ c.hand = <<>> /\ c.key = k /\ c.now = clock
        /\ c.id = id
    BY DEF Resting
  <1>6. Moves(t, "stamped", c) /\ "stamped" \in Labels
    BY <1>1 DEF Stamp, Moves, Goto, Labels, dies, id
  <1>7. pc'[t] = "stamped" /\ call'[t] = c
    BY <1>4, <1>6, MovesFacts
  <1>8. Located(t)'
    BY <1>1, <1>3, <1>5, <1>7
    DEF Located, Working, Rewriting, Unguarded, Batches
  <1>9. t \in Pending' /\ t \notin Clearing'
    BY <1>5, <1>7 DEF Pending, Clearing, Rewriting
  <1>10. /\ count'.records = count.records + 1
         /\ count'.crashes = count.crashes /\ count'.clears = count.clears
    BY <1>3 DEF id, Control, DiskTyped, Counts
  <1>. QED
    BY <1>1, <1>3, <1>4, <1>5, <1>6, <1>8, <1>9, <1>10, BeginControlIf

LEMMA BeginControl ==
    ASSUME Control, NEW t \in Threads, NEW op \in Ops \ {"set"},
           NEW k \in Keys \cup {NoKey}, Begin(t, op, k),
           op \in {"get", "delete"} => k \in Keys
    PROVE  Control'
  <1>. DEFINE id == IF op = "delete" THEN count.records + 1 ELSE 0
              pass == CASE op \in {"compact", "compactAll"} -> "compact"
                        [] op \in {"consolidate", "consolidateAll"} ->
                               "consolidate"
                        [] OTHER -> "none"
              l == CASE op \in {"get", "delete"} -> "check"
                     [] op = "clear" -> "open"
                     [] OTHER -> "pass"
              c == [Resting EXCEPT !.op = op, !.key = k, !.now = clock,
                                   !.id = id, !.pass = pass]
  <1>1. /\ pc[t] = "idle" /\ Located(t)
        /\ clock \in 0 .. MaxClock /\ clock <= clock
        /\ UNCHANGED <<world, clock, disk, memory, best, split>>
    <2>1. clock \in 0 .. MaxClock
      BY DEF Control, DiskTyped
    <2>2. clock <= clock
      BY <2>1, BoundsAssumption
    <2>. QED
      BY <2>1, <2>2, CallFacts DEF Begin, history
  <1>2. /\ id \in 0 .. MaxRecords
        /\ op = "delete" => id # 0
        /\ pass \in Passes \cup {"none"}
        /\ op \in Passes \cup Batches => pass \in Passes
        /\ l \in Labels
    <2>1. id \in 0 .. MaxRecords /\ (op = "delete" => id # 0)
      BY BoundsAssumption DEF Begin, Control, DiskTyped, Counts
    <2>2. /\ pass \in Passes \cup {"none"}
          /\ op \in Passes \cup Batches => pass \in Passes
      BY DEF Passes, Batches
    <2>3. l \in Labels
      BY DEF Labels
    <2>. QED
      BY <2>1, <2>2, <2>3
  <1>3. /\ op \in {"get", "delete"} => l = "check"
        /\ op = "clear" => l = "open"
        /\ op \in Passes \cup Batches => l = "pass"
        /\ op \in {"get", "delete", "clear"} \cup Passes \cup Batches
    BY DEF Passes, Batches, Ops
  <1>4. /\ call' = [call EXCEPT ![t] = c] /\ pc' = [pc EXCEPT ![t] = l]
        /\ IF op \in Batches THEN UNCHANGED guard ELSE Take(t)
    BY DEF Begin, Goto
  <1>. HIDE DEF id, pass, l
  <1>5. c \in Calls
    BY <1>1, <1>2, RestingFacts DEF Calls
  <1>6. /\ c.op = op /\ c.hand = <<>> /\ c.key = k /\ c.now = clock
        /\ c.id = id /\ c.pass = pass
    BY DEF Resting
  <1>. HIDE DEF c
  <1>7. Moves(t, l, c)
    BY <1>4 DEF Moves
  <1>8. /\ pc'[t] = l /\ call'[t] = c
        /\ guard'[InstanceOf[t]] = t <=> op \notin Batches
    <2>1. pc'[t] = l /\ call'[t] = c
      BY <1>2, <1>5, <1>7, MovesFacts
    <2>2. CASE op \in Batches
      <3>1. guard[InstanceOf[t]] # t
        BY <1>1 DEF Located, Unguarded
      <3>. QED
        BY <1>4, <2>1, <2>2, <3>1
    <2>3. CASE op \notin Batches
      <3>1. Take(t)
        BY <1>4, <2>3
      <3>2. guard'[InstanceOf[t]] = t
        BY <3>1, GuardFacts
      <3>. QED
        BY <2>1, <2>3, <3>2
    <2>. QED
      BY <2>2, <2>3
  <1>9. Located(t)'
    <2>1. CASE op \in {"get", "delete"}
      BY <1>1, <1>2, <1>3, <1>6, <1>8, <2>1
      DEF Located, Working, Rewriting, Unguarded, Batches
    <2>2. CASE op = "clear"
      BY <1>1, <1>2, <1>3, <1>6, <1>8, <2>2
      DEF Located, Working, Rewriting, Unguarded, Batches
    <2>3. CASE op \in Passes \cup Batches
      <3>1. op \notin {"set", "get", "delete", "clear", "none"}
        BY <2>3 DEF Passes, Batches
      <3>. QED
        BY <1>1, <1>2, <1>3, <1>6, <1>8, <2>3, <3>1
        DEF Located, Working, Rewriting, Unguarded
    <2>. QED
      BY <1>3, <2>1, <2>2, <2>3
  <1>10. /\ t \in Pending' <=> op = "delete"
         /\ t \in Clearing' <=> op = "clear"
    BY <1>3, <1>6, <1>8 DEF Pending, Clearing, Rewriting
  <1>11. /\ count' \in Counts /\ count'.crashes = count.crashes
         /\ op = "delete" => count'.records = count.records + 1
         /\ op # "delete" => count'.records = count.records
         /\ op = "clear" => count'.clears = count.clears + 1
         /\ op # "clear" => count'.clears = count.clears
    <2>1. count \in Counts
      BY DEF Control, DiskTyped
    <2>2. CASE op = "delete"
      <3>1. /\ count' = [count EXCEPT !.records = @ + 1]
            /\ count.records < MaxRecords
        BY <2>2 DEF Begin, Passes, Batches
      <3>. QED
        BY <2>1, <2>2, <3>1, BoundsAssumption DEF Counts
    <2>3. CASE op = "clear"
      <3>1. /\ count' = [count EXCEPT !.clears = @ + 1]
            /\ count.clears < MaxClears
        BY <2>3 DEF Begin, Passes, Batches
      <3>. QED
        BY <2>1, <2>3, <3>1, BoundsAssumption DEF Counts
    <2>4. CASE op \in Passes \cup Batches
      <3>1. op \notin {"delete", "clear"}
        BY <2>4 DEF Passes, Batches
      <3>2. count' = [count EXCEPT !.passes = @ + 1]
        BY <2>4, <3>1 DEF Begin
      <3>. QED
        BY <2>1, <3>1, <3>2, BoundsAssumption DEF Counts
    <2>5. CASE op = "get"
      <3>1. count' = count
        BY <2>5 DEF Begin, Passes, Batches
      <3>. QED
        BY <2>1, <2>5, <3>1
    <2>. QED
      BY <1>3, <2>2, <2>3, <2>4, <2>5
  <1>. QED
    BY <1>1, <1>2, <1>5, <1>6, <1>7, <1>9, <1>10, <1>11, BeginControlIf

\* The threads that die with a process leave the sets they were counted in.
LEMMA CrashFacts ==
    ASSUME Control, NEW i \in Instances, Crash(i)
    PROVE  /\ \A t \in Threads : InstanceOf[t] = i
                 => pc'[t] = "idle" /\ call'[t] = Resting
           /\ \A t \in Threads : InstanceOf[t] # i
                 => pc'[t] = pc[t] /\ call'[t] = call[t]
           /\ guard' = [guard EXCEPT ![i] = Nobody]
           /\ count' = [count EXCEPT !.crashes = @ + 1] /\ count' \in Counts
           /\ UNCHANGED <<world, clock, lock, best, split>>
           /\ WriterOf[i] \in Writers
           /\ files' \subseteq Writers /\ log' \in [Writers -> Seq(Frames)]
           /\ \A v \in Writers : log'[v] = log[v]
                                 \/ log'[v] = Append(log[v], Torn)
  <1>1. WriterOf[i] \in Writers
    BY ThreadsAssumption
  <1>2. /\ files \subseteq Writers /\ log \in [Writers -> Seq(Frames)]
        /\ count \in Counts
    BY DEF Control, DiskTyped
  <1>3. count' = [count EXCEPT !.crashes = @ + 1] /\ count' \in Counts
    <2>1. count' = [count EXCEPT !.crashes = @ + 1] /\ count.crashes < MaxCrashes
      BY DEF Crash
    <2>. QED
      BY <1>2, <2>1, BoundsAssumption DEF Counts
  <1>4. /\ files' \subseteq Writers /\ log' \in [Writers -> Seq(Frames)]
        /\ \A v \in Writers : log'[v] = log[v] \/ log'[v] = Append(log[v], Torn)
    <2>1. CASE UNCHANGED disk
      BY <1>2, <2>1 DEF disk
    <2>2. CASE ~UNCHANGED disk
      <3>1. /\ files' = files \cup {WriterOf[i]}
            /\ log' = [log EXCEPT ![WriterOf[i]] = Append(@, Torn)]
        BY <2>2 DEF Crash
      <3>2. Append(log[WriterOf[i]], Torn) \in Seq(Frames)
        BY <1>1, <1>2, FrameFacts, AppendProperties
      <3>. QED
        BY <1>1, <1>2, <3>1, <3>2
    <2>. QED
      BY <2>1, <2>2
  <1>. QED
    BY <1>1, <1>3, <1>4 DEF Crash, disk

LEMMA CrashControl ==
    ASSUME Control, NEW i \in Instances, Crash(i)
    PROVE  Control'
  <1>1. /\ UNCHANGED <<world, clock, lock, best, split>>
        /\ count' \in Counts /\ files' \subseteq Writers
        /\ log' \in [Writers -> Seq(Frames)]
    BY CrashFacts
  <1>2. \A t \in Threads : call'[t] = call[t] \/ call'[t] = Resting
    BY CrashFacts
  <1>3. /\ count'.records = count.records
        /\ count'.crashes = count.crashes + 1 /\ count'.clears = count.clears
        /\ count.crashes \in Nat
    BY CrashFacts, ControlFacts DEF Control, DiskTyped, Counts
  <1>4. Pending' \subseteq Pending /\ Clearing' \subseteq Clearing
    BY CrashFacts, RestingFacts DEF Pending, Clearing
  <1>5. /\ Room' \in Int /\ Room' >= Room + 1 /\ Room' >= Room
        /\ Cardinality(Clearing') \in Nat
        /\ Cardinality(Clearing') <= Cardinality(Clearing)
    BY <1>3, <1>4, RoomFacts
  <1>6. \A v \in Writers : Len(log'[v]) <= Room'
    <2>1. ASSUME NEW v \in Writers PROVE Len(log'[v]) <= Room'
      <3>1. CASE log'[v] = log[v]
        BY <1>5, <3>1, SizeFacts
      <3>2. CASE log'[v] = Append(log[v], Torn)
        <4>1. log[v] \in Seq(Frames)
          BY DEF Control, DiskTyped
        <4>2. Len(log'[v]) = Len(log[v]) + 1
          BY <3>2, <4>1, FrameFacts, AppendProperties
        <4>. QED
          BY <1>5, <4>2, SizeFacts
      <3>. QED
        BY <3>1, <3>2, CrashFacts
    <2>. QED
      BY <2>1
  <1>7. \A u \in Threads : Len(call'[u].hand) <= Room'
    <2>1. ASSUME NEW u \in Threads PROVE Len(call'[u].hand) <= Room'
      <3>1. Len(call[u].hand) \in Nat /\ Len(call[u].hand) <= Room
        BY CallFacts
      <3>2. CASE call'[u] = call[u]
        BY <1>5, <3>1, <3>2, SizeFacts
      <3>3. CASE call'[u] = Resting
        BY <1>5, <3>1, <3>3, SizeFacts, RestingFacts
      <3>. QED
        BY <1>2, <3>2, <3>3
    <2>. QED
      BY <2>1
  <1>8. \A v \in Writers : lock'[v] + Cardinality(Clearing') <= count'.clears
    BY <1>1, <1>3, <1>5, ControlFacts DEF Control, Bounded
  <1>9. DiskTyped'
    <2>1. \A v \in Writers \ files' : log'[v] = <<>>
      BY DEF Crash, disk, Control, DiskTyped
    <2>. QED
      BY <1>1, <2>1 DEF Control, DiskTyped
  <1>10. MemoryTyped' /\ HistoryTyped'
    <2>1. <<>> \in Sigs
      BY RestingFacts DEF Calls, Resting
    <2>. QED
      BY <1>1, <2>1 DEF Crash, Control, MemoryTyped, HistoryTyped
  <1>11. CallsTyped'
    <2>1. guard' \in [Instances -> Threads \cup {Nobody}]
          /\ \A j \in Instances : guard'[j] # Nobody => InstanceOf[guard'[j]] = j
      BY CrashFacts DEF Control, CallsTyped
    <2>2. pc' \in [Threads -> Labels] /\ call' \in [Threads -> Calls]
      BY RestingFacts DEF Crash, Control, CallsTyped, Labels
    <2>. QED
      BY <2>1, <2>2 DEF CallsTyped
  <1>12. ASSUME NEW u \in Threads PROVE Located(u)'
    <2>1. Located(u) /\ InstanceOf[u] \in Instances
      BY CallFacts
    <2>2. CASE InstanceOf[u] = i
      <3>1. pc'[u] = "idle" /\ call'[u] = Resting
        BY <2>2, CrashFacts
      <3>2. guard'[InstanceOf[u]] # u
        BY <2>2, CrashFacts, NoneAssumption DEF Control, CallsTyped
      <3>3. clock \in 0 .. MaxClock
        BY DEF Control, DiskTyped
      <3>. QED
        BY <1>1, <3>1, <3>2, <3>3, RestingFacts, BoundsAssumption
        DEF Located, Working, Rewriting, Unguarded, Ops, Passes, Batches
    <2>3. CASE InstanceOf[u] # i
      <3>1. pc'[u] = pc[u] /\ call'[u] = call[u]
        BY <2>3, CrashFacts
      <3>2. guard'[InstanceOf[u]] = guard[InstanceOf[u]]
        BY <2>1, <2>3, CrashFacts DEF Control, CallsTyped
      <3>. QED
        BY <1>1, <2>1, <3>1, <3>2 DEF Located, Working
    <2>. QED
      BY <2>2, <2>3
  <1>. QED
    BY <1>6, <1>7, <1>8, <1>9, <1>10, <1>11, <1>12 DEF Control, Bounded

LEMMA TickControl ==
    ASSUME Control, Tick
    PROVE  Control'
  <1>1. clock' \in 0 .. MaxClock /\ clock <= clock'
    BY BoundsAssumption DEF Tick, Control, DiskTyped
  <1>2. UNCHANGED <<world, files, log, lock, index, sig, fresh, cooled, guard,
                    pc, call, count, best, split>>
    BY DEF Tick, disk, memory, control, history
  <1>3. Pending' = Pending /\ Clearing' = Clearing
    BY <1>2 DEF Pending, Clearing
  <1>4. Bounded' /\ HistoryTyped' /\ MemoryTyped' /\ CallsTyped' /\ DiskTyped'
    <2>1. Room' = Room
      BY <1>2, <1>3 DEF Room
    <2>2. Bounded'
      BY <1>2, <1>3, <2>1 DEF Control, Bounded
    <2>. QED
      BY <1>1, <1>2, <2>2
      DEF Control, DiskTyped, HistoryTyped, MemoryTyped, CallsTyped
  <1>5. ASSUME NEW t \in Threads PROVE Located(t)'
    <2>1. Located(t) /\ call[t].now \in 0 .. MaxClock /\ clock \in 0 .. MaxClock
      BY CallFacts DEF Control, DiskTyped
    <2>2. call[t].now <= clock'
      BY <1>1, <2>1, BoundsAssumption DEF Located
    <2>. QED
      BY <1>2, <2>1, <2>2 DEF Located, Working
  <1>. QED
    BY <1>4, <1>5 DEF Control

LEMMA StillControl ==
    ASSUME Control, MemoryTyped',
           UNCHANGED <<world, clock, disk, control, count, best, split>>
    PROVE  Control'
  <1>1. UNCHANGED <<world, clock, files, log, lock, guard,
                    pc, call, count, best, split>>
    BY DEF disk, control
  <1>2. Pending' = Pending /\ Clearing' = Clearing
    BY <1>1 DEF Pending, Clearing
  <1>3. Room' = Room
    BY <1>1, <1>2 DEF Room
  <1>4. Bounded'
    BY <1>1, <1>2, <1>3 DEF Control, Bounded
  <1>5. HistoryTyped' /\ CallsTyped' /\ DiskTyped'
    BY <1>1 DEF Control, DiskTyped, HistoryTyped, CallsTyped
  <1>6. \A t \in Threads : Located(t)'
    BY <1>1 DEF Control, Located, Working
  <1>. QED
    BY <1>4, <1>5, <1>6 DEF Control

LEMMA InitControl ==
    ASSUME Init
    PROVE  Control
  <1>1. /\ \A t \in Threads : InstanceOf[t] \in Instances
        /\ <<>> \in Sigs /\ <<>> \in Seq(Frames) /\ Len(<<>>) = 0
    BY RestingFacts, EmptySeq, ThreadsAssumption DEF Calls, Resting
  <1>2. DiskTyped
    BY <1>1, BoundsAssumption DEF Init, DiskTyped, Counts
  <1>3. MemoryTyped
    BY <1>1 DEF Init, MemoryTyped
  <1>4. CallsTyped
    BY <1>1, RestingFacts DEF Init, CallsTyped, Labels
  <1>5. HistoryTyped
    BY DEF Init, HistoryTyped
  <1>6. Pending = {} /\ Clearing = {}
    BY RestingFacts DEF Init, Pending, Clearing
  <1>7. Room = 0 /\ Cardinality(Clearing) = 0
    BY <1>6, FS_EmptySet DEF Init, Room
  <1>8. Bounded
    BY <1>1, <1>7, RestingFacts DEF Init, Bounded
  <1>9. \A t \in Threads : Located(t)
    BY <1>1, RestingFacts, NoneAssumption
    DEF Init, Located, Working, Rewriting, Unguarded, Ops, Passes, Batches
  <1>. QED
    BY <1>2, <1>3, <1>4, <1>5, <1>8, <1>9 DEF Control

LEMMA StepControl ==
    ASSUME Control, NEW t \in Threads, Step(t)
    PROVE  Control'
  BY EnterControl, CheckControl, FetchControl, ScanControl, KeepControl,
     ServeControl, InvalidateControl, VerifyControl, OpenLockControl, AppendFrameControl,
     FoldControl, StartPassControl, ReadLogsControl, ReplaceControl,
     PopControl, WipeControl DEF Step

LEMMA NextControl ==
    ASSUME Control, [Next]_vars
    PROVE  Control'
  <1>1. ASSUME NEW t \in Threads, NEW k \in Keys,
               NEW life \in world.lifetimes[t], Stamp(t, k, life)
        PROVE  Control'
    BY <1>1, StampControl
  <1>2. ASSUME NEW t \in Threads, NEW op \in {"get", "delete"}, NEW k \in Keys,
               Begin(t, op, k)
        PROVE  Control'
    <2>1. op \in Ops \ {"set"}
      BY DEF Ops
    <2>. QED
      BY <1>2, <2>1, BeginControl
  <1>3. ASSUME NEW t \in Threads, NEW op \in Ops \ {"set", "get", "delete"},
               Begin(t, op, NoKey)
        PROVE  Control'
    BY <1>3, BeginControl
  <1>4. ASSUME NEW t \in Threads, Step(t) PROVE Control'
    BY <1>4, StepControl
  <1>5. ASSUME NEW i \in Instances, Crash(i) PROVE Control'
    BY <1>5, CrashControl
  <1>6. ASSUME NEW i \in Instances, Age(i) PROVE Control'
    <2>1. MemoryTyped'
      BY <1>6 DEF Age, Control, MemoryTyped
    <2>. QED
      BY <1>6, <2>1, StillControl DEF Age, history
  <1>7. CASE Tick
    BY <1>7, TickControl
  <1>8. CASE UNCHANGED vars
    <2>1. MemoryTyped'
      BY <1>8 DEF vars, memory, Control, MemoryTyped
    <2>. QED
      BY <1>8, <2>1, StillControl DEF vars, history
  <1>. QED
    BY <1>1, <1>2, <1>3, <1>4, <1>5, <1>6, <1>7, <1>8 DEF Next

THEOREM ControlHolds ==
    Spec => []Control
  <1>1. Init => Control
    BY InitControl
  <1>2. Control /\ [Next]_vars => Control'
    BY NextControl
  <1>. QED
    BY <1>1, <1>2, PTL DEF Spec

LEMMA ControlTypes ==
    ASSUME Control
    PROVE  TypeOK
  <1>1. \A w \in Writers : \A n \in DOMAIN log[w] : log[w][n] \in Frames
    BY ControlFacts, LogFacts
  <1>2. \A i \in Instances : DOMAIN sig[i] \subseteq Writers
    BY DEF Control, MemoryTyped, Sigs
  <1>3. ASSUME NEW i \in Instances, NEW t \in Threads
        PROVE  guard[i] = t <=> /\ InstanceOf[t] = i /\ pc[t] \notin Unguarded
                                /\ call[t].op \notin Batches
    <2>1. Located(t)
      BY CallFacts
    <2>2. guard[i] = t => InstanceOf[t] = i
      BY NoneAssumption DEF Control, CallsTyped
    <2>. QED
      BY <2>1, <2>2 DEF Located
  <1>4. ASSUME NEW t \in Threads
        PROVE  pc[t] = "idle" <=> call[t] = Resting
    <2>1. Working(t)
      BY CallFacts DEF Located
    <2>. QED
      BY <2>1, RestingFacts DEF Working, Rewriting, Ops, Passes, Batches
  <1>5. \A k \in Keys : best[k] # Missing =>
            best[k].writer \in Writers /\ best[k].frame \in Frames
    BY DEF Control, HistoryTyped
  <1>. QED
    BY <1>1, <1>2, <1>3, <1>4, <1>5
    DEF TypeOK, Control, DiskTyped, MemoryTyped, HistoryTyped

\* Every variable keeps its type, and self._lock is held by exactly the thread
\* that is inside a guarded operation, through retries, raised errors and the
\* death of a process (`with self._lock` in every operation of LogCache).
THEOREM TypeCorrect ==
    Spec => []TypeOK
  BY ControlHolds, ControlTypes, PTL

-----------------------------------------------------------------------------
\* The newest record of each key stands.
LEMMA StandFacts ==
    ASSUME Control, NEW k \in Keys, best[k] # Missing
    PROVE  /\ best[k].writer \in Writers /\ best[k].frame \in Frames
           /\ best[k].frame.time \in Nat /\ best[k].frame.dies \in Nat
           /\ Rank[best[k].writer] \in Nat
           /\ \A now \in Nat : LiveAt(best[k].frame, now) /\ clock <= now
                 => LiveAt(best[k].frame, clock)
  <1>1. best[k].writer \in Writers /\ best[k].frame \in Frames
    BY DEF Control, HistoryTyped
  <1>2. best[k].frame.time \in Nat /\ best[k].frame.dies \in Nat
    BY <1>1, FrameFacts
  <1>3. clock \in Nat
    BY BoundsAssumption DEF Control, DiskTyped
  <1>. QED
    BY <1>1, <1>2, <1>3, LogsAssumption DEF LiveAt

LEMMA OneLockFacts ==
    ASSUME OneLock, NEW t \in Threads, LockFree(t),
           pc[t] \in {"append", "read", "wipe"}
    PROVE  \A u \in Threads : pc[u] = "replace" => Own(u) # Own(t)
  BY DEF OneLock, LockFree, Flocked

\* Nothing happens to the logs, and no thread reads them.
LEMMA StillStanding ==
    ASSUME Control, Standing, UNCHANGED <<files, log, lock, best, split>>,
           clock' \in Nat, clock <= clock',
           \A u \in Threads : pc'[u] \in Flocked =>
               \/ pc[u] = pc'[u] /\ call'[u] = call[u]
               \/ pc'[u] # "replace" /\ call'[u].fd = lock[Own(u)]
    PROVE  Standing'
  <1>. SUFFICES ASSUME split' = {}
                PROVE  /\ OneLock' /\ \A t \in Threads : InHand(t)'
                       /\ \A k \in Keys : OnTop(k)'
    BY DEF Standing
  <1>1. OneLock /\ (\A t \in Threads : InHand(t)) /\ (\A k \in Keys : OnTop(k))
    BY DEF Standing
  <1>2. OneLock'
    BY <1>1 DEF OneLock, Flocked
  <1>3. \A k \in Keys : best[k] # Missing /\ LiveAt(best[k].frame, clock')
            => LiveAt(best[k].frame, clock)
    BY StandFacts
  <1>4. ASSUME NEW t \in Threads PROVE InHand(t)'
    BY <1>1, <1>3 DEF InHand, Flocked
  <1>5. ASSUME NEW k \in Keys PROVE OnTop(k)'
    <2>1. OnTop(k)
      BY <1>1
    <2>2. \A n \in Nat : Tops(k, n) => Tops(k, n)'
      BY DEF Tops
    <2>. QED
      BY <1>3, <2>1, <2>2 DEF OnTop
  <1>. QED
    BY <1>2, <1>4, <1>5

\* A step of t leaves the other threads where they are.
Elsewhere(t) ==
    \A u \in Threads \ {t} : pc'[u] = pc[u] /\ call'[u] = call[u]

LEMMA AsideStanding ==
    ASSUME Control, Standing, NEW t \in Threads, Elsewhere(t),
           UNCHANGED <<clock, disk, best, split>>,
           \/ pc'[t] \notin Flocked
           \/ pc'[t] # "replace" /\ call'[t].fd = lock[Own(t)]
    PROVE  Standing'
  <1>1. clock \in Nat /\ clock <= clock
    BY BoundsAssumption DEF Control, DiskTyped
  <1>. QED
    BY <1>1, StillStanding DEF Elsewhere, disk

LEMMA ReturnAside ==
    ASSUME Control, NEW t \in Threads, Return(t)
    PROVE  Elsewhere(t) /\ pc'[t] \notin Flocked
  BY DEF Return, Goto, Elsewhere, Flocked, Control, CallsTyped

LEMMA UseAside ==
    ASSUME Control, NEW t \in Threads, NEW ix, Use(t, ix)
    PROVE  Elsewhere(t) /\ pc'[t] \notin Flocked
  BY DEF Use, Goto, Elsewhere, Flocked, Control, CallsTyped

LEMMA BeginAside ==
    ASSUME Control, NEW t \in Threads,
           \/ \E k \in Keys, life \in world.lifetimes[t] : Stamp(t, k, life)
           \/ \E op \in Ops, k \in Keys \cup {NoKey} : Begin(t, op, k)
    PROVE  Elsewhere(t) /\ pc'[t] \in {"stamped", "check", "open", "pass"}
  <1>. USE DEF Goto, Elsewhere, Control, CallsTyped
  <1>1. CASE \E k \in Keys, life \in world.lifetimes[t] : Stamp(t, k, life)
    BY <1>1 DEF Stamp
  <1>2. CASE \E op \in Ops, k \in Keys \cup {NoKey} : Begin(t, op, k)
    <2>1. PICK op \in Ops, k \in Keys \cup {NoKey} : Begin(t, op, k)
      BY <1>2
    <2>2. PICK c : call' = [call EXCEPT ![t] = c]
      BY <2>1 DEF Begin
    <2>3. PICK l \in {"check", "open", "pass"} : Goto(t, l)
      BY <2>1 DEF Begin
    <2>. QED
      BY <2>2, <2>3
  <1>. QED
    BY <1>1, <1>2

LEMMA BeginStanding ==
    ASSUME Control, Standing, NEW t \in Threads,
           \/ \E k \in Keys, life \in world.lifetimes[t] : Stamp(t, k, life)
           \/ \E op \in Ops, k \in Keys \cup {NoKey} : Begin(t, op, k)
    PROVE  Standing'
  <1>1. Elsewhere(t) /\ pc'[t] \notin Flocked
    BY BeginAside DEF Flocked
  <1>2. UNCHANGED <<clock, disk, best, split>>
    BY DEF Stamp, Begin, history
  <1>. QED
    BY <1>1, <1>2, AsideStanding

LEMMA CallStanding ==
    ASSUME Control, Standing, NEW t \in Threads,
           \/ Enter(t) \/ Check(t) \/ Fetch(t) \/ Scan(t) \/ Keep(t)
           \/ Serve(t) \/ Invalidate(t) \/ Verify(t) \/ Fold(t) \/ Pop(t)
    PROVE  Standing'
  <1>1. Elsewhere(t) /\ pc'[t] \notin Flocked
    <2>. USE DEF Goto, Elsewhere, Flocked, Control, CallsTyped
    <2>1. CASE Enter(t)
      BY <2>1 DEF Enter
    <2>2. CASE Check(t)
      BY <2>2 DEF Check
    <2>3. CASE Scan(t)
      BY <2>3 DEF Scan
    <2>4. CASE Keep(t)
      BY <2>4, UseAside DEF Keep
    <2>5. CASE Serve(t)
      BY <2>5, ReturnAside DEF Serve
    <2>6. CASE Invalidate(t)
      BY <2>6 DEF Invalidate
    <2>7. CASE Verify(t)
      BY <2>7, ReturnAside DEF Verify
    <2>8. CASE Fold(t)
      BY <2>8, ReturnAside DEF Fold
    <2>9. CASE Pop(t)
      BY <2>9, ReturnAside DEF Pop
    <2>10. CASE Fetch(t)
      BY <2>10, UseAside, ReturnAside DEF Fetch
    <2>. QED
      BY <2>1, <2>2, <2>3, <2>4, <2>5, <2>6, <2>7, <2>8, <2>9, <2>10
  <1>2. UNCHANGED <<clock, disk, best, split>>
    BY DEF Enter, Check, Fetch, Scan, Keep, Serve, Invalidate, Verify, Fold, Pop,
           history
  <1>. QED
    BY <1>1, <1>2, AsideStanding

\* A thread that opens the lock file opens the one that is in place.
LEMMA OpenStanding ==
    ASSUME Control, Standing, NEW t \in Threads, OpenLock(t) \/ StartPass(t)
    PROVE  Standing'
  <1>1. UNCHANGED <<clock, disk, best, split>>
    BY DEF OpenLock, StartPass, history
  <1>2. CASE OpenLock(t)
    <2>1. /\ Elsewhere(t) /\ pc'[t] # "replace"
          /\ call'[t].fd = lock[Own(t)]
      BY <1>2, CallFacts DEF OpenLock, Goto, Elsewhere, Control, CallsTyped, Calls
    <2>. QED
      BY <1>1, <2>1, AsideStanding
  <1>3. CASE StartPass(t) /\ Return(t)
    BY <1>1, <1>3, ReturnAside, AsideStanding
  <1>4. CASE StartPass(t) /\ ~Return(t)
    <2>1. /\ Elsewhere(t) /\ pc'[t] # "replace"
          /\ call'[t].fd = lock[Own(t)]
      BY <1>4, CallFacts DEF StartPass, Goto, Elsewhere, Control, CallsTyped, Calls
    <2>. QED
      BY <1>1, <2>1, AsideStanding
  <1>. QED
    BY <1>2, <1>3, <1>4

-----------------------------------------------------------------------------
\* The log of w gets a frame f more.
Appends(w, f) ==
    /\ files' = files \cup {w}
    /\ log' = [log EXCEPT ![w] = Append(@, f)]

LEMMA AppendsFacts ==
    ASSUME Control, NEW w \in Writers, NEW f \in Frames, Appends(w, f)
    PROVE  /\ \A v \in files' : \A m \in DOMAIN log'[v] :
                 \/ /\ v \in files /\ m \in DOMAIN log[v]
                    /\ log'[v][m] = log[v][m]
                 \/ v = w /\ m = Len(log[w]) + 1 /\ log'[v][m] = f
           /\ \A v \in Writers : \A m \in DOMAIN log[v] :
                 /\ m \in DOMAIN log'[v] /\ log'[v][m] = log[v][m]
                 /\ v = w => m < Len(log[w]) + 1
           /\ Len(log[w]) + 1 \in DOMAIN log'[w] /\ Len(log[w]) + 1 \in Nat
           /\ log'[w][Len(log[w]) + 1] = f
           /\ \A v \in Writers \ {w} : log'[v] = log[v]
  <1>1. /\ log \in [Writers -> Seq(Frames)] /\ files \subseteq Writers
        /\ \A v \in Writers \ files : log[v] = <<>>
    BY DEF Control, DiskTyped
  <1>2. /\ log'[w] = Append(log[w], f)
        /\ \A v \in Writers \ {w} : log'[v] = log[v]
    BY <1>1 DEF Appends
  <1>3. log[w] \in Seq(Frames)
    BY <1>1
  <1>4. /\ Append(log[w], f) \in Seq(Frames)
        /\ Len(Append(log[w], f)) = Len(log[w]) + 1
        /\ Append(log[w], f)[Len(log[w]) + 1] = f
        /\ \A n \in 1 .. Len(log[w]) : Append(log[w], f)[n] = log[w][n]
    BY <1>3, AppendProperties
  <1>5. /\ Len(log[w]) \in Nat /\ DOMAIN log[w] = 1 .. Len(log[w])
        /\ DOMAIN log'[w] = 1 .. Len(log[w]) + 1
    BY <1>2, <1>3, <1>4, LenProperties
  <1>6. DOMAIN log[w] # {} => w \in files
    <2>1. DOMAIN <<>> = {}
      OBVIOUS
    <2>. QED
      BY <1>1, <2>1
  <1>7. ASSUME NEW v \in files', NEW m \in DOMAIN log'[v]
        PROVE  \/ /\ v \in files /\ m \in DOMAIN log[v]
                  /\ log'[v][m] = log[v][m]
               \/ v = w /\ m = Len(log[w]) + 1 /\ log'[v][m] = f
    <2>1. CASE v = w
      <3>1. m \in 1 .. Len(log[w]) \/ m = Len(log[w]) + 1
        BY <1>5, <2>1
      <3>. QED
        BY <1>2, <1>4, <1>5, <1>6, <2>1, <3>1
    <2>2. CASE v # w
      BY <1>1, <1>2, <2>2 DEF Appends
    <2>. QED
      BY <2>1, <2>2
  <1>8. ASSUME NEW v \in Writers, NEW m \in DOMAIN log[v]
        PROVE  /\ m \in DOMAIN log'[v] /\ log'[v][m] = log[v][m]
               /\ v = w => m < Len(log[w]) + 1
    BY <1>2, <1>4, <1>5
  <1>9. Len(log[w]) + 1 \in DOMAIN log'[w] /\ Len(log[w]) + 1 \in Nat
    BY <1>5
  <1>. QED
    BY <1>2, <1>4, <1>7, <1>8, <1>9

\* A rewrite under way in another log is not disturbed by that.
LEMMA AppendsInHand ==
    ASSUME Control, NEW w \in Writers, NEW f \in Frames, Appends(w, f),
           NEW u \in Threads, InHand(u), Own(u) # w, clock' = clock,
           pc'[u] = "replace" => pc[u] = "replace" /\ call'[u] = call[u],
           \A k \in Keys : best'[k] # best[k] => best'[k].writer = w
    PROVE  InHand(u)'
  <1>1. log'[Own(u)] = log[Own(u)]
    BY AppendsFacts, CallFacts
  <1>. QED
    BY <1>1 DEF InHand

\* A key whose best record does not change stays on top, if the frame is of
\* another key or comes before a record that is on disk.
LEMMA AppendsOnTop ==
    ASSUME Control, NEW w \in Writers, NEW f \in Frames, Appends(w, f),
           NEW k \in Keys, OnTop(k), best'[k] = best[k], clock' = clock,
           f.key = k =>
               \E v \in files : \E m \in DOMAIN log[v] :
                   /\ log[v][m].key = k
                   /\ \/ log[v][m].time > f.time
                      \/ log[v][m].time = f.time /\ Rank[v] > Rank[w]
    PROVE  OnTop(k)'
  <1>. SUFFICES ASSUME best[k] # Missing, LiveAt(best[k].frame, clock)
                PROVE  /\ best[k].frame.key = k
                       /\ \E n \in Nat : Tops(k, n)'
    BY DEF OnTop
  <1>. DEFINE b == best[k].frame
              x == best[k].writer
  <1>1. PICK n \in Nat : Tops(k, n)
    BY DEF OnTop
  <1>2. x \in Writers /\ b.time \in Nat /\ Rank[x] \in Nat
    BY StandFacts
  <1>3. n \in DOMAIN log'[x] /\ log'[x][n] = b
    BY <1>1, <1>2, AppendsFacts DEF Tops
  <1>4. ASSUME NEW v \in files', NEW m \in DOMAIN log'[v],
               log'[v][m].key = k, v = x => m # n
        PROVE  \/ b.time > log'[v][m].time
               \/ /\ b.time = log'[v][m].time
                  /\ Rank[x] > Rank[v] \/ (v = x /\ n > m)
    <2>1. CASE /\ v \in files /\ m \in DOMAIN log[v]
               /\ log'[v][m] = log[v][m]
      BY <1>1, <1>4, <2>1 DEF Tops
    <2>2. CASE v = w /\ m = Len(log[w]) + 1 /\ log'[v][m] = f
      <3>1. PICK y \in files : \E z \in DOMAIN log[y] :
                   /\ log[y][z].key = k
                   /\ \/ log[y][z].time > f.time
                      \/ log[y][z].time = f.time /\ Rank[y] > Rank[w]
        BY <1>4, <2>2
      <3>2. PICK z \in DOMAIN log[y] :
                   /\ log[y][z].key = k
                   /\ \/ log[y][z].time > f.time
                      \/ log[y][z].time = f.time /\ Rank[y] > Rank[w]
        BY <3>1
      <3>3. y \in Writers /\ log[y][z] \in Frames
        BY ControlFacts, LogFacts DEF Control, DiskTyped
      <3>4. /\ log[y][z].time \in Nat /\ f.time \in Nat
            /\ Rank[y] \in Nat /\ Rank[w] \in Nat
        BY <3>3, FrameFacts, LogsAssumption
      <3>. DEFINE late == log[y][z].time
      <3>5. \/ b.time > late
            \/ b.time = late /\ (Rank[x] > Rank[y] \/ y = x)
        <4>1. CASE y = x /\ z = n
          <5>1. log[x][n] = b
            BY <1>1 DEF Tops
          <5>. QED
            BY <4>1, <5>1
        <4>2. CASE ~(y = x /\ z = n)
          BY <1>1, <3>2, <4>2 DEF Tops
        <4>. QED
          BY <4>1, <4>2
      <3>6. late > f.time \/ (late = f.time /\ Rank[y] > Rank[w])
        BY <3>2
      <3>. HIDE DEF late
      <3>7. \/ b.time > f.time
            \/ b.time = f.time /\ Rank[x] > Rank[w]
        <4>1. late \in Nat
          BY <3>4 DEF late
        <4>2. PICK p \in Nat, q \in Nat, r \in Nat :
                  p = Rank[x] /\ q = Rank[y] /\ r = Rank[w]
          BY <1>2, <3>4
        <4>3. \/ b.time > late
              \/ b.time = late /\ p >= q
          BY <3>5, <4>2
        <4>4. late > f.time \/ (late = f.time /\ q > r)
          BY <3>6, <4>2
        <4>5. \/ b.time > f.time
              \/ b.time = f.time /\ p > r
          BY <1>2, <3>4, <4>1, <4>3, <4>4
        <4>. QED
          BY <4>2, <4>5
      <3>. QED
        BY <2>2, <3>7
    <2>. QED
      BY <2>1, <2>2, AppendsFacts
  <1>5. Tops(k, n)'
    BY <1>3, <1>4 DEF Tops
  <1>. QED
    BY <1>5 DEF OnTop

LEMMA AppendFrameStanding ==
    ASSUME Control, Standing, NEW t \in Threads, AppendFrame(t)
    PROVE  Standing'
  <1>. DEFINE w == Own(t)
              f == Made(t)
              k == f.key
              wins == \A a \in Locations(files, f.key) :
                         \/ f.time > FrameAt(a).time
                         \/ /\ f.time = FrameAt(a).time
                            /\ Rank[w] >= Rank[a.log]
  <1>. SUFFICES ASSUME split' = {}
                PROVE  /\ OneLock' /\ \A u \in Threads : InHand(u)'
                       /\ \A j \in Keys : OnTop(j)'
    BY DEF Standing
  <1>1. /\ f \in Frames /\ k \in Keys /\ w \in Writers
    BY AppendFrameFacts, CallFacts
  <1>2. /\ Appends(w, f) /\ LockFree(t) /\ pc[t] = "append"
        /\ UNCHANGED <<clock, lock, split>>
        /\ best' = IF wins THEN [best EXCEPT ![k] = [writer |-> w, frame |-> f]]
                   ELSE best
    BY DEF AppendFrame, Appends, Made
  <1>3. Elsewhere(t) /\ pc'[t] = "fold"
    BY DEF AppendFrame, Goto, Elsewhere, Control, CallsTyped
  <1>4. OneLock /\ (\A u \in Threads : InHand(u)) /\ (\A j \in Keys : OnTop(j))
    BY <1>2 DEF Standing
  <1>. HIDE DEF f, wins
  <1>5. OneLock'
    BY <1>2, <1>3, <1>4 DEF OneLock, Flocked, Elsewhere
  <1>6. \A j \in Keys \ {k} : best'[j] = best[j]
    BY <1>1, <1>2 DEF Control, HistoryTyped
  <1>7. wins => best'[k] = [writer |-> w, frame |-> f]
    BY <1>1, <1>2 DEF Control, HistoryTyped
  <1>8. ASSUME NEW u \in Threads PROVE InHand(u)'
    <2>1. CASE pc'[u] # "replace"
      BY <2>1 DEF InHand
    <2>2. CASE pc'[u] = "replace"
      <3>1. pc[u] = "replace" /\ call'[u] = call[u]
        BY <1>3, <2>2 DEF Elsewhere
      <3>2. Own(u) # w
        BY <1>2, <1>4, <3>1, OneLockFacts
      <3>3. \A j \in Keys : best'[j] # best[j] => best'[j].writer = w
        BY <1>2, <1>6, <1>7
      <3>. QED
        BY <1>1, <1>2, <1>4, <3>1, <3>2, <3>3, AppendsInHand
    <2>. QED
      BY <2>1, <2>2
  <1>9. ASSUME NEW j \in Keys, j # k PROVE OnTop(j)'
    BY <1>1, <1>2, <1>4, <1>6, <1>9, AppendsOnTop
  <1>10. LogsTyped /\ files \in SUBSET Writers
    BY ControlFacts DEF Control, DiskTyped
  <1>11. ASSUME NEW j \in Keys, j = k, ~wins PROVE OnTop(j)'
    <2>1. PICK a \in Locations(files, j) :
               ~ \/ f.time > FrameAt(a).time
                 \/ f.time = FrameAt(a).time /\ Rank[w] >= Rank[a.log]
      BY <1>11 DEF wins
    <2>2. a \in Spots /\ a.log \in files /\ FrameAt(a).key = j
      BY <1>10, LocationFacts
    <2>3. /\ a.at \in DOMAIN log[a.log] /\ FrameAt(a) = log[a.log][a.at]
          /\ FrameAt(a).time \in Nat /\ Rank[a.log] \in Nat
          /\ f.time \in Nat /\ Rank[w] \in Nat
      BY <1>1, <1>10, <2>2, SpotFacts, FrameFacts, LogsAssumption DEF FrameAt
    <2>4. \/ log[a.log][a.at].time > f.time
          \/ log[a.log][a.at].time = f.time /\ Rank[a.log] > Rank[w]
      BY <2>1, <2>3
    <2>5. \E v \in files : \E m \in DOMAIN log[v] :
             /\ log[v][m].key = j
             /\ \/ log[v][m].time > f.time
                \/ log[v][m].time = f.time /\ Rank[v] > Rank[w]
      BY <2>2, <2>3, <2>4
    <2>6. best'[j] = best[j] /\ OnTop(j)
      BY <1>2, <1>4, <1>11
    <2>. QED
      BY <1>1, <1>2, <2>5, <2>6, AppendsOnTop
  <1>12. ASSUME NEW j \in Keys, j = k, wins PROVE OnTop(j)'
    <2>1. PICK n \in Nat : n = Len(log[w]) + 1
      BY <1>1, <1>2, AppendsFacts
    <2>2. /\ best'[j].writer = w /\ best'[j].frame = f
          /\ n \in DOMAIN log'[w] /\ log'[w][n] = f
      BY <1>1, <1>2, <1>7, <1>12, <2>1, AppendsFacts
    <2>3. ASSUME NEW v \in files', NEW m \in DOMAIN log'[v],
                 log'[v][m].key = j, v = w => m # n
          PROVE  \/ f.time > log'[v][m].time
                 \/ /\ f.time = log'[v][m].time
                    /\ Rank[w] > Rank[v] \/ (v = w /\ n > m)
      <3>1. v \in files /\ m \in DOMAIN log[v] /\ log'[v][m] = log[v][m]
        BY <1>1, <1>2, <2>1, <2>3, AppendsFacts
      <3>. DEFINE a == [log |-> v, at |-> m]
      <3>2. a \in Spots /\ FrameAt(a) = log[v][m]
        BY <1>10, <3>1, LogFacts DEF FrameAt
      <3>3. a \in Locations(files, j)
        BY <1>10, <2>3, <3>1, <3>2, LocationFacts
      <3>4. \/ f.time > log[v][m].time
            \/ f.time = log[v][m].time /\ Rank[w] >= Rank[v]
        BY <1>12, <3>2, <3>3 DEF wins
      <3>5. v \in Writers /\ Rank[v] \in Nat /\ Rank[w] \in Nat
            /\ (Rank[v] = Rank[w] => v = w)
        BY <1>1, <1>10, <3>1, LogsAssumption DEF IsInjective
      <3>6. v = w => n > m
        BY <1>1, <1>2, <2>1, <3>1, <3>5, AppendsFacts, LogFacts, <1>10
      <3>7. Rank[w] >= Rank[v] => Rank[w] > Rank[v] \/ (v = w /\ n > m)
        <4>1. PICK p \in Nat, q \in Nat : p = Rank[w] /\ q = Rank[v]
          BY <3>5
        <4>2. p >= q => p > q \/ p = q
          OBVIOUS
        <4>. QED
          BY <3>5, <3>6, <4>1, <4>2
      <3>. QED
        BY <3>1, <3>4, <3>7
    <2>4. Tops(j, n)'
      BY <2>2, <2>3 DEF Tops
    <2>5. best'[j].frame.key = j
      BY <1>12, <2>2
    <2>. QED
      BY <2>4, <2>5 DEF OnTop
  <1>13. ASSUME NEW j \in Keys PROVE OnTop(j)'
    BY <1>9, <1>11, <1>12
  <1>. QED
    BY <1>5, <1>8, <1>13

-----------------------------------------------------------------------------
\* A best record that is live is the winner of its key in its own log, and
\* among all logs.
LEMMA OnTopWins ==
    ASSUME Control, NEW k \in Keys, OnTop(k), best[k] # Missing,
           LiveAt(best[k].frame, clock),
           NEW W \in SUBSET files, best[k].writer \in W
    PROVE  \E a \in Spots : /\ a \in Winners(W) /\ a = Winner(Locations(W, k))
                            /\ Locations(W, k) # {} /\ a.log = best[k].writer
                            /\ FrameAt(a) = best[k].frame
  <1>. DEFINE w == best[k].writer
              S == Locations(W, k)
  <1>1. PICK n \in Nat : Tops(k, n)
    BY DEF OnTop
  <1>. DEFINE a == [log |-> w, at |-> n]
  <1>2. /\ LogsTyped /\ files \in SUBSET Writers /\ W \in SUBSET Writers
        /\ w \in Writers
    BY ControlFacts, StandFacts DEF Control, DiskTyped
  <1>3. n \in DOMAIN log[w] /\ log[w][n] = best[k].frame
    BY <1>1 DEF Tops
  <1>4. a \in Spots /\ FrameAt(a) = best[k].frame
    BY <1>2, <1>3, LogFacts DEF FrameAt
  <1>5. a \in S /\ S \in SUBSET Spots
    BY <1>2, <1>4, LocationFacts DEF OnTop
  <1>6. ASSUME NEW b \in S \ {a} PROVE After(a, b)
    <2>1. /\ b \in Spots /\ b.log \in files /\ FrameAt(b).key = k
          /\ b.at \in DOMAIN log[b.log] /\ b = [log |-> b.log, at |-> b.at]
      BY <1>2, LocationFacts, SpotFacts
    <2>2. b.log = w => b.at # n
      BY <2>1
    <2>3. \/ best[k].frame.time > log[b.log][b.at].time
          \/ /\ best[k].frame.time = log[b.log][b.at].time
             /\ Rank[w] > Rank[b.log] \/ (b.log = w /\ n > b.at)
      BY <1>1, <2>1, <2>2 DEF Tops, FrameAt
    <2>. QED
      BY <1>3, <2>3 DEF After, FrameAt
  <1>7. a = Winner(S)
    BY <1>2, <1>5, <1>6, WinnerFacts
  <1>8. a \in Winners(W)
    BY <1>2, <1>5, <1>7, WinnersFacts
  <1>. QED
    BY <1>4, <1>5, <1>7, <1>8

\* A log that holds the best record of a key exists.
LEMMA OnTopExists ==
    ASSUME Control, NEW k \in Keys, OnTop(k), best[k] # Missing,
           LiveAt(best[k].frame, clock)
    PROVE  best[k].writer \in files
  <1>1. PICK n \in Nat : Tops(k, n)
    BY DEF OnTop
  <1>2. n \in DOMAIN log[best[k].writer]
    BY <1>1 DEF Tops
  <1>3. DOMAIN <<>> = {}
    OBVIOUS
  <1>. QED
    BY <1>2, <1>3, StandFacts DEF Control, DiskTyped

LEMMA ReadLogsStanding ==
    ASSUME Control, Standing, NEW t \in Threads, ReadLogs(t)
    PROVE  Standing'
  <1>. DEFINE w == Own(t)
              hand == Kept(w, call[t].pass, call[t].now)
              W == Seen(w, call[t].pass)
  <1>1. /\ UNCHANGED <<clock, files, log, lock, best, split>>
        /\ pc[t] = "read" /\ LockFree(t)
    BY DEF ReadLogs, disk, history
  <1>2. CASE Return(t)
    BY <1>1, <1>2, ReturnAside, AsideStanding DEF disk
  <1>3. CASE ~Return(t)
    <2>1. /\ Elsewhere(t) /\ pc'[t] = "replace" /\ call'[t].hand = hand
          /\ call'[t].fd = call[t].fd
          /\ call[t].pass = "compact" => w \in files
      BY <1>3, CallFacts DEF ReadLogs, Goto, Elsewhere, Control, CallsTyped, Calls
    <2>. HIDE DEF hand
    <2>2. SUFFICES ASSUME split' = {}
                   PROVE  /\ OneLock' /\ \A u \in Threads : InHand(u)'
                          /\ \A j \in Keys : OnTop(j)'
      BY DEF Standing
    <2>3. OneLock /\ (\A u \in Threads : InHand(u)) /\ (\A j \in Keys : OnTop(j))
      BY <1>1, <2>2 DEF Standing
    <2>4. \A u \in Threads \ {t} : pc[u] = "replace" => Own(u) # w
      BY <1>1, <2>3, OneLockFacts
    <2>5. OneLock'
      BY <1>1, <2>1, <2>3, <2>4 DEF OneLock, Flocked, Elsewhere
    <2>6. ASSUME NEW j \in Keys PROVE OnTop(j)'
      <3>1. OnTop(j)
        BY <2>3
      <3>2. \A n \in Nat : Tops(j, n) => Tops(j, n)'
        BY <1>1 DEF Tops
      <3>. QED
        BY <1>1, <3>1, <3>2 DEF OnTop
    <2>7. ASSUME NEW u \in Threads, u # t PROVE InHand(u)'
      BY <1>1, <2>1, <2>3, <2>7 DEF InHand, Elsewhere
    <2>8. /\ LogsTyped /\ files \in SUBSET Writers /\ w \in Writers
          /\ call[t].now <= clock /\ call[t].now \in Nat /\ clock \in Nat
      BY ControlFacts, CallFacts, BoundsAssumption
      DEF Control, DiskTyped, Located
    <2>9. /\ hand \in Seq(Frames) /\ Range(hand) \subseteq Range(log[w])
          /\ \A m, n \in DOMAIN hand : hand[m].key = hand[n].key => m = n
          /\ \A a \in Winners(W) : a.log = w /\ LiveAt(FrameAt(a), call[t].now)
                => FrameAt(a) \in Range(hand)
      <3>1. hand = Kept(w, call[t].pass, call[t].now)
        BY DEF hand
      <3>. QED
        BY <2>8, <3>1, KeptFacts
    <2>10. ASSUME NEW k \in Keys, best[k] # Missing, best[k].writer = w,
                  LiveAt(best[k].frame, clock)
           PROVE  best[k].frame \in Range(hand)
      <3>1. w \in files
        BY <2>3, <2>10, OnTopExists
      <3>2. W \in SUBSET files /\ w \in W
        BY <3>1 DEF Seen
      <3>. HIDE DEF W
      <3>3. PICK a \in Spots : /\ a \in Winners(W) /\ a.log = w
                               /\ FrameAt(a) = best[k].frame
        BY <2>3, <2>10, <3>2, OnTopWins
      <3>4. LiveAt(best[k].frame, call[t].now)
        BY <2>8, <2>10, StandFacts DEF LiveAt
      <3>. QED
        BY <2>9, <3>3, <3>4
    <2>11. InHand(t)'
      BY <1>1, <2>1, <2>9, <2>10 DEF InHand
    <2>12. ASSUME NEW u \in Threads PROVE InHand(u)'
      BY <2>7, <2>11
    <2>. QED
      BY <2>5, <2>6, <2>12
  <1>. QED
    BY <1>2, <1>3

LEMMA ReplaceStanding ==
    ASSUME Control, Standing, NEW t \in Threads, Replace(t)
    PROVE  Standing'
  <1>. DEFINE w == Own(t)
              hand == call[t].hand
  <1>. SUFFICES ASSUME split' = {}
                PROVE  /\ OneLock' /\ \A u \in Threads : InHand(u)'
                       /\ \A j \in Keys : OnTop(j)'
    BY DEF Standing
  <1>1. /\ UNCHANGED <<clock, lock, best, split, call>> /\ pc[t] = "replace"
        /\ Elsewhere(t) /\ pc'[t] = "pop"
    BY DEF Replace, Goto, Elsewhere, history, Control, CallsTyped
  <1>2. OneLock /\ (\A u \in Threads : InHand(u)) /\ (\A j \in Keys : OnTop(j))
    BY <1>1 DEF Standing
  <1>3. /\ log'[w] = hand /\ w \in Writers
        /\ \A v \in Writers \ {w} : log'[v] = log[v]
        /\ \A v \in files' : v # w => v \in files
        /\ files' \subseteq Writers
        /\ hand \in Seq(Frames)
    BY CallFacts DEF Replace, Control, DiskTyped
  <1>4. /\ Range(hand) \subseteq Range(log[w])
        /\ \A m, n \in DOMAIN hand : hand[m].key = hand[n].key => m = n
        /\ \A k \in Keys : best[k] # Missing /\ best[k].writer = w
               /\ LiveAt(best[k].frame, clock) => best[k].frame \in Range(hand)
    BY <1>1, <1>2 DEF InHand
  <1>5. OneLock'
    BY <1>1, <1>2 DEF OneLock, Flocked, Elsewhere
  <1>6. ASSUME NEW u \in Threads PROVE InHand(u)'
    <2>1. CASE pc'[u] # "replace"
      BY <2>1 DEF InHand
    <2>2. CASE pc'[u] = "replace"
      <3>1. pc[u] = "replace" /\ u # t
        BY <1>1, <2>2 DEF Elsewhere
      <3>2. Own(u) # w /\ Own(u) \in Writers
        BY <1>1, <1>2, <3>1, CallFacts DEF OneLock
      <3>3. log'[Own(u)] = log[Own(u)]
        BY <1>3, <3>2
      <3>. QED
        BY <1>1, <1>2, <3>1, <3>3 DEF InHand
    <2>. QED
      BY <2>1, <2>2
  <1>7. DOMAIN log[w] # {} => w \in files
    <2>1. DOMAIN <<>> = {}
      OBVIOUS
    <2>. QED
      BY <1>3, <2>1 DEF Control, DiskTyped
  <1>8. ASSUME NEW k \in Keys PROVE OnTop(k)'
    <2>. SUFFICES ASSUME best[k] # Missing, LiveAt(best[k].frame, clock)
                  PROVE  /\ best[k].frame.key = k
                         /\ \E n \in Nat : Tops(k, n)'
      BY <1>1 DEF OnTop
    <2>. DEFINE b == best[k].frame
                x == best[k].writer
    <2>1. PICK n \in Nat : Tops(k, n)
      BY <1>2 DEF OnTop
    <2>2. b.key = k
      BY <1>2 DEF OnTop
    <2>3. /\ n \in DOMAIN log[x] /\ log[x][n] = b
          /\ x \in Writers /\ b.time \in Nat /\ Rank[x] \in Nat
      BY <2>1, StandFacts DEF Tops
    \* The records of the other logs are where they were.
    <2>4. ASSUME NEW v \in files, NEW m \in DOMAIN log[v], v # x,
                 log[v][m].key = k
          PROVE  \/ b.time > log[v][m].time
                 \/ b.time = log[v][m].time /\ Rank[x] > Rank[v]
      BY <2>1, <2>4 DEF Tops
    <2>5. CASE x = w
      <3>1. PICK p \in DOMAIN hand : hand[p] = b
        BY <1>4, <2>5 DEF Range
      <3>2. p \in Nat
        BY <1>3, <3>1
      <3>3. p \in DOMAIN log'[x] /\ log'[x][p] = b
        BY <1>3, <2>5, <3>1
      <3>4. ASSUME NEW v \in files', NEW m \in DOMAIN log'[v],
                   log'[v][m].key = k, v = x => m # p
            PROVE  \/ b.time > log'[v][m].time
                   \/ b.time = log'[v][m].time /\ Rank[x] > Rank[v]
        <4>1. v # x
          BY <1>3, <1>4, <2>2, <2>5, <3>1, <3>4
        <4>2. v \in files /\ log'[v] = log[v]
          BY <1>3, <2>5, <4>1
        <4>. QED
          BY <2>4, <3>4, <4>1, <4>2
      <3>5. Tops(k, p)'
        BY <1>1, <3>3, <3>4 DEF Tops
      <3>. QED
        BY <2>2, <3>2, <3>5
    <2>6. CASE x # w
      <3>1. n \in DOMAIN log'[x] /\ log'[x][n] = b
        BY <1>3, <2>3, <2>6
      <3>2. ASSUME NEW v \in files', NEW m \in DOMAIN log'[v],
                   log'[v][m].key = k, v = x => m # n
            PROVE  \/ b.time > log'[v][m].time
                   \/ /\ b.time = log'[v][m].time
                      /\ Rank[x] > Rank[v] \/ (v = x /\ n > m)
        <4>1. CASE v = w
          <5>1. PICK p \in DOMAIN log[w] : log[w][p] = log'[v][m]
            <6>1. log'[v] = hand
              BY <1>3, <4>1
            <6>2. m \in DOMAIN hand /\ log'[v][m] = hand[m]
              BY <6>1
            <6>3. hand[m] \in Range(hand)
              BY <6>2 DEF Range
            <6>4. hand[m] \in Range(log[w])
              BY <1>4, <6>3
            <6>. QED
              BY <6>2, <6>4 DEF Range
          <5>2. w \in files
            BY <1>7, <5>1
          <5>3. \/ b.time > log[w][p].time
                \/ b.time = log[w][p].time /\ Rank[x] > Rank[w]
            BY <2>4, <2>6, <3>2, <5>1, <5>2
          <5>4. log'[v][m] = log[w][p] /\ Rank[v] = Rank[w]
            BY <4>1, <5>1
          <5>. QED
            BY <5>3, <5>4
        <4>2. CASE v # w
          <5>1. v \in files /\ log'[v] = log[v]
            BY <1>3, <4>2
          <5>. QED
            BY <2>1, <3>2, <5>1 DEF Tops
        <4>. QED
          BY <4>1, <4>2
      <3>3. Tops(k, n)'
        BY <1>1, <3>1, <3>2 DEF Tops
      <3>. QED
        BY <2>2, <3>3
    <2>. QED
      BY <2>5, <2>6
  <1>. QED
    BY <1>5, <1>6, <1>8

LEMMA WipeStanding ==
    ASSUME Control, Standing, NEW t \in Threads, Wipe(t)
    PROVE  Standing'
  <1>. DEFINE w == Own(t)
              left(k) == Locations(files \ {w}, k)
  <1>. SUFFICES ASSUME split' = {}
                PROVE  /\ OneLock' /\ \A u \in Threads : InHand(u)'
                       /\ \A j \in Keys : OnTop(j)'
    BY DEF Standing
  <1>1. /\ clock' = clock /\ files' = files \ {w} /\ w \in Writers
        /\ \A v \in Writers \ {w} : log'[v] = log[v] /\ lock'[v] = lock[v]
        /\ split = {} /\ LockFree(t) /\ pc[t] = "wipe"
    BY WipeFacts DEF Wipe
  <1>2. OneLock /\ (\A u \in Threads : InHand(u)) /\ (\A j \in Keys : OnTop(j))
    BY <1>1 DEF Standing
  <1>3. Elsewhere(t) /\ pc'[t] \notin Flocked
    BY ReturnAside DEF Wipe
  <1>4. ASSUME NEW u \in Threads \ {t}, pc[u] \in Flocked
        PROVE  Own(u) # w /\ Own(u) \in Writers
    <2>1. ~Waiting(u, w)
      <3>1. \A x \in Threads \ {t} : ~Waiting(x, w)
        BY DEF Wipe
      <3>. QED
        BY <3>1
    <2>2. pc[u] # "replace" => Own(u) # w
      BY <1>2, <1>4, <2>1 DEF Waiting, OneLock, Flocked
    <2>3. pc[u] = "replace" => Own(u) # w
      BY <1>1, <1>2, OneLockFacts
    <2>. QED
      BY <2>2, <2>3, CallFacts
  <1>5. OneLock'
    BY <1>1, <1>2, <1>3, <1>4 DEF OneLock, Flocked, Elsewhere
  <1>6. \A k \in Keys :
            best'[k] = IF best[k] = Missing \/ best[k].writer # w THEN best[k]
                       ELSE IF left(k) = {} \/ LeftOut(Winner(left(k)))
                            THEN Missing
                       ELSE [writer |-> Winner(left(k)).log,
                             frame |-> FrameAt(Winner(left(k)))]
    BY DEF Wipe
  <1>7. ASSUME NEW k \in Keys, best'[k] # Missing
        PROVE  \/ best'[k] = best[k] /\ best[k].writer # w
               \/ \E a \in left(k) : /\ a = Winner(left(k)) /\ ~LeftOut(a)
                                     /\ best'[k].writer = a.log
                                     /\ best'[k].frame = FrameAt(a)
    <2>1. CASE best[k] = Missing \/ best[k].writer # w
      BY <1>6, <1>7, <2>1
    <2>2. CASE ~(best[k] = Missing \/ best[k].writer # w)
      <3>1. left(k) # {} /\ ~LeftOut(Winner(left(k)))
        BY <1>6, <1>7, <2>2
      <3>2. best'[k] = [writer |-> Winner(left(k)).log,
                        frame |-> FrameAt(Winner(left(k)))]
        BY <1>6, <2>2, <3>1
      <3>3. LogsTyped /\ files \ {w} \in SUBSET Writers
        BY ControlFacts DEF Control, DiskTyped
      <3>4. Winner(left(k)) \in left(k)
        BY <3>1, <3>3, LocationFacts, WinnerFacts
      <3>. QED
        BY <3>1, <3>2, <3>4
    <2>. QED
      BY <2>1, <2>2
  <1>. HIDE DEF left
  <1>8. ASSUME NEW u \in Threads PROVE InHand(u)'
    <2>1. CASE pc'[u] # "replace"
      BY <2>1 DEF InHand
    <2>2. CASE pc'[u] = "replace"
      <3>1. /\ pc[u] = "replace" /\ call'[u] = call[u] /\ u # t
            /\ Own(u) # w /\ Own(u) \in Writers
        BY <1>3, <1>4, <2>2 DEF Elsewhere, Flocked
      <3>2. log'[Own(u)] = log[Own(u)]
        BY <1>1, <3>1
      <3>3. InHand(u)
        BY <1>2
      <3>4. ASSUME NEW k \in Keys, best'[k] # Missing, best'[k].writer = Own(u),
                   LiveAt(best'[k].frame, clock)
            PROVE  best'[k].frame \in Range(call[u].hand)
        <4>1. CASE best'[k] = best[k]
          BY <3>1, <3>3, <3>4, <4>1 DEF InHand
        <4>2. CASE best'[k] # best[k]
          <5>1. PICK a \in left(k) : /\ ~LeftOut(a) /\ best'[k].writer = a.log
                                     /\ best'[k].frame = FrameAt(a)
            BY <1>7, <3>4, <4>2
          <5>. QED
            BY <3>1, <3>4, <5>1 DEF LeftOut
        <4>. QED
          BY <4>1, <4>2
      <3>. QED
        BY <1>1, <3>1, <3>2, <3>3, <3>4 DEF InHand
    <2>. QED
      BY <2>1, <2>2
  <1>9. ASSUME NEW k \in Keys PROVE OnTop(k)'
    <2>. SUFFICES ASSUME best'[k] # Missing, LiveAt(best'[k].frame, clock)
                  PROVE  /\ best'[k].frame.key = k
                         /\ \E n \in Nat : Tops(k, n)'
      BY <1>1 DEF OnTop
    <2>1. CASE best'[k] = best[k] /\ best[k].writer # w
      <3>1. OnTop(k) /\ best[k] # Missing /\ LiveAt(best[k].frame, clock)
        BY <1>2, <2>1
      <3>2. PICK n \in Nat : Tops(k, n)
        BY <3>1 DEF OnTop
      <3>3. log'[best[k].writer] = log[best[k].writer]
        BY <1>1, <2>1, <3>1, StandFacts
      <3>4. \A v \in files' : v \in files /\ log'[v] = log[v]
        BY <1>1 DEF Control, DiskTyped
      <3>5. Tops(k, n)'
        BY <2>1, <3>2, <3>3, <3>4 DEF Tops
      <3>. QED
        BY <2>1, <3>1, <3>5 DEF OnTop
    <2>2. CASE ~(best'[k] = best[k] /\ best[k].writer # w)
      <3>1. PICK a \in left(k) : /\ a = Winner(left(k))
                                 /\ best'[k].writer = a.log
                                 /\ best'[k].frame = FrameAt(a)
        BY <1>7, <2>2
      <3>2. LogsTyped /\ files \ {w} \in SUBSET Writers
        BY ControlFacts DEF Control, DiskTyped
      <3>3. left(k) \in SUBSET Spots
        BY <3>2, LocationFacts DEF left
      <3>4. /\ a \in Spots /\ a.log \in files \ {w} /\ FrameAt(a).key = k
        BY <3>1, <3>2, LocationFacts DEF left
      <3>5. \A b \in left(k) \ {a} : After(a, b)
        BY <3>1, <3>2, <3>3, WinnerFacts
      <3>6. PICK n \in Nat : n = a.at
        BY <3>2, <3>4, SpotFacts
      <3>7. /\ n \in DOMAIN log[a.log] /\ a = [log |-> a.log, at |-> n]
            /\ log'[a.log] = log[a.log] /\ FrameAt(a) = log[a.log][n]
        BY <1>1, <3>2, <3>4, <3>6, SpotFacts DEF FrameAt
      <3>8. ASSUME NEW v \in files', NEW m \in DOMAIN log'[v],
                   log'[v][m].key = k, v = a.log => m # n
            PROVE  \/ FrameAt(a).time > log'[v][m].time
                   \/ /\ FrameAt(a).time = log'[v][m].time
                      /\ Rank[a.log] > Rank[v] \/ (v = a.log /\ n > m)
        <4>1. /\ v \in files \ {w} /\ v \in Writers /\ log'[v] = log[v]
              /\ m \in DOMAIN log[v]
          BY <1>1, <3>2, <3>8
        <4>. DEFINE b == [log |-> v, at |-> m]
        <4>2. b \in Spots /\ FrameAt(b) = log[v][m]
          BY <3>2, <4>1, LogFacts DEF FrameAt
        <4>3. b \in left(k) /\ b # a
          BY <3>2, <3>7, <3>8, <4>1, <4>2, LocationFacts DEF left
        <4>4. After(a, b)
          BY <3>5, <4>3
        <4>. QED
          BY <3>6, <4>1, <4>2, <4>4 DEF After
      <3>9. Tops(k, n)'
        BY <3>1, <3>7, <3>8 DEF Tops
      <3>. QED
        BY <3>1, <3>4, <3>9
    <2>. QED
      BY <2>1, <2>2
  <1>. QED
    BY <1>5, <1>8, <1>9

LEMMA CrashStanding ==
    ASSUME Control, Standing, NEW i \in Instances, Crash(i)
    PROVE  Standing'
  <1>. DEFINE w == WriterOf[i]
  <1>1. /\ UNCHANGED <<clock, lock, best, split>> /\ w \in Writers
        /\ clock \in Nat /\ clock <= clock
    <2>1. clock \in Nat
      BY BoundsAssumption DEF Control, DiskTyped
    <2>2. clock <= clock
      BY <2>1
    <2>. QED
      BY <2>1, <2>2, CrashFacts
  <1>2. \A u \in Threads : \/ pc'[u] = "idle" /\ InstanceOf[u] = i
                           \/ pc'[u] = pc[u] /\ call'[u] = call[u]
    BY CrashFacts
  <1>3. CASE UNCHANGED disk
    BY <1>1, <1>2, <1>3, StillStanding DEF disk, Flocked
  <1>4. CASE ~UNCHANGED disk
    <2>1. PICK t \in Threads : /\ InstanceOf[t] = i
                               /\ pc[t] = "append" /\ LockFree(t)
      BY <1>4 DEF Crash
    <2>2. Appends(w, Torn) /\ Own(t) = w /\ Torn \in Frames
      BY <1>4, <2>1, FrameFacts DEF Crash, Appends, Own
    <2>3. SUFFICES ASSUME split' = {}
                   PROVE  /\ OneLock' /\ \A u \in Threads : InHand(u)'
                          /\ \A j \in Keys : OnTop(j)'
      BY DEF Standing
    <2>4. OneLock /\ (\A u \in Threads : InHand(u)) /\ (\A j \in Keys : OnTop(j))
      BY <1>1, <2>3 DEF Standing
    <2>5. OneLock'
      BY <1>1, <1>2, <2>4 DEF OneLock, Flocked
    <2>6. ASSUME NEW u \in Threads PROVE InHand(u)'
      <3>1. CASE pc'[u] # "replace"
        BY <3>1 DEF InHand
      <3>2. CASE pc'[u] = "replace"
        <4>1. pc[u] = "replace" /\ call'[u] = call[u]
          BY <1>2, <3>2
        <4>2. Own(u) # w
          BY <2>1, <2>2, <2>4, <4>1, OneLockFacts
        <4>. QED
          BY <1>1, <2>2, <2>4, <4>1, <4>2, AppendsInHand
      <3>. QED
        BY <3>1, <3>2
    <2>7. ASSUME NEW j \in Keys PROVE OnTop(j)'
      <3>1. Torn.key # j
        BY NoneAssumption DEF Torn
      <3>. QED
        BY <1>1, <2>2, <2>4, <3>1, AppendsOnTop
    <2>. QED
      BY <2>5, <2>6, <2>7
  <1>. QED
    BY <1>3, <1>4

LEMMA InitStanding ==
    ASSUME Init
    PROVE  Standing
  <1>1. OneLock
    BY DEF Init, OneLock, Flocked
  <1>2. \A t \in Threads : InHand(t)
    BY DEF Init, InHand
  <1>3. \A k \in Keys : OnTop(k)
    BY DEF Init, OnTop
  <1>. QED
    BY <1>1, <1>2, <1>3 DEF Standing

LEMMA NextStanding ==
    ASSUME Control, Standing, [Next]_vars
    PROVE  Standing'
  <1>1. ASSUME NEW t \in Threads, NEW k \in Keys,
               NEW life \in world.lifetimes[t], Stamp(t, k, life)
        PROVE  Standing'
    BY <1>1, BeginStanding
  <1>2. ASSUME NEW t \in Threads, NEW op \in {"get", "delete"}, NEW k \in Keys,
               Begin(t, op, k)
        PROVE  Standing'
    <2>1. op \in Ops
      BY DEF Ops
    <2>. QED
      BY <1>2, <2>1, BeginStanding
  <1>3. ASSUME NEW t \in Threads, NEW op \in Ops \ {"set", "get", "delete"},
               Begin(t, op, NoKey)
        PROVE  Standing'
    BY <1>3, BeginStanding
  <1>4. ASSUME NEW t \in Threads, Step(t) PROVE Standing'
    BY <1>4, CallStanding, OpenStanding, AppendFrameStanding, ReadLogsStanding,
       ReplaceStanding, WipeStanding DEF Step
  <1>5. ASSUME NEW i \in Instances, Crash(i) PROVE Standing'
    BY <1>5, CrashStanding
  <1>6. clock \in Nat /\ clock <= clock /\ clock <= clock + 1
    BY BoundsAssumption DEF Control, DiskTyped
  <1>7. ASSUME NEW i \in Instances, Age(i) PROVE Standing'
    <2>1. UNCHANGED <<clock, files, log, lock, best, split, pc, call>>
      BY <1>7 DEF Age, disk, control, history
    <2>. QED
      BY <1>6, <2>1, StillStanding
  <1>8. CASE Tick
    <2>1. /\ UNCHANGED <<files, log, lock, best, split, pc, call>>
          /\ clock' = clock + 1
      BY <1>8 DEF Tick, disk, control, history
    <2>2. clock' \in Nat /\ clock <= clock'
      BY <1>6, <2>1
    <2>. QED
      BY <2>1, <2>2, StillStanding
  <1>9. CASE UNCHANGED vars
    <2>1. UNCHANGED <<clock, files, log, lock, best, split, pc, call>>
      BY <1>9 DEF vars, disk, control, history
    <2>. QED
      BY <1>6, <2>1, StillStanding
  <1>. QED
    BY <1>1, <1>2, <1>3, <1>4, <1>5, <1>7, <1>8, <1>9 DEF Next

LEMMA StandingStands ==
    ASSUME Control, Standing
    PROVE  LiveWinnersStand
  <1>. SUFFICES ASSUME split = {}, NEW k \in Keys, best[k] # Missing,
                       LiveAt(best[k].frame, clock)
                PROVE  /\ Locations(files, k) # {}
                       /\ FrameAt(Winner(Locations(files, k))) = best[k].frame
    BY DEF LiveWinnersStand, Stands
  <1>1. OnTop(k)
    BY DEF Standing
  <1>2. best[k].writer \in files
    BY <1>1, OnTopExists
  <1>. QED
    BY <1>1, <1>2, OnTopWins

\* Whatever threads and processes of one writer and of its peers do at the same
\* time, the newest live record of a key that its writer has not cleared is on
\* disk and wins the merge, until a lock file is unlinked under a waiter
\* (_append, compact, consolidate, clear).
THEOREM WinnersStand ==
    Spec => []LiveWinnersStand
  <1>1. Init => Standing
    BY InitStanding
  <1>2. Control /\ Standing /\ [Next]_vars => Standing'
    BY NextStanding
  <1>3. Control /\ Standing => LiveWinnersStand
    BY StandingStands
  <1>. QED
    BY <1>1, <1>2, <1>3, ControlHolds, PTL DEF Spec

-----------------------------------------------------------------------------
\* What an instance knows of the logs, in terms of the frames alone.  The frame
\* n of v comes after the frame m of x in the order of the merges.
Beats(v, n, x, m) ==
    \/ log[v][n].time > log[x][m].time
    \/ /\ log[v][n].time = log[x][m].time
       /\ Rank[v] > Rank[x] \/ (v = x /\ n > m)

\* A record of k that is no older than `least`.
Holds(v, n, k, least) ==
    /\ v \in files /\ n \in DOMAIN log[v]
    /\ log[v][n].key = k /\ log[v][n].time >= least

\* The record that wins k.
Peak(v, n, k) ==
    /\ v \in files /\ n \in DOMAIN log[v] /\ log[v][n].key = k
    /\ \A x \in files : \A m \in DOMAIN log[x] :
          log[x][m].key = k /\ (x = v => m # n) => Beats(v, n, x, m)

\* The logs of the peers of i have not shrunk below the sizes s, or are as they
\* were.
Known(i, s) ==
    \A v \in DOMAIN s \ {WriterOf[i]} : v \in files /\ s[v] <= Len(log[v])
Unmoved(i, s) ==
    \A v \in Writers \ {WriterOf[i]} :
        /\ v \in files <=> v \in DOMAIN s
        /\ v \in files => s[v] = Len(log[v])

\* The packed location of k is the winner's, or one that our own log has lost.
Packed(i, k, loc) ==
    LET w == WriterOf[i]
    IN  IF loc = NoLoc THEN Over(k)
        ELSE \/ Peak(loc.log, loc.at, k)
             \/ /\ loc.log = w
                /\ \A n \in DOMAIN log[w] : log[w][n].key = k => Peak(w, n, k)
Current(i, s, k, loc) == Known(i, s) /\ (Unmoved(i, s) => Packed(i, k, loc))

\* The overlay entry of k is our own last record of it.
Written(i, k, e) ==
    LET w == WriterOf[i]
    IN  \E n \in DOMAIN log[w] :
            /\ log[w][n].key = k
            /\ \A m \in DOMAIN log[w] : log[w][m].key = k => m <= n
            /\ e = [log |-> w, at |-> n] \/ (e = Deleted /\ log[w][n].dead)

\* The record of k that i wrote last lives, and so does the one that was newest.
Owed(i, k) ==
    /\ mine[i][k] # Missing
    /\ LiveAt(mine[i][k].frame, clock) /\ LiveAt(mine[i][k].newest, clock)

\* Then the newest one is no older, and is still the best, or a peer has a
\* later one that wins over everything of ours.
Newer(i, k) ==
    Owed(i, k) =>
        LET w == WriterOf[i]
            newest == mine[i][k].newest
        IN  /\ newest.time >= mine[i][k].frame.time
            /\ \/ best[k] # Missing /\ best[k].frame = newest
               \/ \E v \in files \ {w} : \E n \in DOMAIN log[v] :
                     /\ Holds(v, n, k, newest.time)
                     /\ \A m \in DOMAIN log[w] :
                           log[w][m].key = k => Beats(v, n, w, m)

\* And a location serves a record that is no older, or none since a newer one
\* died, or is stale.
Good(i, k, loc) ==
    Owed(i, k) =>
        LET w == WriterOf[i]
            least == mine[i][k].frame.time
        IN  IF loc = NoLoc
            THEN \E v \in files \ {w} : \E n \in DOMAIN log[v] :
                     /\ Holds(v, n, k, least) /\ ~LiveAt(log[v][n], clock)
            ELSE \/ Holds(loc.log, loc.at, k, least)
                 \/ /\ loc.log = w
                    /\ \A n \in DOMAIN log[w] :
                          log[w][n].key = k => log[w][n].time >= least

\* What a step keeps of this.
Locs == Places \cup {NoLoc}
Carries(i, k) ==
    /\ \A s \in Sigs : Known(i, s) => Known(i, s)'
    /\ \A s \in Sigs, loc \in Locs : Current(i, s, k, loc) => Current(i, s, k, loc)'
    /\ \A loc \in Locs : Good(i, k, loc) => Good(i, k, loc)'
    /\ Newer(i, k) => Newer(i, k)'
Leaves(i, k) ==
    \A e \in Places \cup {Deleted} : Written(i, k, e) => Written(i, k, e)'

MineTyped ==
    mine \in [Instances -> [Keys -> [frame : Frames, newest : Frames]
                                    \cup {Missing}]]

LEMMA MineFacts ==
    ASSUME MineTyped, NEW i \in Instances, NEW k \in Keys, mine[i][k] # Missing
    PROVE  /\ mine[i][k].frame \in Frames /\ mine[i][k].newest \in Frames
           /\ mine[i][k].frame.time \in Nat /\ mine[i][k].frame.dies \in Nat
           /\ mine[i][k].newest.time \in Nat /\ mine[i][k].newest.dies \in Nat
  <1>1. mine[i][k].frame \in Frames /\ mine[i][k].newest \in Frames
    BY DEF MineTyped
  <1>. QED
    BY <1>1, FrameFacts

\* The disk stays as it is, and time may pass.
LEMMA StillCarries ==
    ASSUME Control, MineTyped, NEW i \in Instances,
           UNCHANGED <<files, log, best>>, mine'[i] = mine[i],
           clock' \in Nat, clock <= clock', NEW k \in Keys
    PROVE  Carries(i, k) /\ Leaves(i, k)
  <1>. DEFINE w == WriterOf[i]
  <1>1. /\ LogsTyped /\ clock \in Nat /\ w \in Writers /\ files \subseteq Writers
    BY ControlFacts, ThreadsAssumption, BoundsAssumption DEF Control, DiskTyped
  <1>2. \A f \in Frames : ~LiveAt(f, clock) => ~LiveAt(f, clock')
    BY <1>1, FrameFacts DEF LiveAt
  <1>3. Over(k) => Over(k)'
    BY <1>2, StandFacts DEF Over
  <1>4. \A v, n : Peak(v, n, k) => Peak(v, n, k)'
    BY DEF Peak, Beats
  <1>5. \A s : (Known(i, s) => Known(i, s)') /\ (Unmoved(i, s)' => Unmoved(i, s))
    BY DEF Known, Unmoved
  <1>6. \A loc : Packed(i, k, loc) => Packed(i, k, loc)'
    BY <1>3, <1>4 DEF Packed
  <1>7. Owed(i, k)' => Owed(i, k)
    BY <1>2, MineFacts DEF Owed
  <1>8. \A v \in files : \A n \in DOMAIN log[v] :
            ~LiveAt(log[v][n], clock) => ~LiveAt(log[v][n], clock')
    BY <1>1, <1>2, LogFacts
  <1>9. \A loc : Good(i, k, loc) => Good(i, k, loc)'
    BY <1>7, <1>8 DEF Good, Holds
  <1>10. Newer(i, k) => Newer(i, k)'
    BY <1>7 DEF Newer, Holds, Beats
  <1>11. Leaves(i, k)
    BY DEF Leaves, Written
  <1>. QED
    BY <1>5, <1>6, <1>9, <1>10, <1>11 DEF Carries, Current

\* A frame f of k, if it is the best now, came after everything on disk.
Wins(w, f) ==
    \A v \in files : \A m \in DOMAIN log[v] : log[v][m].key = f.key =>
        \/ f.time > log[v][m].time
        \/ f.time = log[v][m].time /\ Rank[w] >= Rank[v]

\* A peer appends.
LEMMA PeerCarries ==
    ASSUME Control, MineTyped, NEW i \in Instances, NEW v \in Writers,
           v # WriterOf[i], NEW f \in Frames, Appends(v, f), clock' = clock,
           mine'[i] = mine[i], NEW k \in Keys, OnTop(k),
           \/ best'[k] = best[k]
           \/ f.key = k /\ Wins(v, f)
    PROVE  Carries(i, k) /\ Leaves(i, k)
  <1>. DEFINE w == WriterOf[i]
  <1>. PICK p \in Nat : p = Len(log[v]) + 1
    BY AppendsFacts
  <1>0. /\ \A x \in Writers : \A m \in DOMAIN log[x] :
              m \in DOMAIN log'[x] /\ log'[x][m] = log[x][m]
        /\ p \in DOMAIN log'[v] /\ log'[v][p] = f
        /\ \A x \in Writers \ {v} : log'[x] = log[x]
    BY AppendsFacts
  <1>1. /\ LogsTyped /\ clock \in Nat /\ w \in Writers /\ files \subseteq Writers
        /\ files' = files \cup {v} /\ log'[w] = log[w]
        /\ \A x \in Writers \ {v} : log'[x] = log[x]
        /\ w \in files' <=> w \in files
    <2>1. /\ LogsTyped /\ clock \in Nat /\ w \in Writers /\ files \subseteq Writers
      BY ControlFacts, ThreadsAssumption, BoundsAssumption DEF Control, DiskTyped
    <2>2. files' = files \cup {v}
      BY DEF Appends
    <2>. QED
      BY <1>0, <2>1, <2>2
  <1>2. /\ \A x \in Writers : \A m \in DOMAIN log[x] :
              m \in DOMAIN log'[x] /\ log'[x][m] = log[x][m]
        /\ p \in DOMAIN log'[v] /\ log'[v][p] = f /\ v \in files'
    BY <1>0, <1>1
  <1>3. /\ Len(log[v]) \in Nat /\ Len(log'[v]) = Len(log[v]) + 1
    <2>1. log[v] \in Seq(Frames) /\ log'[v] = Append(log[v], f)
      BY <1>1 DEF LogsTyped, Appends
    <2>. QED
      BY <2>1, AppendProperties, LenProperties
  <1>4. ASSUME NEW s \in Sigs, Known(i, s)
        PROVE  Known(i, s)' /\ ~Unmoved(i, s)'
    <2>1. \A x \in DOMAIN s \ {w} : x \in files /\ s[x] <= Len(log[x])
      BY <1>4 DEF Known
    <2>2. s \in UNION {[D -> Nat] : D \in SUBSET Writers}
      BY DEF Sigs
    <2>3. \A x \in DOMAIN s : x \in Writers /\ s[x] \in Nat
      BY <2>2
    <2>4. \A x \in DOMAIN s \ {w} : x \in files' /\ s[x] <= Len(log'[x])
      BY <1>1, <1>3, <2>1, <2>3
    <2>5. v \in DOMAIN s => s[v] # Len(log'[v])
      BY <1>3, <2>1, <2>3
    <2>. QED
      BY <1>2, <2>4, <2>5 DEF Known, Unmoved
  <1>5. \A x, n, j, least : Holds(x, n, j, least) => Holds(x, n, j, least)'
    BY <1>1, <1>2 DEF Holds
  <1>6. \A loc : Good(i, k, loc) => Good(i, k, loc)'
    <2>1. Owed(i, k)' => Owed(i, k)
      BY DEF Owed
    <2>2. \A x \in files : \A n \in DOMAIN log[x] :
              /\ x \in files' /\ n \in DOMAIN log'[x]
              /\ ~LiveAt(log[x][n], clock) => ~LiveAt(log'[x][n], clock')
      BY <1>1, <1>2
    <2>. QED
      BY <1>1, <1>5, <2>1, <2>2 DEF Good
  <1>7. Newer(i, k) => Newer(i, k)'
    <2>. SUFFICES ASSUME Newer(i, k), Owed(i, k)' PROVE Newer(i, k)'
      BY DEF Newer
    <2>. DEFINE newest == mine[i][k].newest
    <2>1. Owed(i, k) /\ mine[i][k] # Missing /\ mine'[i][k] = mine[i][k]
      BY DEF Owed
    <2>2. newest.time >= mine[i][k].frame.time
      BY <2>1 DEF Newer
    <2>3. \A m \in DOMAIN log'[w] : \A x \in files : \A n \in DOMAIN log[x] :
              Beats(x, n, w, m) => Beats(x, n, w, m)'
      BY <1>1, <1>2 DEF Beats
    <2>4. CASE \E x \in files \ {w} : \E n \in DOMAIN log[x] :
                   /\ Holds(x, n, k, newest.time)
                   /\ \A m \in DOMAIN log[w] :
                         log[w][m].key = k => Beats(x, n, w, m)
      <3>. PICK x \in files \ {w} : \E n \in DOMAIN log[x] :
                   /\ Holds(x, n, k, newest.time)
                   /\ \A m \in DOMAIN log[w] :
                         log[w][m].key = k => Beats(x, n, w, m)
        BY <2>4
      <3>1. PICK n \in DOMAIN log[x] :
                   /\ Holds(x, n, k, newest.time)
                   /\ \A m \in DOMAIN log[w] :
                         log[w][m].key = k => Beats(x, n, w, m)
        OBVIOUS
      <3>2. x \in files' \ {w} /\ n \in DOMAIN log'[x]
        BY <1>1, <1>2, <3>1
      <3>3. Holds(x, n, k, newest.time)'
        BY <1>5, <2>1, <3>1
      <3>4. \A m \in DOMAIN log'[w] : log'[w][m].key = k => Beats(x, n, w, m)'
        BY <1>1, <2>3, <3>1
      <3>. QED
        BY <2>1, <2>2, <3>2, <3>3, <3>4 DEF Newer
    <2>5. CASE best[k] # Missing /\ best[k].frame = newest /\ best'[k] = best[k]
      BY <2>1, <2>2, <2>5 DEF Newer
    <2>6. CASE /\ best[k] # Missing /\ best[k].frame = newest
               /\ f.key = k /\ Wins(v, f)
      <3>1. /\ best[k].frame.key = k /\ \E n \in Nat : Tops(k, n)
        BY <2>1, <2>6 DEF OnTop, Owed
      <3>2. PICK n \in Nat : Tops(k, n)
        BY <3>1
      <3>3. /\ n \in DOMAIN log[best[k].writer]
            /\ log[best[k].writer][n] = newest
        BY <2>6, <3>2 DEF Tops
      <3>4. best[k].writer \in files
        BY <2>1, <2>6, OnTopExists DEF Owed
      <3>5. f.time \in Nat /\ newest.time \in Nat
        BY <2>1, MineFacts, FrameFacts
      <3>6. f.time >= newest.time
        BY <2>6, <3>1, <3>3, <3>4, <3>5 DEF Wins
      <3>7. Holds(v, p, k, newest.time)'
        BY <1>2, <2>1, <2>6, <3>6 DEF Holds
      <3>8. ASSUME NEW m \in DOMAIN log'[w], log'[w][m].key = k
            PROVE  Beats(v, p, w, m)'
        <4>1. m \in DOMAIN log[w] /\ log'[w][m] = log[w][m] /\ w \in files
          <5>1. DOMAIN <<>> = {}
            OBVIOUS
          <5>. QED
            BY <1>1, <3>8, <5>1 DEF Control, DiskTyped
        <4>2. \/ f.time > log[w][m].time
              \/ f.time = log[w][m].time /\ Rank[v] >= Rank[w]
          BY <2>6, <3>8, <4>1 DEF Wins
        <4>3. Rank[v] \in Nat /\ Rank[w] \in Nat /\ Rank[v] # Rank[w]
          BY <1>1, LogsAssumption DEF IsInjective
        <4>. QED
          BY <1>2, <4>1, <4>2, <4>3 DEF Beats
      <3>9. v \in files' \ {w} /\ p \in DOMAIN log'[v]
        BY <1>2
      <3>. QED
        BY <2>1, <2>2, <3>7, <3>8, <3>9 DEF Newer
    <2>. QED
      BY <2>1, <2>4, <2>5, <2>6 DEF Newer
  <1>8. Leaves(i, k)
    BY <1>1 DEF Leaves, Written
  <1>. QED
    BY <1>4, <1>6, <1>7, <1>8 DEF Carries, Current

\* The instance itself appends a record of another key.
LEMMA OwnCarries ==
    ASSUME Control, MineTyped, NEW i \in Instances, NEW f \in Frames,
           Appends(WriterOf[i], f), clock' = clock, NEW k \in Keys, f.key # k,
           mine'[i][k] = mine[i][k], best'[k] = best[k]
    PROVE  Carries(i, k) /\ Leaves(i, k)
  <1>. DEFINE w == WriterOf[i]
  <1>1. /\ LogsTyped /\ clock \in Nat /\ w \in Writers /\ files \subseteq Writers
        /\ files' = files \cup {w} /\ \A x \in Writers \ {w} : log'[x] = log[x]
        /\ \A v \in Writers \ files : log[v] = <<>>
    BY ControlFacts, ThreadsAssumption, BoundsAssumption, AppendsFacts
    DEF Control, DiskTyped, Appends
  <1>2. /\ \A x \in Writers : \A m \in DOMAIN log[x] :
              m \in DOMAIN log'[x] /\ log'[x][m] = log[x][m]
        /\ \A x \in files' : \A m \in DOMAIN log'[x] : log'[x][m].key = k =>
              x \in files /\ m \in DOMAIN log[x] /\ log'[x][m] = log[x][m]
        /\ w \in files'
    BY <1>1, AppendsFacts DEF Appends
  <1>3. \A s \in Sigs : (Known(i, s) => Known(i, s)')
                        /\ (Unmoved(i, s)' => Unmoved(i, s))
    <2>1. \A s \in Sigs : \A x \in DOMAIN s : x \in Writers
      BY DEF Sigs
    <2>. QED
      BY <1>1, <2>1 DEF Known, Unmoved
  <1>4. \A x, n, least : Holds(x, n, k, least) => Holds(x, n, k, least)'
    BY <1>1, <1>2 DEF Holds
  <1>5. \A v \in files, x \in files : \A n \in DOMAIN log[v], m \in DOMAIN log[x] :
            Beats(v, n, x, m) => Beats(v, n, x, m)'
    BY <1>1, <1>2 DEF Beats
  <1>6. \A v, n : Peak(v, n, k) => Peak(v, n, k)'
    BY <1>1, <1>2, <1>5 DEF Peak
  <1>7. \A m \in DOMAIN log'[w] : log'[w][m].key = k =>
            w \in files /\ m \in DOMAIN log[w] /\ log'[w][m] = log[w][m]
    BY <1>2
  <1>8. \A loc : Packed(i, k, loc) => Packed(i, k, loc)'
    <2>1. Over(k) => Over(k)'
      BY DEF Over
    <2>. QED
      BY <1>6, <1>7, <2>1 DEF Packed
  <1>9. Owed(i, k)' => Owed(i, k)
    BY DEF Owed
  <1>10. \A loc : Good(i, k, loc) => Good(i, k, loc)'
    <2>1. \A x \in files \ {w} : \A n \in DOMAIN log[x] :
              /\ x \in files' /\ n \in DOMAIN log'[x]
              /\ ~LiveAt(log[x][n], clock) => ~LiveAt(log'[x][n], clock')
      BY <1>1, <1>2
    <2>. QED
      BY <1>1, <1>4, <1>7, <1>9, <2>1 DEF Good
  <1>11. Newer(i, k) => Newer(i, k)'
    <2>. SUFFICES ASSUME Newer(i, k), Owed(i, k)' PROVE Newer(i, k)'
      BY DEF Newer
    <2>1. Owed(i, k) /\ mine'[i][k] = mine[i][k]
      BY <1>9
    <2>2. CASE best[k] # Missing /\ best[k].frame = mine[i][k].newest
      BY <2>1, <2>2 DEF Newer
    <2>3. CASE ~(best[k] # Missing /\ best[k].frame = mine[i][k].newest)
      <3>. PICK x \in files \ {w} : \E n \in DOMAIN log[x] :
                   /\ Holds(x, n, k, mine[i][k].newest.time)
                   /\ \A m \in DOMAIN log[w] :
                         log[w][m].key = k => Beats(x, n, w, m)
        BY <2>1, <2>3 DEF Newer
      <3>1. PICK n \in DOMAIN log[x] :
                   /\ Holds(x, n, k, mine[i][k].newest.time)
                   /\ \A m \in DOMAIN log[w] :
                         log[w][m].key = k => Beats(x, n, w, m)
        OBVIOUS
      <3>2. /\ x \in files' \ {w} /\ n \in DOMAIN log'[x]
            /\ Holds(x, n, k, mine[i][k].newest.time)'
        BY <1>1, <1>2, <1>4, <2>1, <3>1
      <3>3. \A m \in DOMAIN log'[w] : log'[w][m].key = k => Beats(x, n, w, m)'
        BY <1>5, <1>7, <3>1
      <3>. QED
        BY <2>1, <3>2, <3>3 DEF Newer
    <2>. QED
      BY <2>2, <2>3
  <1>12. Leaves(i, k)
    BY <1>1, <1>2, <1>7 DEF Leaves, Written
  <1>. QED
    BY <1>3, <1>8, <1>10, <1>11, <1>12 DEF Carries, Current

-----------------------------------------------------------------------------
\* A rewrite puts back, of each key, the record of our log that wins there.
Heads(t) ==
    LET w == Own(t)
        hand == call[t].hand
    IN  pc[t] = "replace" =>
        \A m \in DOMAIN hand : \E n \in DOMAIN log[w] :
            /\ log[w][n] = hand[m]
            /\ \A l \in DOMAIN log[w] \ {n} :
                  log[w][l].key = hand[m].key => Beats(w, n, w, l)

LEMMA KeptHeads ==
    ASSUME LogsTyped, files \in SUBSET Writers, NEW w \in Writers,
           NEW pass, NEW now, NEW hand, hand = Kept(w, pass, now)
    PROVE  \A m \in DOMAIN hand : \E n \in DOMAIN log[w] :
               /\ log[w][n] = hand[m]
               /\ \A l \in DOMAIN log[w] \ {n} :
                     log[w][l].key = hand[m].key => Beats(w, n, w, l)
  <1>. DEFINE W == Seen(w, pass)
              K == {a \in Winners(W) : a.log = w /\ LiveAt(FrameAt(a), now)}
              N == 1 .. Cardinality(K)
              At(n) == CHOOSE a \in K : Cardinality(Earlier(K, a)) = n - 1
  <1>1. hand = [n \in N |-> FrameAt(At(n))]
    BY DEF Kept, Earlier, Seen
  <1>2. W \in SUBSET Writers
    BY DEF Seen
  <1>3. K \in SUBSET Spots
    BY <1>2, WinnersFacts
  <1>4. \A n \in N : At(n) \in K
    <2>. HIDE DEF K
    <2>1. \A n \in N : \E a \in K : Cardinality(Earlier(K, a)) = n - 1
      BY <1>3, Numbered
    <2>. QED
      BY <2>1
  <1>. HIDE DEF At
  <1>5. ASSUME NEW m \in DOMAIN hand
        PROVE  \E n \in DOMAIN log[w] :
                   /\ log[w][n] = hand[m]
                   /\ \A l \in DOMAIN log[w] \ {n} :
                         log[w][l].key = hand[m].key => Beats(w, n, w, l)
    <2>1. PICK a \in Winners(W) : a.log = w /\ hand[m] = FrameAt(a)
      BY <1>1, <1>4
    <2>2. PICK k \in Keys : /\ Locations(W, k) # {}
                            /\ a = Winner(Locations(W, k))
      BY <2>1 DEF Winners
    <2>3. /\ a \in Locations(W, k) /\ Locations(W, k) \in SUBSET Spots
          /\ \A b \in Locations(W, k) \ {a} : After(a, b)
      BY <1>2, <2>2, LocationFacts, WinnerFacts
    <2>4. /\ a \in Spots /\ w \in W /\ FrameAt(a).key = k
          /\ a = [log |-> w, at |-> a.at] /\ a.at \in DOMAIN log[w]
          /\ hand[m] = log[w][a.at] /\ hand[m].key = k
      BY <1>2, <2>1, <2>3, LocationFacts, SpotFacts DEF FrameAt
    <2>5. ASSUME NEW l \in DOMAIN log[w] \ {a.at}, log[w][l].key = k
          PROVE  Beats(w, a.at, w, l)
      <3>. DEFINE b == [log |-> w, at |-> l]
      <3>1. b \in Spots /\ FrameAt(b) = log[w][l]
        BY LogFacts DEF FrameAt
      <3>2. b \in Locations(W, k) \ {a}
        BY <1>2, <2>4, <2>5, <3>1, LocationFacts
      <3>. QED
        BY <2>3, <2>4, <3>1, <3>2 DEF After, Beats, FrameAt
    <2>. QED
      BY <2>4, <2>5
  <1>. QED
    BY <1>5

\* The instance rewrites its own log.
LEMMA RewriteCarries ==
    ASSUME Control, MineTyped, NEW t \in Threads, Replace(t),
           InHand(t), Heads(t), NEW k \in Keys
    PROVE  Carries(InstanceOf[t], k)
  <1>. DEFINE i == InstanceOf[t]
              w == WriterOf[i]
              hand == call[t].hand
  <1>1. /\ LogsTyped /\ clock \in Nat /\ w \in Writers /\ files \subseteq Writers
        /\ \A v \in Writers \ files : log[v] = <<>>
        /\ Own(t) = w /\ i \in Instances
    BY ControlFacts, ThreadsAssumption, BoundsAssumption
    DEF Control, DiskTyped, Own
  <1>2. /\ pc[t] = "replace" /\ log'[w] = hand /\ hand \in Seq(Frames)
        /\ \A x \in Writers \ {w} : log'[x] = log[x] /\ (x \in files' <=> x \in files)
        /\ files' \subseteq Writers /\ UNCHANGED <<clock, best, mine>>
        /\ DOMAIN hand # {} => w \in files'
    <2>1. DOMAIN <<>> = {}
      OBVIOUS
    <2>. QED
      BY <1>1, <2>1, CallFacts DEF Replace, history, Control, DiskTyped
  <1>. HIDE DEF hand
  <1>3. \A m \in DOMAIN log'[w], l \in DOMAIN log'[w] :
            log'[w][m].key = log'[w][l].key => m = l
    BY <1>1, <1>2 DEF InHand, hand
  <1>4. ASSUME NEW m \in DOMAIN log'[w], log'[w][m].key = k
        PROVE  \E n \in DOMAIN log[w] :
                   /\ log[w][n] = log'[w][m] /\ w \in files
                   /\ \A l \in DOMAIN log[w] \ {n} :
                         log[w][l].key = k => Beats(w, n, w, l)
    <2>1. PICK n \in DOMAIN log[w] :
                   /\ log[w][n] = log'[w][m]
                   /\ \A l \in DOMAIN log[w] \ {n} :
                         log[w][l].key = k => Beats(w, n, w, l)
      BY <1>1, <1>2, <1>4 DEF Heads, hand
    <2>2. DOMAIN <<>> = {}
      OBVIOUS
    <2>. QED
      BY <1>1, <2>1, <2>2
  <1>5. \A v, n : LogsTyped /\ v \in Writers /\ n \in DOMAIN log[v]
            => log[v][n].time \in Nat /\ Rank[v] \in Nat /\ n \in Nat
    <2>. SUFFICES ASSUME NEW v \in Writers, NEW n \in DOMAIN log[v]
                  PROVE  log[v][n].time \in Nat /\ Rank[v] \in Nat /\ n \in Nat
      BY <1>1
    <2>. QED
      BY <1>1, LogFacts, FrameFacts, LogsAssumption
  <1>6. \A s \in Sigs : (Known(i, s) => Known(i, s)')
                        /\ (Unmoved(i, s)' => Unmoved(i, s))
    <2>1. \A s \in Sigs : \A x \in DOMAIN s : x \in Writers
      BY DEF Sigs
    <2>. QED
      BY <1>2, <2>1 DEF Known, Unmoved
  \* The winner of k elsewhere still wins; ours does, at its new place.
  <1>7. ASSUME NEW v \in Writers \ {w}, NEW n, Peak(v, n, k)
        PROVE  Peak(v, n, k)'
    <2>1. /\ v \in files' /\ n \in DOMAIN log'[v] /\ log'[v][n].key = k
          /\ log'[v] = log[v]
      BY <1>2, <1>7 DEF Peak
    <2>2. ASSUME NEW x \in files', NEW m \in DOMAIN log'[x],
                 log'[x][m].key = k, x = v => m # n
          PROVE  Beats(v, n, x, m)'
      <3>1. CASE x = w
        <4>1. PICK l \in DOMAIN log[w] : log[w][l] = log'[w][m] /\ w \in files
          BY <1>4, <2>2, <3>1
        <4>2. Beats(v, n, w, l)
          BY <1>7, <2>2, <3>1, <4>1 DEF Peak
        <4>. QED
          BY <2>1, <3>1, <4>1, <4>2 DEF Beats
      <3>2. CASE x # w
        <4>1. x \in files /\ log'[x] = log[x]
          BY <1>2, <3>2
        <4>2. Beats(v, n, x, m)
          BY <1>7, <2>2, <4>1 DEF Peak
        <4>. QED
          BY <2>1, <4>1, <4>2 DEF Beats
      <3>. QED
        BY <3>1, <3>2
    <2>. QED
      BY <2>1, <2>2 DEF Peak
  <1>8. ASSUME NEW n, NEW m \in DOMAIN log'[w], log'[w][m].key = k,
               Peak(w, n, k), log[w][n] = log'[w][m]
        PROVE  Peak(w, m, k)'
    <2>1. w \in files'
      BY <1>2
    <2>2. ASSUME NEW x \in files', NEW l \in DOMAIN log'[x],
                 log'[x][l].key = k, x = w => l # m
          PROVE  Beats(w, m, x, l)'
      <3>1. x # w
        BY <1>3, <1>8, <2>2
      <3>2. x \in files /\ log'[x] = log[x]
        BY <1>2, <3>1
      <3>3. Beats(w, n, x, l)
        BY <1>8, <2>2, <3>1, <3>2 DEF Peak
      <3>. QED
        BY <1>8, <3>1, <3>2, <3>3 DEF Beats
    <2>. QED
      BY <1>8, <2>1, <2>2 DEF Peak
  <1>9. ASSUME NEW loc \in Locs, Packed(i, k, loc)
        PROVE  Packed(i, k, loc)'
    <2>1. CASE loc = NoLoc
      BY <1>2, <1>9, <2>1 DEF Packed, Over
    <2>2. CASE loc # NoLoc /\ loc.log # w
      <3>1. loc.log \in Writers /\ Peak(loc.log, loc.at, k)
        BY <1>1, <1>9, <2>2 DEF Packed, Peak
      <3>. QED
        BY <1>7, <2>2, <3>1 DEF Packed
    <2>3. CASE loc # NoLoc /\ loc.log = w
      <3>1. ASSUME NEW m \in DOMAIN log'[w], log'[w][m].key = k
            PROVE  Peak(w, m, k)'
        <4>1. PICK n \in DOMAIN log[w] :
                   /\ log[w][n] = log'[w][m] /\ w \in files
                   /\ \A l \in DOMAIN log[w] \ {n} :
                         log[w][l].key = k => Beats(w, n, w, l)
          BY <1>4, <3>1
        <4>2. CASE Peak(w, loc.at, k)
          <5>1. n = loc.at
            <6>. SUFFICES ASSUME n # loc.at PROVE FALSE
              OBVIOUS
            <6>1. loc.at \in DOMAIN log[w] /\ log[w][loc.at].key = k
              BY <4>2 DEF Peak
            <6>2. Beats(w, n, w, loc.at) /\ Beats(w, loc.at, w, n)
              BY <3>1, <4>1, <4>2, <6>1 DEF Peak
            <6>3. /\ log[w][n].time \in Nat /\ log[w][loc.at].time \in Nat
                  /\ n \in Nat /\ loc.at \in Nat /\ Rank[w] \in Nat
              BY <1>1, <1>5, <6>1
            <6>. QED
              BY <6>2, <6>3 DEF Beats
          <5>. QED
            BY <1>8, <3>1, <4>1, <4>2, <5>1
        <4>3. CASE ~Peak(w, loc.at, k)
          <5>1. Peak(w, n, k)
            BY <1>9, <2>3, <3>1, <4>1, <4>3 DEF Packed
          <5>. QED
            BY <1>8, <3>1, <4>1, <5>1
        <4>. QED
          BY <4>2, <4>3
      <3>. QED
        BY <2>3, <3>1 DEF Packed
    <2>. QED
      BY <2>1, <2>2, <2>3
  <1>10. Owed(i, k)' => Owed(i, k)
    BY <1>2 DEF Owed
  <1>11. ASSUME NEW loc \in Locs, Good(i, k, loc)
         PROVE  Good(i, k, loc)'
    <2>. DEFINE least == mine[i][k].frame.time
    <2>. SUFFICES ASSUME Owed(i, k)' PROVE Good(i, k, loc)'
      BY DEF Good
    <2>1. Owed(i, k) /\ mine'[i][k] = mine[i][k] /\ least \in Nat
      BY <1>1, <1>2, <1>10, MineFacts DEF Owed
    <2>2. CASE loc = NoLoc
      <3>1. PICK v \in files \ {w} : \E n \in DOMAIN log[v] :
                Holds(v, n, k, least) /\ ~LiveAt(log[v][n], clock)
        BY <1>11, <2>1, <2>2 DEF Good
      <3>2. v \in files' \ {w} /\ log'[v] = log[v]
        BY <1>1, <1>2, <3>1
      <3>. QED
        BY <1>2, <2>1, <2>2, <3>1, <3>2 DEF Good, Holds
    <2>3. CASE loc # NoLoc /\ loc.log # w
      <3>1. loc.log \in files /\ Holds(loc.log, loc.at, k, least)
        BY <1>11, <2>1, <2>3 DEF Good, Holds
      <3>2. loc.log \in files' /\ log'[loc.log] = log[loc.log]
        BY <1>1, <1>2, <2>3, <3>1
      <3>. QED
        BY <1>2, <2>1, <2>3, <3>1, <3>2 DEF Good, Holds
    <2>4. CASE loc # NoLoc /\ loc.log = w
      <3>1. ASSUME NEW m \in DOMAIN log'[w], log'[w][m].key = k
            PROVE  log'[w][m].time >= least
        <4>1. PICK n \in DOMAIN log[w] :
                   /\ log[w][n] = log'[w][m] /\ w \in files
                   /\ \A l \in DOMAIN log[w] \ {n} :
                         log[w][l].key = k => Beats(w, n, w, l)
          BY <1>4, <3>1
        <4>2. CASE Holds(w, loc.at, k, least)
          <5>1. loc.at = n \/ Beats(w, n, w, loc.at)
            BY <4>1, <4>2 DEF Holds
          <5>2. loc.at \in DOMAIN log[w] /\ log[w][loc.at].time >= least
            BY <4>2 DEF Holds
          <5>3. log[w][n].time \in Nat /\ log[w][loc.at].time \in Nat
            BY <1>1, <1>5, <5>2
          <5>4. log[w][n].time >= log[w][loc.at].time
            BY <5>1, <5>3 DEF Beats
          <5>. QED
            BY <2>1, <4>1, <5>2, <5>3, <5>4
        <4>3. CASE ~Holds(w, loc.at, k, least)
          BY <1>11, <2>1, <2>4, <3>1, <4>1, <4>3 DEF Good
        <4>. QED
          BY <4>2, <4>3
      <3>. QED
        BY <1>2, <2>1, <2>4, <3>1 DEF Good
    <2>. QED
      BY <2>2, <2>3, <2>4
  <1>12. ASSUME Newer(i, k) PROVE Newer(i, k)'
    <2>. SUFFICES ASSUME Owed(i, k)' PROVE Newer(i, k)'
      BY DEF Newer
    <2>1. Owed(i, k) /\ mine'[i][k] = mine[i][k]
      BY <1>2, <1>10
    <2>2. CASE best[k] # Missing /\ best[k].frame = mine[i][k].newest
      BY <1>2, <1>12, <2>1, <2>2 DEF Newer
    <2>3. CASE ~(best[k] # Missing /\ best[k].frame = mine[i][k].newest)
      <3>. PICK x \in files \ {w} : \E n \in DOMAIN log[x] :
                   /\ Holds(x, n, k, mine[i][k].newest.time)
                   /\ \A m \in DOMAIN log[w] :
                         log[w][m].key = k => Beats(x, n, w, m)
        BY <1>12, <2>1, <2>3 DEF Newer
      <3>1. PICK n \in DOMAIN log[x] :
                   /\ Holds(x, n, k, mine[i][k].newest.time)
                   /\ \A m \in DOMAIN log[w] :
                         log[w][m].key = k => Beats(x, n, w, m)
        OBVIOUS
      <3>2. x \in files' \ {w} /\ log'[x] = log[x]
        BY <1>1, <1>2
      <3>3. Holds(x, n, k, mine[i][k].newest.time)'
        BY <2>1, <3>1, <3>2 DEF Holds
      <3>4. ASSUME NEW m \in DOMAIN log'[w], log'[w][m].key = k
            PROVE  Beats(x, n, w, m)'
        <4>1. PICK l \in DOMAIN log[w] : log[w][l] = log'[w][m]
          BY <1>4, <3>4
        <4>2. Beats(x, n, w, l)
          BY <3>1, <3>4, <4>1
        <4>. QED
          BY <3>2, <4>1, <4>2 DEF Beats
      <3>. QED
        BY <1>12, <2>1, <3>2, <3>3, <3>4 DEF Newer
    <2>. QED
      BY <2>2, <2>3
  <1>. QED
    BY <1>6, <1>9, <1>11, <1>12 DEF Carries, Current

-----------------------------------------------------------------------------
\* While an instance is alone on its writer: a key has no record on disk that is
\* not accounted for,
Vacant ==
    \A k \in Keys : best[k] = Missing =>
        \A v \in files : \A n \in DOMAIN log[v] : log[v][n].key # k

\* what its threads carry is good,
Undisturbed(i) == \A u \in Threads : InstanceOf[u] = i => pc[u] # "pop"
Folding(i, k) ==
    \E u \in Threads : InstanceOf[u] = i /\ pc[u] = "fold" /\ call[u].key = k
Holding(t) ==
    LET i == InstanceOf[t]
        c == call[t]
    IN  /\ pc[t] \in {"scan", "keep"} => Known(i, c.sig)
        /\ pc[t] = "keep" => \A k \in Keys :
              /\ c.built.overlay[k] = NoLoc
              /\ Current(i, c.sig, k, c.built.packed[k])
              /\ Good(i, k, c.built.packed[k])
        /\ pc[t] = "fold" =>
              /\ Good(i, c.key, IF c.op = "delete" THEN NoLoc ELSE c.loc)
              /\ index[i] # NoIndex /\ Undisturbed(i) =>
                    Written(i, c.key, IF c.op = "delete" THEN Deleted ELSE c.loc)
        /\ pc[t] = "serve" => Good(i, c.key, c.loc)

\* and so is its index, but for a rewrite that has not popped it and an append
\* that is not folded in yet.
Indexed(i, k) ==
    /\ Good(i, k, Lookup(index[i], k))
    /\ IF index[i].overlay[k] = NoLoc
       THEN Current(i, sig[i], k, index[i].packed[k])
       ELSE Undisturbed(i) => Written(i, k, index[i].overlay[k])
Standby(i) ==
    index[i] # NoIndex => \A k \in Keys :
        Known(i, sig[i]) /\ (Folding(i, k) \/ Indexed(i, k))
View(i) ==
    /\ Vacant /\ \A k \in Keys : Newer(i, k)
    /\ \A t \in Threads : InstanceOf[t] = i => Holding(t)
    /\ Standby(i)

\* A thread that does not move keeps what it holds.
LEMMA HoldingStays ==
    ASSUME Control, NEW t \in Threads, Holding(t),
           pc'[t] = pc[t], call'[t] = call[t],
           \A k \in Keys : Carries(InstanceOf[t], k),
           index'[InstanceOf[t]] # NoIndex /\ Undisturbed(InstanceOf[t])' =>
               /\ index[InstanceOf[t]] # NoIndex /\ Undisturbed(InstanceOf[t])
               /\ \A k \in Keys : Leaves(InstanceOf[t], k)
    PROVE  Holding(t)'
  <1>. DEFINE i == InstanceOf[t]
              c == call[t]
  <1>1. /\ c.sig \in Sigs /\ c.loc \in Locs /\ Located(t)
        /\ c.built \in Indexes \cup {NoIndex} /\ NoLoc \in Locs
    BY CallFacts DEF Locs
  <1>2. PICK s \in Sigs : s = c.sig
    BY <1>1
  <1>3. ASSUME pc[t] \in {"scan", "keep"} PROVE Known(i, c.sig)'
    <2>1. Known(i, s)
      BY <1>2, <1>3 DEF Holding
    <2>2. Keys # {}
      BY <1>1, <1>3 DEF Located, Working, Rewriting
    <2>3. Known(i, s)'
      BY <2>1, <2>2 DEF Carries
    <2>. QED
      BY <1>2, <2>3
  <1>4. ASSUME pc[t] = "keep", NEW k \in Keys
        PROVE  /\ c.built.overlay[k] = NoLoc
               /\ Current(i, c.sig, k, c.built.packed[k])'
               /\ Good(i, k, c.built.packed[k])'
    <2>1. c.built \in Indexes
      BY <1>1, <1>4 DEF Located
    <2>2. PICK loc \in Locs : loc = c.built.packed[k]
      BY <2>1 DEF Indexes, Locs
    <2>3. Current(i, s, k, loc) /\ Good(i, k, loc) /\ c.built.overlay[k] = NoLoc
      BY <1>2, <1>4, <2>2 DEF Holding
    <2>4. Current(i, s, k, loc)' /\ Good(i, k, loc)'
      BY <2>3 DEF Carries
    <2>. QED
      BY <1>2, <2>2, <2>3, <2>4
  <1>5. ASSUME pc[t] = "serve" PROVE Good(i, c.key, c.loc)'
    <2>1. PICK k \in Keys, loc \in Locs : k = c.key /\ loc = c.loc
      BY <1>1, <1>5 DEF Located, Working, Rewriting
    <2>2. Good(i, k, loc)
      BY <1>5, <2>1 DEF Holding
    <2>3. Good(i, k, loc)'
      BY <2>2 DEF Carries
    <2>. QED
      BY <2>1, <2>3
  <1>6. ASSUME pc[t] = "fold"
        PROVE  /\ Good(i, c.key, IF c.op = "delete" THEN NoLoc ELSE c.loc)'
               /\ index'[i] # NoIndex /\ Undisturbed(i)' =>
                     Written(i, c.key,
                             IF c.op = "delete" THEN Deleted ELSE c.loc)'
    <2>1. PICK k \in Keys : k = c.key
      BY <1>1, <1>6 DEF Located, Working, Rewriting
    <2>2. PICK loc \in Locs : loc = IF c.op = "delete" THEN NoLoc ELSE c.loc
      BY <1>1
    <2>3. PICK e \in Places \cup {Deleted} :
               e = IF c.op = "delete" THEN Deleted ELSE c.loc
      BY <1>1, <1>6 DEF Located, Locs
    <2>4. /\ Good(i, k, loc)
          /\ index[i] # NoIndex /\ Undisturbed(i) => Written(i, k, e)
      BY <1>6, <2>1, <2>2, <2>3 DEF Holding
    <2>5. Good(i, k, loc)'
      BY <2>4 DEF Carries
    <2>6. index'[i] # NoIndex /\ Undisturbed(i)' => Written(i, k, e)'
      BY <2>4 DEF Leaves
    <2>. QED
      BY <2>1, <2>2, <2>3, <2>5, <2>6
  <1>. QED
    BY <1>3, <1>4, <1>5, <1>6 DEF Holding

\* A key of an index that is not touched keeps its place.
LEMMA IndexedStays ==
    ASSUME Control, NEW i \in Instances, NEW k \in Keys, Indexed(i, k),
           index[i] # NoIndex, index'[i] # NoIndex, Known(i, sig[i]), Carries(i, k),
           index'[i].overlay[k] = index[i].overlay[k],
           index'[i].packed[k] = index[i].packed[k],
           \A s \in Sigs, loc \in Locs :
               s = sig[i] /\ Current(i, s, k, loc)' => Current(i, sig[i], k, loc)',
           Undisturbed(i)' => Undisturbed(i) /\ Leaves(i, k)
    PROVE  Indexed(i, k)'
  <1>1. index[i] \in Indexes /\ sig[i] \in Sigs
    BY DEF Control, MemoryTyped
  <1>2. PICK s \in Sigs, loc \in Locs, at \in Locs,
             e \in Places \cup {NoLoc, Deleted} :
             /\ s = sig[i] /\ loc = index[i].packed[k]
             /\ at = Lookup(index[i], k) /\ e = index[i].overlay[k]
    BY <1>1, LookupTyped DEF Indexes, Locs
  <1>3. Lookup(index'[i], k) = at
    BY <1>2 DEF Lookup
  <1>4. Good(i, k, at)'
    BY <1>2 DEF Indexed, Carries
  <1>5. ASSUME e = NoLoc PROVE Current(i, sig[i], k, loc)'
    <2>1. Current(i, s, k, loc)
      BY <1>2, <1>5 DEF Indexed
    <2>2. Current(i, s, k, loc)'
      BY <2>1 DEF Carries
    <2>. QED
      BY <1>2, <2>2
  <1>6. ASSUME e # NoLoc, Undisturbed(i)' PROVE Written(i, k, e)'
    <2>1. Written(i, k, e)
      BY <1>2, <1>6 DEF Indexed
    <2>. QED
      BY <1>6, <2>1 DEF Leaves
  <1>. QED
    BY <1>2, <1>3, <1>4, <1>5, <1>6 DEF Indexed

LEMMA StandbyStays ==
    ASSUME Control, NEW i \in Instances, Standby(i),
           \A k \in Keys : Carries(i, k),
           index'[i] # NoIndex =>
               /\ index'[i] = index[i] /\ sig'[i] = sig[i]
               /\ Undisturbed(i)' =>
                      Undisturbed(i) /\ \A k \in Keys : Leaves(i, k)
               /\ \A k \in Keys : Folding(i, k) => Folding(i, k)'
    PROVE  Standby(i)'
  <1>. SUFFICES ASSUME index'[i] # NoIndex, NEW k \in Keys
                PROVE  Known(i, sig[i])' /\ (Folding(i, k)' \/ Indexed(i, k)')
    BY DEF Standby
  <1>1. /\ index[i] # NoIndex /\ Known(i, sig[i])
        /\ Folding(i, k) \/ Indexed(i, k)
    BY DEF Standby
  <1>2. PICK s \in Sigs : s = sig[i]
    BY DEF Control, MemoryTyped
  <1>3. Known(i, s)'
    BY <1>1, <1>2 DEF Carries
  <1>4. ASSUME ~Folding(i, k) PROVE Indexed(i, k)'
    <2>1. \A x \in Sigs, loc \in Locs :
              x = sig[i] /\ Current(i, x, k, loc)' => Current(i, sig[i], k, loc)'
      OBVIOUS
    <2>. QED
      BY <1>1, <1>4, <2>1, IndexedStays
  <1>. QED
    BY <1>2, <1>3, <1>4

LEMMA ViewStays ==
    ASSUME Control, NEW i \in Instances, View(i), Vacant',
           \A k \in Keys : Carries(i, k),
           \A u \in Threads : InstanceOf[u] = i =>
               Holding(u)' \/ (pc'[u] = pc[u] /\ call'[u] = call[u]),
           index'[i] # NoIndex =>
               /\ index'[i] = index[i] /\ sig'[i] = sig[i]
               /\ Undisturbed(i)' =>
                      Undisturbed(i) /\ \A k \in Keys : Leaves(i, k)
               /\ \A k \in Keys : Folding(i, k) => Folding(i, k)'
    PROVE  View(i)'
  <1>1. \A k \in Keys : Newer(i, k)'
    BY DEF View, Carries
  <1>2. ASSUME NEW u \in Threads, InstanceOf[u] = i PROVE Holding(u)'
    <2>1. Holding(u)
      BY <1>2 DEF View
    <2>. QED
      BY <1>2, <2>1, HoldingStays
  <1>3. Standby(i)'
    <2>1. Standby(i)
      BY DEF View
    <2>. QED
      BY <2>1, StandbyStays
  <1>. QED
    BY <1>1, <1>2, <1>3 DEF View

-----------------------------------------------------------------------------
\* One thread of an instance at a time is inside.
Inside == {"check", "fetch", "scan", "keep", "serve", "verify", "open",
           "append", "fold", "wipe"}
LEMMA OneInside ==
    ASSUME Control, NEW t \in Threads, NEW u \in Threads,
           InstanceOf[u] = InstanceOf[t], pc[t] \in Inside, pc[u] \in Inside
    PROVE  u = t
  <1>1. Located(t) /\ Located(u)
    BY CallFacts
  <1>2. \A x \in {t, u} : call[x].op \notin Batches /\ pc[x] \notin Unguarded
    BY <1>1 DEF Located, Working, Inside, Rewriting, Batches, Passes, Unguarded
  <1>. QED
    BY <1>1, <1>2 DEF Located

\* The steps of a thread of the instance that leave the disk alone.
LEMMA AsideView ==
    ASSUME Control, MineTyped, NEW t \in Threads, View(InstanceOf[t]),
           Elsewhere(t), UNCHANGED <<clock, disk, best, mine>>,
           \/ index'[InstanceOf[t]] = NoIndex
           \/ UNCHANGED <<index, sig>> /\ pc[t] \notin {"pop", "fold"},
           Holding(t)'
    PROVE  View(InstanceOf[t])'
  <1>. DEFINE i == InstanceOf[t]
  <1>1. i \in Instances /\ clock \in Nat /\ clock <= clock /\ mine'[i] = mine[i]
    <2>1. clock \in Nat
      BY BoundsAssumption DEF Control, DiskTyped
    <2>. QED
      BY <2>1, CallFacts
  <1>2. \A k \in Keys : Carries(i, k) /\ Leaves(i, k)
    BY <1>1, StillCarries DEF disk
  <1>3. Vacant'
    BY DEF View, Vacant, disk
  <1>4. \A u \in Threads : InstanceOf[u] = i =>
            Holding(u)' \/ (pc'[u] = pc[u] /\ call'[u] = call[u])
    BY DEF Elsewhere
  <1>5. index'[i] # NoIndex =>
            /\ index'[i] = index[i] /\ sig'[i] = sig[i]
            /\ Undisturbed(i)' => Undisturbed(i)
            /\ \A k \in Keys : Folding(i, k) => Folding(i, k)'
    BY DEF Undisturbed, Folding, Elsewhere
  <1>. QED
    BY <1>1, <1>2, <1>3, <1>4, <1>5, ViewStays

Bare == {"scan", "keep", "fold", "serve"}
LEMMA BareHolding ==
    ASSUME NEW t \in Threads, pc'[t] \notin Bare
    PROVE  Holding(t)'
  BY DEF Bare, Holding

LEMMA CallView ==
    ASSUME Control, MineTyped, NEW t \in Threads, View(InstanceOf[t]),
           \/ \E k \in Keys, life \in world.lifetimes[t] : Stamp(t, k, life)
           \/ \E op \in Ops, k \in Keys \cup {NoKey} : Begin(t, op, k)
           \/ Enter(t) \/ Serve(t) \/ Invalidate(t) \/ Verify(t) \/ OpenLock(t)
           \/ StartPass(t) \/ ReadLogs(t) \/ Pop(t)
    PROVE  View(InstanceOf[t])'
  <1>. USE DEF Goto, Elsewhere, Bare, Control, CallsTyped
  <1>1. Elsewhere(t) /\ pc'[t] \notin Bare
    <2>1. CASE \/ \E k \in Keys, life \in world.lifetimes[t] : Stamp(t, k, life)
               \/ \E op \in Ops, k \in Keys \cup {NoKey} : Begin(t, op, k)
      BY <2>1, BeginAside
    <2>3. CASE Enter(t)
      BY <2>3 DEF Enter
    <2>4. CASE Serve(t)
      BY <2>4 DEF Serve, Return
    <2>5. CASE Invalidate(t)
      BY <2>5 DEF Invalidate
    <2>6. CASE Verify(t)
      BY <2>6 DEF Verify, Return
    <2>7. CASE OpenLock(t)
      BY <2>7 DEF OpenLock
    <2>8. CASE StartPass(t)
      BY <2>8 DEF StartPass, Return
    <2>9. CASE ReadLogs(t)
      BY <2>9 DEF ReadLogs, Return
    <2>10. CASE Pop(t)
      BY <2>10 DEF Pop, Return
    <2>. QED
      BY <2>1, <2>3, <2>4, <2>5, <2>6, <2>7, <2>8, <2>9, <2>10
  <1>2. UNCHANGED <<clock, disk, best, mine>>
    BY DEF Stamp, Begin, Enter, Serve, Invalidate, Verify, OpenLock, StartPass,
           ReadLogs, Pop, history
  <1>3. \/ index'[InstanceOf[t]] = NoIndex
        \/ UNCHANGED <<index, sig>> /\ pc[t] \notin {"pop", "fold"}
    <2>1. CASE Invalidate(t) \/ Pop(t)
      BY <2>1, CallFacts DEF Invalidate, Pop, Forget, Control, MemoryTyped
    <2>2. CASE ~(Invalidate(t) \/ Pop(t))
      BY <2>2 DEF Stamp, Begin, Enter, Serve, Verify, OpenLock, StartPass,
                  ReadLogs, memory
    <2>. QED
      BY <2>1, <2>2
  <1>4. Holding(t)'
    BY <1>1, BareHolding
  <1>. QED
    BY <1>1, <1>2, <1>3, <1>4, AsideView

\* A thread finds the index current, or takes the sizes for a new one.
LEMMA CheckView ==
    ASSUME Control, MineTyped, NEW t \in Threads, View(InstanceOf[t]), Check(t)
    PROVE  View(InstanceOf[t])'
  <1>. DEFINE i == InstanceOf[t]
  <1>1. /\ pc[t] = "check" /\ UNCHANGED <<clock, disk, best, mine, index, sig>>
        /\ i \in Instances /\ call[t] \in Calls /\ UNCHANGED <<files, log>>
    BY CallFacts DEF Check, history, disk
  <1>2. CASE Goto(t, "fetch") /\ UNCHANGED call
    <2>1. Elsewhere(t) /\ pc'[t] \notin Bare
      BY <1>2 DEF Goto, Elsewhere, Bare, Control, CallsTyped
    <2>. QED
      BY <1>1, <2>1, BareHolding, AsideView
  <1>3. CASE ~(Goto(t, "fetch") /\ UNCHANGED call)
    <2>1. /\ call' = [call EXCEPT ![t].sig = CurrentSig] /\ Goto(t, "scan")
      BY <1>3 DEF Check
    <2>2. /\ Elsewhere(t) /\ pc'[t] = "scan" /\ call'[t].sig = CurrentSig
      BY <1>1, <2>1 DEF Goto, Elsewhere, Control, CallsTyped, Calls
    <2>3. LogsTyped /\ files \subseteq Writers
      BY ControlFacts DEF Control, DiskTyped
    <2>4. PICK s \in Sigs : s = CurrentSig
      BY BuildTyped
    <2>5. \A v \in files : Len(log[v]) \in Nat
      BY <2>3, LogFacts
    <2>6. Known(i, s)'
      BY <1>1, <2>4, <2>5 DEF Known, CurrentSig
    <2>7. Holding(t)'
      BY <2>2, <2>4, <2>6 DEF Holding
    <2>. QED
      BY <1>1, <2>2, <2>7, AsideView
  <1>. QED
    BY <1>2, <1>3

\* A get takes its location from an index that stands.
LEMMA FetchView ==
    ASSUME Control, MineTyped, NEW t \in Threads, View(InstanceOf[t]), Fetch(t)
    PROVE  View(InstanceOf[t])'
  <1>. DEFINE i == InstanceOf[t]
  <1>1. /\ pc[t] = "fetch" /\ UNCHANGED <<clock, disk, best, mine, index, sig>>
        /\ i \in Instances /\ clock \in Nat /\ clock <= clock
        /\ Located(t) /\ call[t] \in Calls /\ UNCHANGED <<files, log>>
    <2>1. clock \in Nat
      BY BoundsAssumption DEF Control, DiskTyped
    <2>. QED
      BY <2>1, CallFacts DEF Fetch, memory, history, disk
  <1>2. CASE Return(t)
    <2>1. Elsewhere(t) /\ pc'[t] \notin Bare
      BY <1>2 DEF Return, Goto, Elsewhere, Bare, Control, CallsTyped
    <2>. QED
      BY <1>1, <2>1, BareHolding, AsideView
  <1>3. CASE Use(t, index[i]) /\ index[i] # NoIndex
    <2>1. Elsewhere(t)
      BY <1>3, UseAside
    <2>2. CASE call[t].op # "get"
      <3>1. pc'[t] \notin Bare
        BY <1>3, <2>2 DEF Use, Goto, Control, CallsTyped, Bare
      <3>. QED
        BY <1>1, <2>1, <3>1, BareHolding, AsideView
    <2>3. CASE call[t].op = "get"
      <3>1. call[t].key \in Keys
        BY <1>1, <2>3 DEF Located
      <3>2. PICK k \in Keys : k = call[t].key
        BY <3>1
      <3>3. PICK at \in Locs : at = Lookup(index[i], k)
        BY <1>1, <1>3, LookupTyped DEF Control, MemoryTyped, Locs
      <3>4. /\ pc'[t] = "serve" /\ call'[t].key = k /\ call'[t].loc = at
        BY <1>1, <1>3, <2>3, <3>2, <3>3
        DEF Use, Goto, Control, CallsTyped, Calls
      <3>5. ~Folding(i, k)
        BY <1>1, OneInside DEF Folding, Inside
      <3>6. Good(i, k, at)
        BY <1>3, <3>3, <3>5 DEF View, Standby, Indexed
      <3>7. Good(i, k, at)'
        BY <1>1, <3>6, StillCarries DEF Carries
      <3>8. Holding(t)'
        BY <3>4, <3>7 DEF Holding
      <3>. QED
        BY <1>1, <2>1, <3>8, AsideView
    <2>. QED
      BY <2>2, <2>3
  <1>. QED
    BY <1>2, <1>3 DEF Fetch

\* The winner of the merge, and the frame that comes after every other.
LEMMA PeakWins ==
    ASSUME Control, NEW k \in Keys, NEW a \in Locations(files, k)
    PROVE  /\ Peak(a.log, a.at, k) <=> a = Winner(Locations(files, k))
           /\ a \in Spots /\ a.log \in files /\ a.at \in DOMAIN log[a.log]
           /\ FrameAt(a) = log[a.log][a.at] /\ FrameAt(a).key = k
  <1>. DEFINE S == Locations(files, k)
  <1>1. LogsTyped /\ files \in SUBSET Writers
    BY ControlFacts DEF Control, DiskTyped
  <1>2. /\ S \in SUBSET Spots /\ a \in Spots /\ a.log \in files
        /\ a.at \in DOMAIN log[a.log] /\ FrameAt(a) = log[a.log][a.at]
        /\ FrameAt(a).key = k
    BY <1>1, LocationFacts, SpotFacts DEF FrameAt
  <1>3. ASSUME Peak(a.log, a.at, k) PROVE a = Winner(S)
    <2>1. ASSUME NEW b \in S \ {a} PROVE After(a, b)
      <3>1. /\ b.log \in files /\ b.at \in DOMAIN log[b.log]
            /\ log[b.log][b.at].key = k /\ b = [log |-> b.log, at |-> b.at]
            /\ a = [log |-> a.log, at |-> a.at]
        BY <1>1, <1>2, LocationFacts, SpotFacts DEF FrameAt
      <3>2. b.log = a.log => b.at # a.at
        BY <3>1
      <3>. QED
        BY <1>3, <3>1, <3>2 DEF Peak, Beats, After, FrameAt
    <2>. QED
      BY <1>1, <1>2, <2>1, WinnerFacts
  <1>4. ASSUME a = Winner(S) PROVE Peak(a.log, a.at, k)
    <2>1. ASSUME NEW x \in files, NEW m \in DOMAIN log[x],
                 log[x][m].key = k, x = a.log => m # a.at
          PROVE  Beats(a.log, a.at, x, m)
      <3>. DEFINE b == [log |-> x, at |-> m]
      <3>1. b \in Spots /\ FrameAt(b) = log[x][m]
        BY <1>1, LogFacts DEF FrameAt
      <3>2. b \in S \ {a}
        BY <1>1, <2>1, <3>1, LocationFacts
      <3>3. After(a, b)
        BY <1>1, <1>2, <1>4, <3>2, WinnerFacts
      <3>. QED
        BY <1>2, <3>1, <3>3 DEF After, Beats, FrameAt
    <2>. QED
      BY <1>2, <2>1 DEF Peak, FrameAt
  <1>. QED
    BY <1>2, <1>3, <1>4

\* The scan finds the winner of each key that lives.
LEMMA BuildFacts ==
    ASSUME Control, MineTyped, NEW i \in Instances, NEW k \in Keys, OnTop(k),
           Newer(i, k)
    PROVE  /\ Build(clock).overlay[k] = NoLoc
           /\ Packed(i, k, Build(clock).packed[k])
           /\ Good(i, k, Build(clock).packed[k])
  <1>. DEFINE w == WriterOf[i]
              S == Locations(files, k)
              a == Winner(S)
              loc == Build(clock).packed[k]
  <1>1. /\ LogsTyped /\ files \in SUBSET Writers /\ w \in Writers
        /\ NoLoc \notin Places
    BY ControlFacts, ThreadsAssumption, NoneAssumption DEF Control, DiskTyped
  <1>2. loc = IF S # {} /\ LiveAt(FrameAt(a), clock) THEN a ELSE NoLoc
    BY DEF Build
  <1>3. ASSUME S # {}
        PROVE  /\ a \in S /\ a \in Spots /\ a # NoLoc /\ Peak(a.log, a.at, k)
               /\ a.log \in files /\ a.at \in DOMAIN log[a.log]
               /\ FrameAt(a) = log[a.log][a.at] /\ FrameAt(a).key = k
    <2>1. a \in S
      BY <1>1, <1>3, LocationFacts, WinnerFacts
    <2>. QED
      BY <1>1, <2>1, PeakWins DEF Spots
  <1>4. ASSUME best[k] # Missing, LiveAt(best[k].frame, clock)
        PROVE  S # {} /\ FrameAt(a) = best[k].frame
    <2>1. best[k].writer \in files
      BY <1>4, OnTopExists
    <2>. QED
      BY <1>4, <2>1, OnTopWins
  <1>. HIDE DEF a
  <1>5. Packed(i, k, loc)
    BY <1>2, <1>3, <1>4 DEF Packed, Over
  <1>6. Good(i, k, loc)
    <2>. SUFFICES ASSUME Owed(i, k) PROVE Good(i, k, loc)
      BY DEF Good
    <2>. DEFINE newest == mine[i][k].newest
                least == mine[i][k].frame.time
    <2>1. /\ newest.time >= least /\ newest.time \in Nat /\ least \in Nat
          /\ LiveAt(newest, clock)
      BY MineFacts DEF Newer, Owed
    <2>2. CASE best[k] # Missing /\ best[k].frame = newest
      <3>1. S # {} /\ FrameAt(a) = newest
        BY <1>4, <2>1, <2>2
      <3>2. loc = a /\ Holds(a.log, a.at, k, least)
        BY <1>2, <1>3, <2>1, <3>1 DEF Holds
      <3>. QED
        BY <1>3, <3>1, <3>2 DEF Good
    <2>3. CASE ~(best[k] # Missing /\ best[k].frame = newest)
      <3>. PICK v \in files \ {w} : \E n \in DOMAIN log[v] :
                   /\ Holds(v, n, k, newest.time)
                   /\ \A m \in DOMAIN log[w] :
                         log[w][m].key = k => Beats(v, n, w, m)
        BY <2>3 DEF Newer
      <3>1. PICK n \in DOMAIN log[v] :
                   /\ Holds(v, n, k, newest.time)
                   /\ \A m \in DOMAIN log[w] :
                         log[w][m].key = k => Beats(v, n, w, m)
        OBVIOUS
      <3>. DEFINE b == [log |-> v, at |-> n]
      <3>2. b \in Spots /\ FrameAt(b) = log[v][n] /\ b \in S
        <4>1. b \in Spots /\ FrameAt(b) = log[v][n]
          BY <1>1, LogFacts DEF FrameAt
        <4>. QED
          BY <1>1, <3>1, <4>1, LocationFacts DEF Holds
      <3>3. /\ a \in Spots /\ Peak(a.log, a.at, k) /\ a # NoLoc
            /\ a.log \in files /\ a.at \in DOMAIN log[a.log]
            /\ FrameAt(a) = log[a.log][a.at] /\ FrameAt(a).key = k
        BY <1>3, <3>2
      <3>4. /\ log[v][n].time \in Nat /\ log[a.log][a.at].time \in Nat
            /\ Rank[v] \in Nat /\ Rank[a.log] \in Nat /\ a.at \in Nat /\ n \in Nat
        BY <1>1, <3>2, <3>3, SpotFacts, LogsAssumption
      <3>5. (a.log = v /\ a.at = n) \/ Beats(a.log, a.at, v, n)
        BY <3>1, <3>3 DEF Peak, Holds
      <3>6. a.log # w
        <4>. SUFFICES ASSUME a.log = w PROVE FALSE
          OBVIOUS
        <4>1. Beats(v, n, w, a.at) /\ Beats(w, a.at, v, n)
          BY <3>1, <3>3, <3>5
        <4>. QED
          BY <3>4, <4>1 DEF Beats
      <3>7. Holds(a.log, a.at, k, least)
        <4>1. log[a.log][a.at].time >= log[v][n].time
          BY <3>4, <3>5 DEF Beats
        <4>. QED
          BY <2>1, <3>1, <3>3, <3>4, <4>1 DEF Holds
      <3>8. CASE LiveAt(FrameAt(a), clock)
        BY <1>2, <3>2, <3>3, <3>7, <3>8 DEF Good
      <3>9. CASE ~LiveAt(FrameAt(a), clock)
        <4>1. loc = NoLoc
          BY <1>2, <3>9
        <4>2. a.log \in files \ {w} /\ ~LiveAt(log[a.log][a.at], clock)
          BY <3>3, <3>6, <3>9
        <4>. QED
          BY <3>3, <3>7, <4>1, <4>2 DEF Good
      <3>. QED
        BY <3>8, <3>9
    <2>. QED
      BY <2>2, <2>3
  <1>. QED
    BY <1>5, <1>6 DEF Build

LEMMA ScanView ==
    ASSUME Control, MineTyped, \A k \in Keys : OnTop(k),
           NEW t \in Threads, View(InstanceOf[t]), Scan(t)
    PROVE  View(InstanceOf[t])'
  <1>. DEFINE i == InstanceOf[t]
  <1>1. /\ pc[t] = "scan" /\ i \in Instances /\ call[t] \in Calls
        /\ UNCHANGED <<clock, disk, best, mine, index, sig>>
        /\ call[t].sig \in Sigs /\ clock \in Nat /\ clock <= clock
    <2>1. clock \in Nat
      BY BoundsAssumption DEF Control, DiskTyped
    <2>. QED
      BY <2>1, CallFacts DEF Scan, memory, history
  <1>2. /\ Elsewhere(t) /\ pc'[t] = "keep" /\ call'[t].sig = call[t].sig
        /\ call'[t].built = Build(clock)
    BY <1>1 DEF Scan, Goto, Elsewhere, Control, CallsTyped, Calls
  <1>3. PICK s \in Sigs, ix \in Indexes : s = call[t].sig /\ ix = Build(clock)
    BY <1>1, BuildTyped
  <1>4. Known(i, s)
    BY <1>1, <1>3 DEF View, Holding
  <1>5. ASSUME NEW k \in Keys
        PROVE  /\ ix.overlay[k] = NoLoc /\ Known(i, s)'
               /\ Current(i, s, k, ix.packed[k])' /\ Good(i, k, ix.packed[k])'
    <2>1. Newer(i, k)
      BY DEF View
    <2>2. /\ ix.overlay[k] = NoLoc /\ Good(i, k, ix.packed[k])
          /\ Current(i, s, k, ix.packed[k])
      BY <1>1, <1>3, <1>4, <2>1, BuildFacts DEF Current
    <2>3. Carries(i, k)
      BY <1>1, StillCarries DEF disk
    <2>4. ix.packed[k] \in Locs
      BY DEF Indexes, Locs
    <2>. QED
      BY <1>4, <2>2, <2>3, <2>4 DEF Carries
  <1>6. Known(i, s)'
    BY <1>1, <1>4 DEF Known, disk
  <1>7. Holding(t)'
    BY <1>2, <1>3, <1>5, <1>6 DEF Holding
  <1>. QED
    BY <1>1, <1>2, <1>7, AsideView

\* While t is inside, the other threads of its instance carry nothing.
LEMMA OthersBare ==
    ASSUME Control, NEW t \in Threads, pc[t] \in Inside, Elsewhere(t),
           NEW u \in Threads, InstanceOf[u] = InstanceOf[t], u # t
    PROVE  Holding(u)' /\ pc[u] # "fold"
  <1>1. pc[u] \notin Inside
    BY OneInside
  <1>2. pc'[u] = pc[u]
    BY DEF Elsewhere
  <1>. QED
    BY <1>1, <1>2, BareHolding DEF Inside, Bare

LEMMA KeepView ==
    ASSUME Control, MineTyped, NEW t \in Threads, View(InstanceOf[t]), Keep(t)
    PROVE  View(InstanceOf[t])'
  <1>. DEFINE i == InstanceOf[t]
              c == call[t]
  <1>1. /\ pc[t] = "keep" /\ UNCHANGED <<clock, disk, best, mine>>
        /\ i \in Instances /\ clock \in Nat /\ clock <= clock
        /\ Located(t) /\ c \in Calls /\ c.sig \in Sigs /\ c.built \in Indexes
    <2>1. clock \in Nat
      BY BoundsAssumption DEF Control, DiskTyped
    <2>. QED
      BY <2>1, CallFacts DEF Keep, history, Located
  <1>2. /\ index'[i] = c.built /\ sig'[i] = c.sig /\ Use(t, c.built)
    BY <1>1 DEF Keep, Control, MemoryTyped
  <1>3. Elsewhere(t) /\ Holding(t)
    BY <1>2, UseAside DEF View
  <1>4. PICK s \in Sigs, ix \in Indexes : s = c.sig /\ ix = c.built
    BY <1>1
  <1>5. \A k \in Keys : Carries(i, k)
    BY <1>1, StillCarries DEF disk
  <1>6. ASSUME NEW k \in Keys
        PROVE  /\ ix.overlay[k] = NoLoc /\ Known(i, s)'
               /\ Current(i, s, k, ix.packed[k])' /\ Good(i, k, ix.packed[k])'
    <2>1. /\ ix.overlay[k] = NoLoc /\ Known(i, s)
          /\ Current(i, s, k, ix.packed[k]) /\ Good(i, k, ix.packed[k])
      BY <1>1, <1>3, <1>4 DEF Holding
    <2>2. ix.packed[k] \in Locs
      BY DEF Indexes, Locs
    <2>. QED
      BY <1>5, <2>1, <2>2 DEF Carries
  <1>7. \A k \in Keys : Lookup(ix, k) = ix.packed[k]
    BY <1>6, NoneAssumption DEF Lookup
  <1>8. Standby(i)'
    BY <1>2, <1>4, <1>6, <1>7 DEF Standby, Indexed
  <1>9. Holding(t)'
    <2>1. CASE c.op # "get"
      <3>1. pc'[t] \notin Bare
        BY <1>2, <2>1 DEF Use, Goto, Control, CallsTyped, Bare
      <3>. QED
        BY <3>1, BareHolding
    <2>2. CASE c.op = "get"
      <3>1. PICK k \in Keys : k = c.key
        BY <1>1, <2>2 DEF Located
      <3>2. PICK at : at = ix.packed[k]
        OBVIOUS
      <3>3. /\ pc'[t] = "serve" /\ call'[t].key = k /\ call'[t].loc = at
        BY <1>1, <1>2, <1>4, <1>7, <2>2, <3>1, <3>2
        DEF Use, Goto, Control, CallsTyped, Calls
      <3>4. Good(i, k, at)'
        BY <1>6, <3>2
      <3>. QED
        BY <3>3, <3>4 DEF Holding
    <2>. QED
      BY <2>1, <2>2
  <1>10. \A u \in Threads : InstanceOf[u] = i => Holding(u)'
    BY <1>1, <1>3, <1>9, OthersBare DEF Inside
  <1>11. Vacant' /\ \A k \in Keys : Newer(i, k)'
    BY <1>1, <1>5 DEF View, Vacant, disk, Carries
  <1>. QED
    BY <1>8, <1>10, <1>11 DEF View

\* Sizes that differ in our own log alone say the same of the peers.
LEMMA PeersSame ==
    ASSUME NEW i, NEW x, NEW y,
           DOMAIN x \ {WriterOf[i]} = DOMAIN y \ {WriterOf[i]},
           \A v \in DOMAIN x \ {WriterOf[i]} : y[v] = x[v]
    PROVE  /\ Known(i, x)' => Known(i, y)'
           /\ \A k, loc : Current(i, x, k, loc)' => Current(i, y, k, loc)'
  <1>1. /\ Known(i, x)' => Known(i, y)'
        /\ Unmoved(i, y)' => Unmoved(i, x)'
    BY DEF Known, Unmoved
  <1>. QED
    BY <1>1 DEF Current

LEMMA FoldView ==
    ASSUME Control, MineTyped, NEW t \in Threads, View(InstanceOf[t]), Fold(t)
    PROVE  View(InstanceOf[t])'
  <1>. DEFINE i == InstanceOf[t]
              w == WriterOf[i]
              c == call[t]
  <1>1. /\ pc[t] = "fold" /\ UNCHANGED <<clock, disk, best, mine>>
        /\ i \in Instances /\ clock \in Nat /\ clock <= clock
        /\ c.key \in Keys /\ c.op \in {"set", "delete"}
        /\ c.loc \in Places /\ sig[i] \in Sigs
    <2>1. clock \in Nat
      BY BoundsAssumption DEF Control, DiskTyped
    <2>2. pc[t] = "fold" /\ UNCHANGED <<clock, disk, best, mine>>
      BY DEF Fold, history
    <2>3. c.op \in {"set", "delete"}
      BY <2>2, CallFacts DEF Located, Working, Rewriting
    <2>. QED
      BY <2>1, <2>2, <2>3, CallFacts DEF Located, Control, MemoryTyped
  <1>2. Elsewhere(t) /\ pc'[t] \in {"pass", "idle"}
    BY DEF Fold, Return, Goto, Elsewhere, Control, CallsTyped
  <1>3. PICK j \in Keys, x \in Sigs, at \in Locs, e \in Places \cup {Deleted} :
            /\ j = c.key /\ x = sig[i]
            /\ at = (IF c.op = "delete" THEN NoLoc ELSE c.loc)
            /\ e = (IF c.op = "delete" THEN Deleted ELSE c.loc)
    BY <1>1 DEF Locs
  <1>4. PICK y : /\ y = sig'[i] /\ DOMAIN y \ {w} = DOMAIN x \ {w}
                 /\ \A v \in DOMAIN x \ {w} : y[v] = x[v]
    <2>1. sig'[i] = Resized(i, c.loc.at)
      BY <1>1 DEF Fold, Control, MemoryTyped
    <2>2. PICK y : y = sig'[i]
      OBVIOUS
    <2>. QED
      BY <1>3, <2>1, <2>2 DEF Resized
  <1>5. \A k \in Keys : Carries(i, k) /\ Leaves(i, k)
    BY <1>1, StillCarries DEF disk
  <1>6. /\ Good(i, j, at)
        /\ index[i] # NoIndex /\ Undisturbed(i) => Written(i, j, e)
    BY <1>1, <1>3 DEF View, Holding
  <1>7. Undisturbed(i)' => Undisturbed(i)
    BY <1>1, <1>2 DEF Undisturbed, Elsewhere
  <1>8. Vacant' /\ \A k \in Keys : Newer(i, k)'
    BY <1>1, <1>5 DEF View, Vacant, disk, Carries
  <1>9. \A u \in Threads : InstanceOf[u] = i => Holding(u)'
    BY <1>1, <1>2, OthersBare, BareHolding DEF Inside, Bare
  <1>10. Standby(i)'
    <2>1. CASE index[i] = NoIndex
      BY <1>1, <2>1 DEF Fold, Standby
    <2>2. CASE index[i] # NoIndex
      <3>1. index[i] \in Indexes
        BY <1>1, <2>2 DEF Control, MemoryTyped
      <3>2. index'[i] = [index[i] EXCEPT !.overlay[j] = e]
        BY <1>1, <1>3, <2>2 DEF Fold, Control, MemoryTyped
      <3>3. /\ index'[i].overlay[j] = e /\ index'[i].packed = index[i].packed
            /\ \A k \in Keys \ {j} :
                  index'[i].overlay[k] = index[i].overlay[k]
        BY <3>1, <3>2 DEF Indexes
      <3>4. index'[i] # NoIndex
        <4>1. index'[i] \in Indexes
          BY <3>1, <3>2 DEF Indexes
        <4>. QED
          BY <4>1, NoneAssumption
      <3>5. Known(i, x) /\ \A k \in Keys \ {j} : Indexed(i, k)
        <4>1. \A k \in Keys \ {j} : ~Folding(i, k)
          BY <1>1, <1>2, <1>3, OthersBare DEF Folding, Inside
        <4>. QED
          BY <1>3, <2>2, <4>1 DEF View, Standby
      <3>6. Known(i, x)' /\ Known(i, y)'
        BY <1>3, <1>4, <1>5, <3>5, PeersSame DEF Carries
      <3>7. ASSUME NEW k \in Keys \ {j} PROVE Indexed(i, k)'
        <4>1. \A s \in Sigs, loc \in Locs :
                  s = sig[i] /\ Current(i, s, k, loc)' => Current(i, sig[i], k, loc)'
          BY <1>3, <1>4, PeersSame
        <4>. QED
          BY <1>1, <1>3, <1>5, <1>7, <2>2, <3>3, <3>4, <3>5, <4>1, IndexedStays
      <3>8. Indexed(i, j)'
        <4>1. Lookup(index'[i], j) = at /\ e # NoLoc
          BY <1>1, <1>3, <3>3, NoneAssumption DEF Lookup
        <4>2. Good(i, j, at)'
          BY <1>5, <1>6 DEF Carries
        <4>3. Undisturbed(i)' => Written(i, j, e)'
          BY <1>5, <1>6, <1>7, <2>2 DEF Leaves
        <4>. QED
          BY <3>3, <4>1, <4>2, <4>3 DEF Indexed
      <3>. QED
        BY <1>4, <3>6, <3>7, <3>8 DEF Standby
    <2>. QED
      BY <2>1, <2>2
  <1>. QED
    BY <1>8, <1>9, <1>10 DEF View

\* A frame f that w appends comes before one of its key that is on disk.
Beaten(w, f) ==
    \E v \in files : \E m \in DOMAIN log[v] :
        /\ log[v][m].key = f.key
        /\ \/ log[v][m].time > f.time
           \/ log[v][m].time = f.time /\ Rank[v] > Rank[w]

\* It is the best of its key from now on, or the best one stays.
Leads(t, f) ==
    /\ Wins(Own(t), f) /\ best'[f.key] # Missing
    /\ best'[f.key].frame = f /\ best'[f.key].writer = Own(t)
    /\ mine'[InstanceOf[t]][f.key].newest = f
Follows(t, f) ==
    /\ Beaten(Own(t), f) /\ best' = best
    /\ best[f.key] # Missing =>
          mine'[InstanceOf[t]][f.key].newest = best[f.key].frame

\* An append in terms of the frames: the record comes after everything on disk,
\* or one of them comes after it.
Appended(t, f) ==
    /\ Appends(Own(t), f) /\ f.key \in Keys /\ Own(t) \in Writers
    /\ pc[t] = "append" /\ LockFree(t) /\ Elsewhere(t)
    /\ pc'[t] = "fold" /\ call'[t].key = f.key /\ call'[t].op = call[t].op
    /\ call'[t].loc = [log |-> Own(t), at |-> Len(log[Own(t)]) + 1]
    /\ f.dead <=> call[t].op = "delete"
    /\ UNCHANGED <<world, clock, lock, index, sig, split>>
    /\ \A i \in Instances \ {InstanceOf[t]} : mine'[i] = mine[i]
    /\ \A k \in Keys \ {f.key} :
          /\ best'[k] = best[k]
          /\ mine'[InstanceOf[t]][k] = mine[InstanceOf[t]][k]
    /\ mine'[InstanceOf[t]][f.key].frame = f
    /\ Leads(t, f) \/ Follows(t, f)

LEMMA AppendFrameEffect ==
    ASSUME Control, MineTyped, NEW t \in Threads, AppendFrame(t),
           NEW f \in Frames, f = Made(t)
    PROVE  Appended(t, f)
  <1>. DEFINE w == Own(t)
              i == InstanceOf[t]
              k == f.key
              wins == \A a \in Locations(files, k) :
                         \/ f.time > FrameAt(a).time
                         \/ f.time = FrameAt(a).time /\ Rank[w] >= Rank[a.log]
  <1>1. /\ k \in Keys /\ w \in Writers /\ i \in Instances
    BY AppendFrameFacts, CallFacts
  <1>2. /\ Appends(w, f) /\ pc[t] = "append" /\ LockFree(t)
        /\ UNCHANGED <<world, clock, lock, index, sig, split>>
        /\ f.dead <=> call[t].op = "delete"
        /\ best' = IF wins THEN [best EXCEPT ![k] = [writer |-> w, frame |-> f]]
                   ELSE best
        /\ mine' = [mine EXCEPT ![i][k] =
              [frame |-> f, newest |-> IF wins \/ best[k] = Missing
                                       THEN f ELSE best[k].frame]]
    BY DEF AppendFrame, Appends, Made, memory
  <1>3. /\ Elsewhere(t) /\ pc'[t] = "fold" /\ call'[t].key = k
        /\ call'[t].op = call[t].op
        /\ call'[t].loc = [log |-> w, at |-> Len(log[w]) + 1]
    BY CallFacts
    DEF AppendFrame, Goto, Elsewhere, Control, CallsTyped, Calls, Made
  <1>4. LogsTyped /\ files \in SUBSET Writers
    BY ControlFacts DEF Control, DiskTyped
  <1>5. f.time \in Nat /\ Rank[w] \in Nat
    BY <1>1, FrameFacts, LogsAssumption
  <1>6. wins => Wins(w, f)
    <2>. SUFFICES ASSUME wins, NEW v \in files, NEW m \in DOMAIN log[v],
                         log[v][m].key = k
                  PROVE  \/ f.time > log[v][m].time
                         \/ f.time = log[v][m].time /\ Rank[w] >= Rank[v]
      BY DEF Wins
    <2>. DEFINE a == [log |-> v, at |-> m]
    <2>1. a \in Spots /\ FrameAt(a) = log[v][m]
      BY <1>4, LogFacts DEF FrameAt
    <2>2. a \in Locations(files, k)
      BY <1>4, <2>1, LocationFacts
    <2>. QED
      BY <2>1, <2>2
  <1>7. ~wins => Beaten(w, f)
    <2>. SUFFICES ASSUME NEW a \in Locations(files, k),
                         ~ \/ f.time > FrameAt(a).time
                           \/ f.time = FrameAt(a).time /\ Rank[w] >= Rank[a.log]
                  PROVE  Beaten(w, f)
      OBVIOUS
    <2>1. /\ a \in Spots /\ a.log \in files /\ FrameAt(a).key = k
      BY <1>4, LocationFacts
    <2>2. /\ a.at \in DOMAIN log[a.log] /\ FrameAt(a) = log[a.log][a.at]
          /\ FrameAt(a).time \in Nat /\ Rank[a.log] \in Nat
      BY <1>4, <2>1, SpotFacts DEF FrameAt
    <2>3. \/ log[a.log][a.at].time > f.time
          \/ log[a.log][a.at].time = f.time /\ Rank[a.log] > Rank[w]
      BY <1>5, <2>2
    <2>. QED
      BY <2>1, <2>2, <2>3 DEF Beaten
  <1>. HIDE DEF wins
  <1>8. /\ \A j \in Instances \ {i} : mine'[j] = mine[j]
        /\ \A j \in Keys \ {k} : mine'[i][j] = mine[i][j]
        /\ mine'[i][k] = [frame |-> f, newest |-> IF wins \/ best[k] = Missing
                                                  THEN f ELSE best[k].frame]
    BY <1>1, <1>2 DEF MineTyped
  <1>9. /\ \A j \in Keys \ {k} : best'[j] = best[j]
        /\ wins => best'[k] = [writer |-> w, frame |-> f]
    BY <1>1, <1>2 DEF Control, HistoryTyped
  <1>10. [writer |-> w, frame |-> f] # Missing
    BY <1>1, NoneAssumption
  <1>11. Leads(t, f) \/ Follows(t, f)
    <2>1. CASE wins
      BY <1>6, <1>8, <1>9, <1>10, <2>1 DEF Leads
    <2>2. CASE ~wins
      BY <1>2, <1>7, <1>8, <2>2 DEF Follows
    <2>. QED
      BY <2>1, <2>2
  <1>. QED
    BY <1>1, <1>2, <1>3, <1>8, <1>9, <1>11 DEF Appended

LEMMA AppendVacant ==
    ASSUME Control, MineTyped, NEW t \in Threads, AppendFrame(t), Vacant
    PROVE  Vacant'
  <1>1. PICK f \in Frames : f = Made(t)
    BY AppendFrameFacts
  <1>2. /\ Appends(Own(t), f) /\ Own(t) \in Writers
        /\ \A j \in Keys \ {f.key} : best'[j] = best[j]
        /\ Leads(t, f) \/ Follows(t, f)
    <2>1. Appended(t, f)
      BY <1>1, AppendFrameEffect
    <2>. QED
      BY <2>1 DEF Appended
  <1>3. ASSUME NEW k \in Keys, best'[k] = Missing, NEW v \in files',
               NEW n \in DOMAIN log'[v], log'[v][n].key = k
        PROVE  FALSE
    <2>1. best[k] = Missing /\ k # f.key
      <3>1. CASE k # f.key
        BY <1>2, <1>3, <3>1
      <3>2. CASE k = f.key
        <4>1. PICK x \in files : \E m \in DOMAIN log[x] : log[x][m].key = k
          BY <1>3, <3>2, <1>2 DEF Leads, Follows, Beaten
        <4>2. best'[k] = best[k]
          BY <1>3, <3>2, <1>2 DEF Leads, Follows
        <4>. QED
          BY <1>3, <4>1, <4>2 DEF Vacant
      <3>. QED
        BY <3>1, <3>2
    <2>2. v \in files /\ n \in DOMAIN log[v] /\ log'[v][n] = log[v][n]
      BY <1>2, <1>3, <2>1, AppendsFacts
    <2>. QED
      BY <1>3, <2>1, <2>2 DEF Vacant
  <1>. QED
    BY <1>3 DEF Vacant

\* The instance appends: the record is the newest of its key, or follows it.
LEMMA OwnAppendView ==
    ASSUME Control, MineTyped, \A k \in Keys : OnTop(k),
           NEW t \in Threads, View(InstanceOf[t]), AppendFrame(t)
    PROVE  View(InstanceOf[t])'
  <1>. DEFINE i == InstanceOf[t]
              w == WriterOf[i]
  <1>1. PICK f \in Frames : f = Made(t)
    BY AppendFrameFacts
  <1>0. Appended(t, f)
    BY <1>1, AppendFrameEffect
  <1>2. PICK j \in Keys : j = f.key
    BY <1>0 DEF Appended
  <1>3. PICK p \in Nat : p = Len(log[w]) + 1
    <2>1. Len(log[w]) + 1 \in Nat
      BY ThreadsAssumption, SizeFacts
    <2>. QED
      BY <2>1
  <1>4. /\ i \in Instances /\ w \in Writers /\ Own(t) = w /\ LogsTyped
        /\ clock \in Nat /\ files \subseteq Writers
        /\ \A v \in Writers \ files : log[v] = <<>>
    BY CallFacts, ControlFacts, BoundsAssumption DEF Own, Control, DiskTyped
  <1>5. /\ Appends(w, f) /\ pc[t] = "append" /\ Elsewhere(t) /\ pc'[t] = "fold"
        /\ call'[t].key = j /\ call'[t].op = call[t].op
        /\ call'[t].loc = [log |-> w, at |-> p]
        /\ f.dead <=> call[t].op = "delete"
        /\ clock' = clock /\ UNCHANGED <<index, sig>>
        /\ \A k \in Keys \ {j} : best'[k] = best[k] /\ mine'[i][k] = mine[i][k]
        /\ mine'[i][j].frame = f
    BY <1>0, <1>2, <1>3, <1>4 DEF Appended
  <1>6. \/ /\ best'[j] # Missing /\ best'[j].frame = f
           /\ mine'[i][j].newest = f
        \/ /\ best' = best /\ Beaten(w, f)
           /\ best[j] # Missing => mine'[i][j].newest = best[j].frame
    <2>1. Leads(t, f) \/ Follows(t, f)
      BY <1>0 DEF Appended
    <2>. QED
      BY <1>2, <1>4, <2>1 DEF Leads, Follows
  <1>7. ASSUME NEW k \in Keys \ {j}
        PROVE  Carries(i, k) /\ Leaves(i, k)
    BY <1>2, <1>4, <1>5, OwnCarries
  <1>8. /\ p \in DOMAIN log'[w] /\ log'[w][p] = f /\ w \in files'
        /\ \A v \in Writers \ {w} : log'[v] = log[v]
        /\ \A v \in files' : \A m \in DOMAIN log'[v] :
                 \/ v \in files /\ m \in DOMAIN log[v] /\ log'[v][m] = log[v][m]
                 \/ v = w /\ m = p /\ log'[v][m] = f
        /\ \A m \in DOMAIN log[w] : m < p
    <2>1. w \in files'
      BY <1>5 DEF Appends
    <2>. QED
      BY <1>3, <1>4, <1>5, <2>1, AppendsFacts
  <1>9. Newer(i, j)'
    <2>. SUFFICES ASSUME Owed(i, j)' PROVE Newer(i, j)'
      BY DEF Newer
    <2>1. f.time \in Nat
      BY FrameFacts
    <2>2. CASE /\ best'[j] # Missing /\ best'[j].frame = f
               /\ mine'[i][j].newest = f
      <3>1. mine'[i][j].newest.time >= mine'[i][j].frame.time
        BY <1>5, <2>1, <2>2
      <3>. QED
        BY <2>2, <3>1 DEF Newer
    <2>3. CASE /\ best' = best /\ Beaten(w, f)
               /\ best[j] # Missing => mine'[i][j].newest = best[j].frame
      <3>1. PICK v \in files, m \in Nat :
                /\ m \in DOMAIN log[v] /\ log[v][m].key = j
                /\ log[v][m].time >= f.time /\ log[v][m].time \in Nat
        <4>1. PICK v \in files : \E m \in DOMAIN log[v] :
                  /\ log[v][m].key = j
                  /\ \/ log[v][m].time > f.time
                     \/ log[v][m].time = f.time /\ Rank[v] > Rank[w]
          BY <1>2, <2>3 DEF Beaten
        <4>2. PICK m \in DOMAIN log[v] :
                  /\ log[v][m].key = j
                  /\ \/ log[v][m].time > f.time
                     \/ log[v][m].time = f.time /\ Rank[v] > Rank[w]
          BY <4>1
        <4>3. log[v][m].time \in Nat /\ m \in Nat
          BY <1>4, LogFacts, FrameFacts
        <4>. QED
          BY <2>1, <4>2, <4>3
      <3>2. best[j] # Missing
        BY <3>1 DEF View, Vacant
      <3>3. /\ mine'[i][j].newest = best[j].frame
            /\ LiveAt(best[j].frame, clock)
        BY <1>5, <2>3, <3>2 DEF Owed
      <3>4. PICK n \in Nat : Tops(j, n)
        BY <3>2, <3>3 DEF OnTop
      <3>5. best[j].frame.time \in Nat
        BY <3>2, StandFacts
      <3>6. best[j].frame.time >= log[v][m].time
        <4>1. CASE v = best[j].writer /\ m = n
          BY <3>1, <3>4, <4>1 DEF Tops
        <4>2. CASE ~(v = best[j].writer /\ m = n)
          BY <3>1, <3>4, <3>5, <4>2 DEF Tops
        <4>. QED
          BY <4>1, <4>2
      <3>7. mine'[i][j].newest.time >= mine'[i][j].frame.time
        BY <1>5, <2>1, <3>1, <3>3, <3>5, <3>6
      <3>. QED
        BY <2>3, <3>2, <3>3, <3>7 DEF Newer
    <2>. QED
      BY <1>6, <2>2, <2>3
  <1>10. Vacant'
    BY AppendVacant DEF View
  <1>11. Holding(t)'
    <2>. DEFINE at == IF call[t].op = "delete" THEN NoLoc ELSE [log |-> w, at |-> p]
                e == IF call[t].op = "delete" THEN Deleted
                     ELSE [log |-> w, at |-> p]
    <2>1. PICK x, y : x = at /\ y = e
      OBVIOUS
    <2>2. Good(i, j, x)'
      <3>. SUFFICES ASSUME Owed(i, j)' PROVE Good(i, j, x)'
        BY DEF Good
      <3>1. call[t].op # "delete"
        BY <1>5 DEF Owed, LiveAt
      <3>2. x = [log |-> w, at |-> p] /\ x # NoLoc
        <4>1. LogsTyped' /\ w \in Writers
          BY <1>4, AppendFrameControl, ControlFacts, PTL
        <4>2. [log |-> w, at |-> p] \in Places
          <5>1. log'[w] \in Seq(Frames) /\ Len(log'[w]) <= MaxRecords + MaxCrashes
            BY <4>1 DEF LogsTyped
          <5>2. DOMAIN log'[w] = 1 .. Len(log'[w]) /\ Len(log'[w]) \in Nat
            BY <5>1, LenProperties
          <5>3. p \in 1 .. MaxRecords + MaxCrashes
            BY <1>8, <5>1, <5>2, BoundsAssumption
          <5>. QED
            BY <1>4, <5>3 DEF Places
        <4>. QED
          BY <2>1, <3>1, <4>2, NoneAssumption
      <3>3. f.time \in Nat
        BY FrameFacts
      <3>4. Holds(w, p, j, f.time)'
        BY <1>2, <1>8, <3>3 DEF Holds
      <3>. QED
        BY <1>5, <3>2, <3>4 DEF Good, Holds
    <2>3. Written(i, j, y)'
      <3>1. \A m \in DOMAIN log'[w] : m <= p
        BY <1>3, <1>4, <1>8, LogFacts
      <3>2. y = [log |-> w, at |-> p] \/ (y = Deleted /\ f.dead)
        BY <1>5, <2>1
      <3>. QED
        BY <1>2, <1>8, <3>1, <3>2 DEF Written
    <2>. QED
      BY <1>5, <2>1, <2>2, <2>3 DEF Holding
  <1>12. \A u \in Threads : InstanceOf[u] = i => Holding(u)'
    BY <1>5, <1>11, OthersBare DEF Inside
  <1>13. Standby(i)'
    <2>. SUFFICES ASSUME index'[i] # NoIndex, NEW k \in Keys
                  PROVE  Known(i, sig[i])' /\ (Folding(i, k)' \/ Indexed(i, k)')
      BY DEF Standby
    <2>1. PICK s \in Sigs : s = sig[i]
      BY <1>4 DEF Control, MemoryTyped
    <2>2. Known(i, s) /\ (Folding(i, k) \/ Indexed(i, k))
      BY <1>5, <2>1 DEF View, Standby
    <2>3. Known(i, s)'
      <3>1. \A v \in DOMAIN s : v \in Writers
        BY DEF Sigs
      <3>. QED
        BY <1>5, <1>8, <2>2, <3>1 DEF Known, Appends
    <2>4. CASE k = j
      BY <1>5, <2>1, <2>3, <2>4 DEF Folding
    <2>5. CASE k # j
      <3>1. ~Folding(i, k)
        BY <1>5, OthersBare DEF Folding, Inside
      <3>2. Undisturbed(i)' => Undisturbed(i)
        BY <1>5 DEF Undisturbed, Elsewhere
      <3>3. \A x \in Sigs, loc \in Locs :
                x = sig[i] /\ Current(i, x, k, loc)' => Current(i, sig[i], k, loc)'
        BY <1>5
      <3>4. Indexed(i, k)'
        BY <1>4, <1>5, <1>7, <2>1, <2>2, <2>5, <3>1, <3>2, <3>3, IndexedStays
      <3>. QED
        BY <1>5, <2>1, <2>3, <3>4
    <2>. QED
      BY <2>4, <2>5
  <1>14. \A k \in Keys : Newer(i, k)'
    BY <1>7, <1>9 DEF View, Carries
  <1>. QED
    BY <1>10, <1>12, <1>13, <1>14 DEF View

\* A rewrite keeps, of each key, what wins in our log.
LEMMA ReplaceView ==
    ASSUME Control, MineTyped, NEW t \in Threads, View(InstanceOf[t]),
           Replace(t), InHand(t), Heads(t)
    PROVE  View(InstanceOf[t])'
  <1>. DEFINE i == InstanceOf[t]
              w == Own(t)
  <1>1. /\ i \in Instances /\ pc[t] = "replace" /\ Elsewhere(t) /\ pc'[t] = "pop"
        /\ UNCHANGED <<clock, best, mine, index, sig>>
    BY CallFacts
    DEF Replace, Goto, Elsewhere, Control, CallsTyped, memory, history
  <1>2. \A k \in Keys : Carries(i, k)
    BY RewriteCarries
  <1>3. ~Undisturbed(i)'
    BY <1>1 DEF Undisturbed
  <1>4. \A k \in Keys : Folding(i, k) => Folding(i, k)'
    BY <1>1 DEF Folding, Elsewhere
  <1>5. Vacant'
    <2>1. /\ log'[w] = call[t].hand /\ w \in Writers
          /\ \A v \in Writers \ {w} : log'[v] = log[v] /\ (v \in files' => v \in files)
          /\ files' \subseteq Writers /\ Range(call[t].hand) \subseteq Range(log[w])
          /\ \A v \in Writers \ files : log[v] = <<>>
      BY <1>1, CallFacts DEF Replace, Control, DiskTyped, InHand
    <2>. SUFFICES ASSUME NEW k \in Keys, best[k] = Missing, NEW v \in files',
                         NEW n \in DOMAIN log'[v], log'[v][n].key = k
                  PROVE  FALSE
      BY <1>1 DEF Vacant
    <2>2. \A x \in files : \A m \in DOMAIN log[x] : log[x][m].key # k
      BY DEF View, Vacant
    <2>3. CASE v = w
      <3>1. log'[v][n] \in Range(log[w])
        BY <2>1, <2>3 DEF Range
      <3>2. PICK m \in DOMAIN log[w] : log[w][m] = log'[v][n]
        BY <3>1 DEF Range
      <3>3. w \in files
        <4>1. DOMAIN <<>> = {}
          OBVIOUS
        <4>. QED
          BY <2>1, <3>2, <4>1
      <3>. QED
        BY <2>2, <3>2, <3>3
    <2>4. CASE v # w
      BY <2>1, <2>2, <2>4
    <2>. QED
      BY <2>3, <2>4
  <1>6. \A u \in Threads : InstanceOf[u] = i =>
            Holding(u)' \/ (pc'[u] = pc[u] /\ call'[u] = call[u])
    <2>1. Holding(t)'
      BY <1>1, BareHolding DEF Bare
    <2>. QED
      BY <1>1, <2>1 DEF Elsewhere
  <1>. QED
    BY <1>1, <1>2, <1>3, <1>4, <1>5, <1>6, ViewStays

\* An instance that holds no index and has promised nothing.
LEMMA BlankView ==
    ASSUME NEW i \in Instances, Vacant', index'[i] = NoIndex,
           \A k \in Keys : mine'[i][k] = Missing,
           \A u \in Threads : InstanceOf[u] = i => pc'[u] \notin Bare
    PROVE  View(i)'
  <1>1. \A k \in Keys : Newer(i, k)'
    BY DEF Newer, Owed
  <1>2. \A u \in Threads : InstanceOf[u] = i => Holding(u)'
    BY BareHolding
  <1>3. Standby(i)'
    BY DEF Standby
  <1>. QED
    BY <1>1, <1>2, <1>3 DEF View

\* A clear leaves the instance with no index and nothing promised.
LEMMA WipeView ==
    ASSUME Control, MineTyped, NEW t \in Threads, View(InstanceOf[t]), Wipe(t),
           \A u \in Threads : pc[u] = "replace" => Own(u) = Own(t)
    PROVE  View(InstanceOf[t])'
  <1>. DEFINE i == InstanceOf[t]
              w == Own(t)
              left(k) == Locations(files \ {w}, k)
  <1>1. /\ i \in Instances /\ w \in Writers /\ WriterOf[i] = w
        /\ Elsewhere(t) /\ pc[t] = "wipe" /\ pc'[t] = "idle"
        /\ files' = files \ {w} /\ files \subseteq Writers
        /\ \A v \in Writers \ {w} : log'[v] = log[v]
        /\ index'[i] = NoIndex
        /\ \A k \in Keys : mine'[i][k] = Missing
        /\ \A k \in Keys : best'[k] =
               IF best[k] = Missing \/ best[k].writer # w THEN best[k]
               ELSE IF left(k) = {} \/ LeftOut(Winner(left(k))) THEN Missing
               ELSE [writer |-> Winner(left(k)).log,
                     frame |-> FrameAt(Winner(left(k)))]
    <2>1. /\ i \in Instances /\ w \in Writers /\ WriterOf[i] = w
          /\ Elsewhere(t) /\ pc'[t] = "idle"
      BY CallFacts, ReturnAside, ReturnFacts, WipeFacts DEF Wipe, Own
    <2>2. /\ pc[t] = "wipe" /\ files' = files \ {w} /\ files \subseteq Writers
          /\ \A v \in Writers \ {w} : log'[v] = log[v]
      BY WipeFacts DEF Control, DiskTyped
    <2>3. index'[i] = NoIndex /\ \A k \in Keys : mine'[i][k] = Missing
      BY <2>1 DEF Wipe, Forget, Control, MemoryTyped
    <2>. QED
      BY <2>1, <2>2, <2>3 DEF Wipe
  <1>2. Vacant'
    <2>. SUFFICES ASSUME NEW k \in Keys, best'[k] = Missing, NEW v \in files',
                         NEW n \in DOMAIN log'[v], log'[v][n].key = k
                  PROVE  FALSE
      BY DEF Vacant
    <2>1. v \in files \ {w} /\ log'[v] = log[v]
      BY <1>1
    <2>2. best[k] # Missing
      BY <2>1 DEF View, Vacant
    <2>3. LogsTyped /\ files \ {w} \in SUBSET Writers
      BY <1>1, ControlFacts
    <2>4. left(k) # {}
      <3>1. [log |-> v, at |-> n] \in Spots /\ v \in Writers
        BY <1>1, <2>1, <2>3, LogFacts
      <3>. QED
        BY <2>1, <2>3, <3>1, LocationFacts DEF FrameAt
    <2>5. /\ Winner(left(k)).log \in files \ {w}
          /\ Winner(left(k)) \in Spots
      BY <2>3, <2>4, LocationFacts, WinnerFacts
    <2>6. ~LeftOut(Winner(left(k)))
      BY <2>5 DEF LeftOut
    <2>7. [writer |-> Winner(left(k)).log,
           frame |-> FrameAt(Winner(left(k)))] # Missing
      BY <1>1, <2>3, <2>5, SpotFacts, NoneAssumption
    <2>. QED
      BY <1>1, <2>2, <2>4, <2>6, <2>7
  <1>3. \A u \in Threads : InstanceOf[u] = i => pc'[u] \notin Bare
    <2>1. \A u \in Threads \ {t} : InstanceOf[u] = i => pc[u] \notin Inside
      BY <1>1, OneInside DEF Inside
    <2>. QED
      BY <1>1, <2>1 DEF Elsewhere, Bare, Inside
  <1>. QED
    BY <1>1, <1>2, <1>3, BlankView

-----------------------------------------------------------------------------
\* Threads that may call nothing stay idle, and those of a writer whose log only
\* grows never come to rewrite or clear it.
Confined ==
    \A t \in Threads :
        /\ world.does[t] = {} => pc[t] = "idle"
        /\ OnlyGrows(Own(t)) =>
              /\ call[t].op \in {"none", "set", "get", "delete"}
              /\ pc[t] \notin Rewriting

\* A step goes on with the operation that was begun, or returns from it.
GoesOn(t) ==
    /\ pc[t] # "idle" /\ Elsewhere(t) /\ world' = world
    /\ \/ pc'[t] = "idle" /\ call'[t] = Resting
       \/ /\ call'[t].op = call[t].op
          /\ pc'[t] \in Rewriting =>
                \/ pc[t] \in Rewriting
                \/ /\ pc[t] = "fold" /\ call[t].loc.at > MaxLog[Own(t)]

LEMMA StepGoesOn ==
    ASSUME Control, NEW t \in Threads, Step(t)
    PROVE  GoesOn(t)
  <1>0. call[t] \in Calls /\ pc[t] \in Labels
    BY CallFacts
  <1>. USE <1>0 DEF GoesOn, Goto, Elsewhere, Control, CallsTyped
  <1>1. CASE Return(t) /\ pc[t] # "idle" /\ world' = world
    BY <1>1 DEF Return
  <1>2. ASSUME NEW ix, Use(t, ix), pc[t] # "idle", world' = world PROVE GoesOn(t)
    BY <1>2 DEF Use, Calls, Rewriting
  <1>3. CASE Enter(t)
    BY <1>3 DEF Enter, Calls, Rewriting
  <1>4. CASE Check(t)
    BY <1>4 DEF Check, Calls, Rewriting
  <1>5. CASE Scan(t)
    BY <1>5 DEF Scan, Calls, Rewriting
  <1>6. CASE Keep(t)
    BY <1>2, <1>6 DEF Keep
  <1>7. CASE Serve(t)
    BY <1>1, <1>7 DEF Serve, Calls, Rewriting
  <1>8. CASE Invalidate(t)
    BY <1>8 DEF Invalidate, Rewriting
  <1>9. CASE Verify(t)
    BY <1>1, <1>9 DEF Verify, Rewriting
  <1>10. CASE OpenLock(t)
    BY <1>10 DEF OpenLock, Calls, Rewriting
  <1>11. CASE AppendFrame(t)
    BY <1>11 DEF AppendFrame, Calls, Rewriting
  <1>12. CASE Fold(t)
    BY <1>1, <1>12 DEF Fold, Calls
  <1>13. CASE StartPass(t)
    BY <1>1, <1>13 DEF StartPass, Calls, Rewriting
  <1>14. CASE ReadLogs(t)
    BY <1>1, <1>14 DEF ReadLogs, Calls, Rewriting
  <1>15. CASE Replace(t)
    BY <1>15 DEF Replace, Rewriting
  <1>16. CASE Pop(t)
    BY <1>1, <1>16 DEF Pop
  <1>17. CASE Wipe(t)
    BY <1>1, <1>17 DEF Wipe
  <1>18. CASE Fetch(t)
    BY <1>1, <1>2, <1>18 DEF Fetch
  <1>. QED
    BY <1>3, <1>4, <1>5, <1>6, <1>7, <1>8, <1>9, <1>10, <1>11, <1>12, <1>13,
       <1>14, <1>15, <1>16, <1>17, <1>18 DEF Step

LEMMA StepConfined ==
    ASSUME Control, Confined, NEW t \in Threads, Step(t)
    PROVE  Confined'
  <1>1. GoesOn(t)
    BY StepGoesOn
  <1>2. ASSUME NEW w PROVE OnlyGrows(w)' <=> OnlyGrows(w)
    BY <1>1 DEF GoesOn, OnlyGrows
  <1>3. world.does[t] # {} /\ Own(t) \in Writers
    BY <1>1, CallFacts DEF Confined, GoesOn
  <1>4. ASSUME OnlyGrows(Own(t))
        PROVE  /\ call'[t].op \in {"none", "set", "get", "delete"}
               /\ pc'[t] \notin Rewriting
    <2>1. CASE pc'[t] = "idle" /\ call'[t] = Resting
      BY <2>1, RestingFacts DEF Rewriting
    <2>2. CASE call'[t].op = call[t].op /\ pc'[t] \notin Rewriting
      BY <1>4, <2>2 DEF Confined
    <2>3. CASE pc[t] = "fold" /\ call[t].loc.at > MaxLog[Own(t)]
      <3>1. call[t].loc \in Places
        BY <2>3, CallFacts DEF Located
      <3>2. call[t].loc.at \in 1 .. MaxRecords + MaxCrashes
        BY <3>1 DEF Places
      <3>3. MaxLog[Own(t)] > MaxRecords + MaxCrashes /\ MaxLog[Own(t)] \in Nat
        BY <1>3, <1>4, LogsAssumption DEF OnlyGrows
      <3>. QED
        BY <2>3, <3>2, <3>3, BoundsAssumption
    <2>. QED
      BY <1>1, <1>4, <2>1, <2>2, <2>3 DEF GoesOn, Confined
  <1>5. ASSUME NEW u \in Threads
        PROVE  /\ world'.does[u] = {} => pc'[u] = "idle"
               /\ OnlyGrows(Own(u)) =>
                     /\ call'[u].op \in {"none", "set", "get", "delete"}
                     /\ pc'[u] \notin Rewriting
    BY <1>1, <1>3, <1>4 DEF GoesOn, Elsewhere, Confined
  <1>. QED
    BY <1>2, <1>5 DEF Confined

LEMMA BeginConfined ==
    ASSUME Control, Confined, NEW t \in Threads,
           \/ \E k \in Keys, life \in world.lifetimes[t] : Stamp(t, k, life)
           \/ \E op \in Ops, k \in Keys \cup {NoKey} : Begin(t, op, k)
    PROVE  Confined'
  <1>1. /\ world' = world /\ Elsewhere(t) /\ world.does[t] # {}
        /\ \/ call'[t].op = "set" /\ pc'[t] = "stamped"
           \/ /\ call'[t].op \in world.does[t] \ {"set"}
              /\ call'[t].op \in {"get", "delete"} => pc'[t] = "check"
    <2>1. CASE \E k \in Keys, life \in world.lifetimes[t] : Stamp(t, k, life)
      <3>1. PICK k \in Keys, life \in world.lifetimes[t] : Stamp(t, k, life)
        BY <2>1
      <3>. DEFINE c == [Resting EXCEPT !.op = "set", !.key = k, !.now = clock,
                     !.dies = IF life = Forever THEN life ELSE clock + life,
                     !.id = count.records + 1]
      <3>2. c.op = "set"
        BY DEF Resting
      <3>3. /\ call' = [call EXCEPT ![t] = c] /\ Goto(t, "stamped")
            /\ world' = world /\ "set" \in world.does[t]
        BY <3>1 DEF Stamp
      <3>. HIDE DEF c
      <3>. QED
        BY <3>2, <3>3 DEF Goto, Elsewhere, Control, CallsTyped
    <2>2. CASE \E op \in Ops, k \in Keys \cup {NoKey} : Begin(t, op, k)
      <3>1. PICK op \in Ops, k \in Keys \cup {NoKey} : Begin(t, op, k)
        BY <2>2
      <3>. DEFINE c == [Resting EXCEPT !.op = op, !.key = k, !.now = clock,
                     !.id = IF op = "delete" THEN count.records + 1 ELSE 0,
                     !.pass = CASE op \in {"compact", "compactAll"} -> "compact"
                                [] op \in {"consolidate", "consolidateAll"} ->
                                       "consolidate"
                                [] OTHER -> "none"]
      <3>2. c.op = op
        BY DEF Resting
      <3>3. call' = [call EXCEPT ![t] = c]
        BY <3>1 DEF Begin
      <3>4. PICK l : Goto(t, l) /\ (op \in {"get", "delete"} => l = "check")
        BY <3>1 DEF Begin
      <3>5. world' = world /\ op \in world.does[t] \ {"set"}
        BY <3>1 DEF Begin
      <3>. HIDE DEF c
      <3>6. call'[t].op = op /\ pc'[t] = l
        BY <3>2, <3>3, <3>4 DEF Goto, Control, CallsTyped
      <3>7. Elsewhere(t)
        BY <3>3, <3>4 DEF Goto, Elsewhere, Control, CallsTyped
      <3>. QED
        BY <3>4, <3>5, <3>6, <3>7
    <2>. QED
      BY <2>1, <2>2
  <1>2. ASSUME NEW w PROVE OnlyGrows(w)' <=> OnlyGrows(w)
    BY <1>1 DEF OnlyGrows
  <1>3. ASSUME OnlyGrows(Own(t))
        PROVE  /\ call'[t].op \in {"none", "set", "get", "delete"}
               /\ pc'[t] \notin Rewriting
    <2>1. world.does[t] \subseteq {"set", "get", "delete"}
      BY <1>3 DEF OnlyGrows
    <2>2. CASE call'[t].op = "set" /\ pc'[t] = "stamped"
      BY <2>2 DEF Rewriting
    <2>3. CASE /\ call'[t].op \in world.does[t] \ {"set"}
               /\ call'[t].op \in {"get", "delete"} => pc'[t] = "check"
      BY <2>1, <2>3 DEF Rewriting
    <2>. QED
      BY <1>1, <2>2, <2>3
  <1>. QED
    BY <1>1, <1>2, <1>3 DEF Confined, Elsewhere

LEMMA StillConfined ==
    ASSUME Confined, world' = world,
           \A t \in Threads : \/ pc'[t] = pc[t] /\ call'[t] = call[t]
                              \/ pc'[t] = "idle" /\ call'[t] = Resting
    PROVE  Confined'
  <1>1. ASSUME NEW w PROVE OnlyGrows(w)' <=> OnlyGrows(w)
    BY DEF OnlyGrows
  <1>. QED
    BY <1>1, RestingFacts DEF Confined, Rewriting

LEMMA NextConfined ==
    ASSUME Control, Confined, [Next]_vars
    PROVE  Confined'
  <1>1. ASSUME NEW t \in Threads,
               \/ \E k \in Keys, life \in world.lifetimes[t] : Stamp(t, k, life)
               \/ \E op \in {"get", "delete"}, k \in Keys : Begin(t, op, k)
               \/ \E op \in Ops \ {"set", "get", "delete"} : Begin(t, op, NoKey)
        PROVE  Confined'
    <2>1. {"get", "delete"} \subseteq Ops
      BY DEF Ops
    <2>. QED
      BY <1>1, <2>1, BeginConfined
  <1>2. ASSUME NEW t \in Threads, Step(t) PROVE Confined'
    BY <1>2, StepConfined
  <1>3. ASSUME NEW i \in Instances, Crash(i) PROVE Confined'
    BY <1>3, CrashFacts, StillConfined
  <1>4. CASE (\E i \in Instances : Age(i)) \/ Tick \/ UNCHANGED vars
    BY <1>4, StillConfined DEF Age, Tick, vars, control
  <1>. QED
    BY <1>1, <1>2, <1>3, <1>4 DEF Next

-----------------------------------------------------------------------------
LEMMA NextMine ==
    ASSUME Control, MineTyped, [Next]_vars
    PROVE  MineTyped'
  <1>1. CASE mine' = mine
    BY <1>1 DEF MineTyped
  <1>2. ASSUME NEW t \in Threads, AppendFrame(t) PROVE MineTyped'
    <2>. DEFINE i == InstanceOf[t]
                k == Made(t).key
                newest == mine'[i][k].newest
    <2>1. Made(t) \in Frames /\ k \in Keys /\ i \in Instances
      BY <1>2, AppendFrameFacts, CallFacts
    <2>2. PICK n : /\ mine' = [mine EXCEPT ![i][k] =
                                  [frame |-> Made(t), newest |-> n]]
                   /\ n = Made(t) \/ (best[k] # Missing /\ n = best[k].frame)
      BY <1>2 DEF AppendFrame, Made
    <2>3. n \in Frames
      BY <2>1, <2>2 DEF Control, HistoryTyped
    <2>. QED
      BY <2>1, <2>2, <2>3 DEF MineTyped
  <1>3. ASSUME NEW t \in Threads, Wipe(t) PROVE MineTyped'
    BY <1>3 DEF Wipe, MineTyped
  <1>4. ASSUME NEW i \in Instances, Crash(i) PROVE MineTyped'
    BY <1>4 DEF Crash, MineTyped
  <1>5. ASSUME NEW t \in Threads, Step(t), ~AppendFrame(t), ~Wipe(t)
        PROVE  mine' = mine
    BY <1>5 DEF Step, Enter, Check, Fetch, Scan, Keep, Serve, Invalidate,
       Verify, OpenLock, Fold, StartPass, ReadLogs, Replace, Pop, history
  <1>. QED
    BY <1>1, <1>2, <1>3, <1>4, <1>5
    DEF Next, Stamp, Begin, Age, Tick, vars, history

LEMMA SplitGrows ==
    ASSUME Control, [Next]_vars
    PROVE  split \subseteq split'
  <1>1. ASSUME NEW t \in Threads, Wipe(t) PROVE split \subseteq split'
    BY <1>1, WipeFacts
  <1>2. ASSUME NEW t \in Threads, Step(t), ~Wipe(t) PROVE split' = split
    <2>1. CASE \/ Enter(t) \/ Check(t) \/ Fetch(t) \/ Scan(t) \/ Keep(t)
               \/ Serve(t)
      BY <2>1 DEF Enter, Check, Fetch, Scan, Keep, Serve, history
    <2>2. CASE Invalidate(t) \/ Verify(t) \/ OpenLock(t) \/ AppendFrame(t)
      BY <2>2 DEF Invalidate, Verify, OpenLock, AppendFrame, history
    <2>3. CASE \/ Fold(t) \/ StartPass(t) \/ ReadLogs(t) \/ Replace(t)
               \/ Pop(t)
      BY <2>3 DEF Fold, StartPass, ReadLogs, Replace, Pop, history
    <2>. QED
      BY <1>2, <2>1, <2>2, <2>3 DEF Step
  <1>. QED
    BY <1>1, <1>2 DEF Next, Stamp, Begin, Crash, Age, Tick, vars, history

\* A rewrite under way keeps what it has in hand while nobody else writes.
LEMMA HeadsStay ==
    ASSUME NEW u \in Threads, Heads(u),
           pc'[u] = "replace" => /\ pc[u] = "replace" /\ call'[u] = call[u]
                                 /\ log'[Own(u)] = log[Own(u)]
    PROVE  Heads(u)'
  <1>. SUFFICES ASSUME pc'[u] = "replace" PROVE Heads(u)'
    BY DEF Heads
  <1>. QED
    BY DEF Heads, Beats

LEMMA AsideHeads ==
    ASSUME NEW t \in Threads, Elsewhere(t), log' = log, pc'[t] # "replace",
           \A u \in Threads : Heads(u)
    PROVE  \A u \in Threads : Heads(u)'
  BY HeadsStay DEF Elsewhere

LEMMA LockedHeads ==
    ASSUME Control, OneLock, NEW t \in Threads, Elsewhere(t),
           pc'[t] # "replace",
           pc[t] = "replace" \/ (LockFree(t) /\ pc[t] \in Flocked),
           \A v \in Writers \ {Own(t)} : log'[v] = log[v],
           \A u \in Threads : Heads(u)
    PROVE  \A u \in Threads : Heads(u)'
  <1>. SUFFICES ASSUME NEW u \in Threads PROVE Heads(u)'
    OBVIOUS
  <1>1. CASE pc'[u] # "replace"
    BY <1>1 DEF Heads
  <1>2. CASE pc'[u] = "replace"
    <2>1. u # t /\ pc[u] = "replace" /\ call'[u] = call[u]
      BY <1>2 DEF Elsewhere
    <2>2. Own(u) # Own(t)
      BY <2>1, OneLockFacts DEF OneLock, Flocked
    <2>. QED
      BY <2>1, <2>2, CallFacts, HeadsStay
  <1>. QED
    BY <1>1, <1>2

LEMMA ReadLogsHeads ==
    ASSUME Control, NEW t \in Threads, ReadLogs(t), \A u \in Threads : Heads(u)
    PROVE  \A u \in Threads : Heads(u)'
  <1>. DEFINE w == Own(t)
              hand == Kept(w, call[t].pass, call[t].now)
  <1>1. /\ LogsTyped /\ files \in SUBSET Writers /\ w \in Writers
        /\ log' = log
    BY ControlFacts, CallFacts DEF Control, DiskTyped, ReadLogs, disk
  <1>2. CASE Return(t)
    BY <1>1, <1>2, ReturnAside, AsideHeads DEF Flocked
  <1>3. CASE ~Return(t)
    <2>1. Elsewhere(t) /\ call'[t].hand = hand
      BY <1>3, CallFacts DEF ReadLogs, Goto, Elsewhere, Control, CallsTyped, Calls
    <2>2. PICK h : h = hand
      OBVIOUS
    <2>3. \A m \in DOMAIN h : \E n \in DOMAIN log[w] :
               /\ log[w][n] = h[m]
               /\ \A l \in DOMAIN log[w] \ {n} :
                     log[w][l].key = h[m].key => Beats(w, n, w, l)
      BY <1>1, <2>2, KeptHeads
    <2>. HIDE DEF hand
    <2>4. Heads(t)'
      BY <1>1, <2>1, <2>2, <2>3 DEF Heads, Beats
    <2>5. \A u \in Threads \ {t} : Heads(u)'
      BY <1>1, <2>1, HeadsStay DEF Elsewhere
    <2>. QED
      BY <2>4, <2>5
  <1>. QED
    BY <1>2, <1>3

LEMMA NextHeads ==
    ASSUME Control, OneLock, [Next]_vars, \A u \in Threads : Heads(u)
    PROVE  \A u \in Threads : Heads(u)'
  <1>1. ASSUME NEW t \in Threads,
               \/ \E k \in Keys, life \in world.lifetimes[t] : Stamp(t, k, life)
               \/ \E op \in Ops, k \in Keys \cup {NoKey} : Begin(t, op, k)
        PROVE  \A u \in Threads : Heads(u)'
    <2>1. log' = log
      BY <1>1 DEF Stamp, Begin, disk
    <2>2. Elsewhere(t) /\ pc'[t] # "replace"
      BY <1>1, BeginAside
    <2>. QED
      BY <2>1, <2>2, AsideHeads
  <1>2. ASSUME NEW t \in Threads, Step(t)
        PROVE  \A u \in Threads : Heads(u)'
    <2>. USE DEF Goto, Elsewhere, Flocked, Control, CallsTyped
    <2>1. CASE Enter(t)
      BY <2>1, AsideHeads DEF Enter, disk
    <2>2. CASE Check(t)
      BY <2>2, AsideHeads DEF Check, disk
    <2>3. CASE Scan(t)
      BY <2>3, AsideHeads DEF Scan, disk
    <2>4. CASE Keep(t)
      BY <2>4, UseAside, AsideHeads DEF Keep, disk
    <2>5. CASE Serve(t)
      BY <2>5, ReturnAside, AsideHeads DEF Serve, disk
    <2>6. CASE Invalidate(t)
      BY <2>6, AsideHeads DEF Invalidate, disk
    <2>7. CASE Verify(t)
      BY <2>7, ReturnAside, AsideHeads DEF Verify, disk
    <2>8. CASE OpenLock(t)
      BY <2>8, AsideHeads DEF OpenLock, disk
    <2>9. CASE Fold(t)
      BY <2>9, ReturnAside, AsideHeads DEF Fold, disk
    <2>10. CASE Pop(t)
      BY <2>10, ReturnAside, AsideHeads DEF Pop, disk
    <2>11. CASE StartPass(t)
      BY <2>11, ReturnAside, AsideHeads DEF StartPass, disk
    <2>12. CASE ReadLogs(t)
      BY <2>12, ReadLogsHeads
    <2>13. CASE AppendFrame(t)
      <3>1. \A v \in Writers \ {Own(t)} : log'[v] = log[v]
        BY <2>13, AppendFrameFacts
      <3>. QED
        BY <2>13, <3>1, LockedHeads DEF AppendFrame
    <2>14. CASE Replace(t)
      <3>1. \A v \in Writers \ {Own(t)} : log'[v] = log[v]
        BY <2>14 DEF Replace, DiskTyped
      <3>. QED
        BY <2>14, <3>1, LockedHeads DEF Replace
    <2>15. CASE Wipe(t)
      <3>1. \A v \in Writers \ {Own(t)} : log'[v] = log[v]
        BY <2>15, WipeFacts
      <3>. QED
        BY <2>15, <3>1, ReturnAside, LockedHeads DEF Wipe
    <2>16. CASE Fetch(t)
      BY <2>16, UseAside, ReturnAside, AsideHeads DEF Fetch, disk
    <2>. QED
      BY <1>2, <2>1, <2>2, <2>3, <2>4, <2>5, <2>6, <2>7, <2>8, <2>9, <2>10,
         <2>11, <2>12, <2>13, <2>14, <2>15, <2>16 DEF Step
  <1>3. ASSUME NEW i \in Instances, Crash(i)
        PROVE  \A u \in Threads : Heads(u)'
    <2>. SUFFICES ASSUME NEW u \in Threads PROVE Heads(u)'
      OBVIOUS
    <2>1. CASE pc'[u] # "replace"
      BY <2>1 DEF Heads
    <2>2. CASE pc'[u] = "replace"
      <3>1. InstanceOf[u] # i /\ pc[u] = "replace" /\ call'[u] = call[u]
        BY <1>3, <2>2, CrashFacts
      <3>2. log'[Own(u)] = log[Own(u)]
        <4>1. CASE UNCHANGED disk
          BY <4>1 DEF disk
        <4>2. CASE ~UNCHANGED disk
          <5>1. PICK t \in Threads : /\ InstanceOf[t] = i
                                     /\ pc[t] = "append" /\ LockFree(t)
            BY <1>3, <4>2 DEF Crash
          <5>2. Own(u) # WriterOf[i]
            BY <3>1, <5>1, OneLockFacts DEF Own
          <5>3. log' = [log EXCEPT ![WriterOf[i]] = Append(@, Torn)]
            BY <1>3, <4>2 DEF Crash
          <5>. QED
            BY <5>2, <5>3, CallFacts DEF Control, DiskTyped
        <4>. QED
          BY <4>1, <4>2
      <3>. QED
        BY <3>1, <3>2, HeadsStay
    <2>. QED
      BY <2>1, <2>2
  <1>4. CASE (\E i \in Instances : Age(i)) \/ Tick \/ UNCHANGED vars
    BY <1>4, HeadsStay DEF Age, Tick, vars, control, disk
  <1>5. {"get", "delete"} \subseteq Ops
    BY DEF Ops
  <1>. QED
    BY <1>1, <1>2, <1>3, <1>4, <1>5 DEF Next

-----------------------------------------------------------------------------
\* An instance that does not move keeps its view.
LEMMA PassiveView ==
    ASSUME Control, NEW i \in Instances, View(i), Vacant',
           \A k \in Keys : Carries(i, k) /\ Leaves(i, k),
           \A u \in Threads : InstanceOf[u] = i =>
               pc'[u] = pc[u] /\ call'[u] = call[u],
           index'[i] = index[i], sig'[i] = sig[i]
    PROVE  View(i)'
  <1>1. Undisturbed(i)' => Undisturbed(i)
    BY DEF Undisturbed
  <1>2. \A k \in Keys : Folding(i, k) => Folding(i, k)'
    BY DEF Folding
  <1>. QED
    BY <1>1, <1>2, ViewStays

LEMMA StillView ==
    ASSUME Control, MineTyped, NEW i \in Instances, View(i),
           UNCHANGED <<files, log, best>>, mine'[i] = mine[i],
           clock' \in Nat, clock <= clock',
           \A u \in Threads : InstanceOf[u] = i =>
               pc'[u] = pc[u] /\ call'[u] = call[u],
           index'[i] = index[i], sig'[i] = sig[i]
    PROVE  View(i)'
  <1>1. \A k \in Keys : Carries(i, k) /\ Leaves(i, k)
    BY StillCarries
  <1>2. Vacant'
    BY DEF View, Vacant
  <1>. QED
    BY <1>1, <1>2, PassiveView

\* Of an instance that is alone on its writer: a step of another one is that of
\* a peer whose log only grows.
LEMMA PeerSteps ==
    ASSUME Control, Confined, NEW i \in Instances, Alone(i), NEW t \in Threads,
           InstanceOf[t] # i,
           \/ \E k \in Keys, life \in world.lifetimes[t] : Stamp(t, k, life)
           \/ \E op \in Ops, k \in Keys \cup {NoKey} : Begin(t, op, k)
           \/ Step(t)
    PROVE  /\ Own(t) # WriterOf[i] /\ pc[t] \notin Rewriting /\ ~Wipe(t)
  <1>1. InstanceOf[t] \in Instances \ {i} /\ Own(t) \in Writers
    BY CallFacts
  <1>2. world.does[t] # {}
    <2>1. CASE Step(t)
      BY <2>1, StepGoesOn DEF GoesOn, Confined
    <2>2. CASE ~Step(t)
      BY <2>2 DEF Stamp, Begin
    <2>. QED
      BY <2>1, <2>2
  <1>3. Own(t) # WriterOf[i]
    BY <1>1, <1>2 DEF Alone, Sole, Idle, Own
  <1>4. /\ call[t].op \in {"none", "set", "get", "delete"}
        /\ pc[t] \notin Rewriting
    BY <1>1, <1>3 DEF Alone, Confined
  <1>. QED
    BY <1>3, <1>4, WipeFacts

LEMMA PeerAppendView ==
    ASSUME Control, MineTyped, \A k \in Keys : OnTop(k), NEW i \in Instances,
           View(i), NEW t \in Threads, Own(t) # WriterOf[i], AppendFrame(t)
    PROVE  View(i)'
  <1>1. PICK f \in Frames : f = Made(t)
    BY AppendFrameFacts
  <1>2. InstanceOf[t] # i
    BY DEF Own
  <1>3. Appended(t, f)
    BY <1>1, AppendFrameEffect
  <1>4. ASSUME NEW k \in Keys PROVE Carries(i, k) /\ Leaves(i, k)
    <2>1. /\ best'[k] = best[k] \/ (f.key = k /\ Wins(Own(t), f))
          /\ Appends(Own(t), f) /\ Own(t) \in Writers
          /\ clock' = clock /\ mine'[i] = mine[i]
      BY <1>2, <1>3 DEF Appended, Leads, Follows
    <2>. QED
      BY <2>1, PeerCarries
  <1>5. Vacant'
    BY AppendVacant DEF View
  <1>6. /\ \A u \in Threads : InstanceOf[u] = i =>
               pc'[u] = pc[u] /\ call'[u] = call[u]
        /\ index'[i] = index[i] /\ sig'[i] = sig[i]
    BY <1>2, <1>3 DEF Appended, Elsewhere
  <1>. QED
    BY <1>4, <1>5, <1>6, PassiveView

LEMMA OtherView ==
    ASSUME Control, MineTyped, \A k \in Keys : OnTop(k), Confined,
           NEW i \in Instances, Alone(i), View(i), NEW t \in Threads,
           InstanceOf[t] # i,
           \/ \E k \in Keys, life \in world.lifetimes[t] : Stamp(t, k, life)
           \/ \E op \in Ops, k \in Keys \cup {NoKey} : Begin(t, op, k)
           \/ Step(t)
    PROVE  View(i)'
  <1>1. Own(t) # WriterOf[i] /\ pc[t] \notin Rewriting /\ ~Wipe(t)
    BY PeerSteps
  <1>2. CASE AppendFrame(t)
    BY <1>1, <1>2, PeerAppendView
  <1>3. CASE ~AppendFrame(t)
    <2>1. Elsewhere(t)
      <3>1. CASE Step(t)
        BY <3>1, StepGoesOn DEF GoesOn
      <3>2. CASE ~Step(t)
        BY <3>2, BeginAside
      <3>. QED
        BY <3>1, <3>2
    <2>2. /\ UNCHANGED <<clock, files, log, best, mine>>
          /\ index'[i] = index[i] /\ sig'[i] = sig[i]
      <3>. USE DEF disk, memory, history, Control, MemoryTyped
      <3>1. CASE ~Step(t)
        BY <3>1 DEF Stamp, Begin
      <3>2. CASE Enter(t) \/ Check(t) \/ Fetch(t) \/ Scan(t)
        BY <3>2 DEF Enter, Check, Fetch, Scan
      <3>3. CASE Serve(t) \/ Verify(t) \/ OpenLock(t)
        BY <3>3 DEF Serve, Verify, OpenLock
      <3>4. CASE Keep(t)
        BY <3>4 DEF Keep
      <3>5. CASE Invalidate(t)
        BY <3>5 DEF Invalidate, Forget
      <3>6. CASE Fold(t)
        <4>1. /\ UNCHANGED <<clock, disk, history>>
              /\ sig' = [sig EXCEPT ![InstanceOf[t]] =
                             Resized(InstanceOf[t], call[t].loc.at)]
          BY <3>6 DEF Fold
        <4>2. PICK ix : index' = [index EXCEPT ![InstanceOf[t]] = ix]
          BY <3>6 DEF Fold
        <4>. QED
          BY <4>1, <4>2
      <3>7. CASE StartPass(t) \/ ReadLogs(t) \/ Replace(t) \/ Pop(t)
        BY <1>1, <3>7 DEF StartPass, ReadLogs, Replace, Pop, Rewriting
      <3>. QED
        BY <1>1, <1>3, <3>1, <3>2, <3>3, <3>4, <3>5, <3>6, <3>7 DEF Step
    <2>3. \A u \in Threads : InstanceOf[u] = i =>
              pc'[u] = pc[u] /\ call'[u] = call[u]
      BY <2>1 DEF Elsewhere
    <2>4. clock \in Nat /\ clock <= clock
      BY BoundsAssumption DEF Control, DiskTyped
    <2>. QED
      BY <2>2, <2>3, <2>4, StillView
  <1>. QED
    BY <1>2, <1>3

-----------------------------------------------------------------------------
\* The death of a process, the instance's own or another one.
LEMMA CrashVacant ==
    ASSUME Control, NEW j \in Instances, Crash(j), Vacant
    PROVE  Vacant'
  <1>1. best' = best
    BY CrashFacts
  <1>2. CASE UNCHANGED disk
    BY <1>1, <1>2 DEF Vacant, disk
  <1>3. CASE ~UNCHANGED disk
    <2>1. /\ Appends(WriterOf[j], Torn) /\ WriterOf[j] \in Writers
          /\ Torn \in Frames /\ Torn.key \notin Keys
      BY <1>3, FrameFacts, ThreadsAssumption, NoneAssumption
      DEF Crash, Appends, Torn
    <2>. SUFFICES ASSUME NEW k \in Keys, best[k] = Missing, NEW v \in files',
                         NEW n \in DOMAIN log'[v], log'[v][n].key = k
                  PROVE  FALSE
      BY <1>1 DEF Vacant
    <2>2. v \in files /\ n \in DOMAIN log[v] /\ log'[v][n] = log[v][n]
      BY <2>1, AppendsFacts
    <2>. QED
      BY <2>2 DEF Vacant
  <1>. QED
    BY <1>2, <1>3

LEMMA CrashView ==
    ASSUME Control, MineTyped, \A k \in Keys : OnTop(k), Confined,
           NEW i \in Instances, Alone(i), View(i), NEW j \in Instances, Crash(j)
    PROVE  View(i)'
  <1>1. /\ Vacant' /\ clock' = clock /\ best' = best
        /\ clock \in Nat /\ clock <= clock
    BY CrashVacant, CrashFacts, BoundsAssumption DEF View, Control, DiskTyped
  <1>2. CASE j = i
    <2>1. index'[i] = NoIndex
      BY <1>2 DEF Crash, Control, MemoryTyped
    <2>2. \A k \in Keys : mine'[i][k] = Missing
      BY <1>2 DEF Crash, MineTyped
    <2>3. \A u \in Threads : InstanceOf[u] = i => pc'[u] \notin Bare
      BY <1>2, CrashFacts DEF Bare
    <2>. QED
      BY <1>1, <2>1, <2>2, <2>3, BlankView
  <1>3. CASE j # i
    <2>1. /\ index'[i] = index[i] /\ sig'[i] = sig[i] /\ mine'[i] = mine[i]
          /\ \A u \in Threads : InstanceOf[u] = i =>
                 pc'[u] = pc[u] /\ call'[u] = call[u]
      BY <1>3, CrashFacts DEF Crash, Control, MemoryTyped, MineTyped
    <2>2. CASE UNCHANGED disk
      BY <1>1, <2>1, <2>2, StillView DEF disk
    <2>3. CASE ~UNCHANGED disk
      <3>1. PICK t \in Threads : InstanceOf[t] = j /\ pc[t] = "append"
        BY <2>3 DEF Crash
      <3>2. WriterOf[j] # WriterOf[i]
        BY <1>3, <3>1 DEF Confined, Alone, Sole, Idle
      <3>3. /\ Appends(WriterOf[j], Torn) /\ WriterOf[j] \in Writers
            /\ Torn \in Frames
        BY <2>3, FrameFacts, ThreadsAssumption DEF Crash, Appends
      <3>4. ASSUME NEW k \in Keys PROVE Carries(i, k) /\ Leaves(i, k)
        BY <1>1, <2>1, <3>2, <3>3, PeerCarries
      <3>. QED
        BY <1>1, <2>1, <3>4, PassiveView
    <2>. QED
      BY <2>2, <2>3
  <1>. QED
    BY <1>2, <1>3

\* A step of the instance itself.
LEMMA OwnView ==
    ASSUME Control, MineTyped, \A k \in Keys : OnTop(k), Confined,
           NEW t \in Threads, InHand(t), Heads(t), Alone(InstanceOf[t]),
           View(InstanceOf[t]),
           \/ \E k \in Keys, life \in world.lifetimes[t] : Stamp(t, k, life)
           \/ \E op \in Ops, k \in Keys \cup {NoKey} : Begin(t, op, k)
           \/ Step(t)
    PROVE  View(InstanceOf[t])'
  <1>1. CASE ~Step(t)
    BY <1>1, CallView
  <1>2. CASE \/ Enter(t) \/ Serve(t) \/ Invalidate(t) \/ Verify(t)
             \/ OpenLock(t) \/ StartPass(t) \/ ReadLogs(t) \/ Pop(t)
    BY <1>2, CallView
  <1>3. CASE Check(t) \/ Fetch(t) \/ Scan(t) \/ Keep(t)
    BY <1>3, CheckView, FetchView, ScanView, KeepView
  <1>4. CASE AppendFrame(t) \/ Fold(t) \/ Replace(t)
    BY <1>4, OwnAppendView, FoldView, ReplaceView
  <1>5. CASE Wipe(t)
    <2>1. ASSUME NEW u \in Threads, pc[u] = "replace", Own(u) # Own(t)
          PROVE  FALSE
      <3>1. OnlyGrows(Own(u))
        BY <2>1, CallFacts DEF Alone, Own
      <3>. QED
        BY <2>1, <3>1 DEF Confined, Rewriting
    <2>. QED
      BY <1>5, <2>1, WipeView
  <1>. QED
    BY <1>1, <1>2, <1>3, <1>4, <1>5 DEF Step

\* The invariant, by the steps.
Serving ==
    /\ MineTyped /\ Confined
    /\ split = {} => /\ \A t \in Threads : Heads(t)
                     /\ \A i \in Instances : Alone(i) => View(i)

LEMMA InitServing ==
    ASSUME Init
    PROVE  Serving
  <1>1. MineTyped
    BY DEF Init, MineTyped
  <1>2. Confined
    BY RestingFacts DEF Init, Confined, Rewriting
  <1>3. \A t \in Threads : Heads(t)
    BY DEF Init, Heads
  <1>4. ASSUME NEW i \in Instances PROVE View(i)
    <2>1. Vacant
      BY DEF Init, Vacant
    <2>2. \A k \in Keys : Newer(i, k)
      BY DEF Init, Newer, Owed
    <2>3. \A t \in Threads : Holding(t)
      BY DEF Init, Holding
    <2>4. Standby(i)
      BY DEF Init, Standby
    <2>. QED
      BY <2>1, <2>2, <2>3, <2>4 DEF View
  <1>. QED
    BY <1>1, <1>2, <1>3, <1>4 DEF Serving

LEMMA NextView ==
    ASSUME Control, MineTyped, \A k \in Keys : OnTop(k), Confined,
           \A t \in Threads : InHand(t) /\ Heads(t),
           NEW i \in Instances, Alone(i), View(i), [Next]_vars
    PROVE  View(i)'
  <1>1. ASSUME NEW t \in Threads,
               \/ \E k \in Keys, life \in world.lifetimes[t] : Stamp(t, k, life)
               \/ \E op \in Ops, k \in Keys \cup {NoKey} : Begin(t, op, k)
               \/ Step(t)
        PROVE  View(i)'
    <2>1. CASE InstanceOf[t] = i
      BY <1>1, <2>1, OwnView
    <2>2. CASE InstanceOf[t] # i
      BY <1>1, <2>2, OtherView
    <2>. QED
      BY <2>1, <2>2
  <1>2. ASSUME NEW j \in Instances, Crash(j) PROVE View(i)'
    BY <1>2, CrashView
  <1>3. CASE (\E j \in Instances : Age(j)) \/ Tick \/ UNCHANGED vars
    <2>1. /\ UNCHANGED <<files, log, best, mine, index, sig, pc, call>>
          /\ clock' = clock \/ clock' = clock + 1
      BY <1>3 DEF Age, Tick, vars, disk, memory, control, history
    <2>2. clock \in Nat /\ clock' \in Nat /\ clock <= clock'
      BY <2>1, BoundsAssumption DEF Control, DiskTyped
    <2>. QED
      BY <2>1, <2>2, StillView
  <1>4. {"get", "delete"} \subseteq Ops
    BY DEF Ops
  <1>. QED
    BY <1>1, <1>2, <1>3, <1>4 DEF Next

LEMMA WorldStays ==
    ASSUME Control, [Next]_vars
    PROVE  world' = world
  <1>1. ASSUME NEW t \in Threads, Step(t) PROVE world' = world
    BY <1>1, StepGoesOn DEF GoesOn
  <1>. QED
    BY <1>1, CrashFacts DEF Next, Stamp, Begin, Age, Tick, vars

LEMMA NextServing ==
    ASSUME Control, Standing, Serving, [Next]_vars
    PROVE  Serving'
  <1>1. MineTyped' /\ Confined'
    BY NextMine, NextConfined DEF Serving
  <1>2. ASSUME split' = {} 
        PROVE  /\ \A t \in Threads : Heads(t)'
               /\ \A i \in Instances : Alone(i)' => View(i)'
    <2>1. split = {}
      BY <1>2, SplitGrows
    <2>2. /\ OneLock /\ (\A k \in Keys : OnTop(k))
          /\ \A t \in Threads : InHand(t) /\ Heads(t)
      BY <2>1 DEF Standing, Serving
    <2>3. \A t \in Threads : Heads(t)'
      BY <2>2, NextHeads
    <2>4. ASSUME NEW i \in Instances, Alone(i)' PROVE View(i)'
      <3>1. Alone(i)
        BY <2>4, WorldStays DEF Alone, Sole, Idle, OnlyGrows
      <3>. QED
        BY <2>1, <2>2, <3>1, NextView DEF Serving
    <2>. QED
      BY <2>3, <2>4
  <1>. QED
    BY <1>1, <1>2 DEF Serving

-----------------------------------------------------------------------------
\* What an index that stands makes of the disk, entry by entry.
LEMMA PackedServes ==
    ASSUME Control, NEW i \in Instances, NEW k \in Keys,
           NEW loc \in Locs, Packed(i, k, loc)
    PROVE  \/ loc # NoLoc /\ ~Verified(loc, k)
           \/ IF loc = NoLoc THEN Over(k)
              ELSE FrameAt(loc) = FrameAt(Winner(Locations(files, k)))
  <1>. SUFFICES ASSUME loc # NoLoc, Verified(loc, k)
                PROVE  FrameAt(loc) = FrameAt(Winner(Locations(files, k)))
    BY DEF Packed
  <1>1. /\ loc \in Places /\ loc.log \in files /\ loc.at \in DOMAIN log[loc.log]
        /\ FrameAt(loc).key = k
    BY DEF Verified, Locs
  <1>2. Peak(loc.log, loc.at, k)
    BY <1>1 DEF Packed, FrameAt
  <1>3. loc \in Locations(files, k)
    <2>1. LogsTyped /\ files \in SUBSET Writers /\ loc \in Spots
      BY <1>1, ControlFacts DEF Control, DiskTyped, Spots
    <2>. QED
      BY <1>1, <2>1, LocationFacts
  <1>. QED
    BY <1>2, <1>3, PeakWins

LastOf(w, k) == CHOOSE a \in Locations({w}, k) :
                    \A b \in Locations({w}, k) : a.at >= b.at

Stood(i, k, e) ==
    /\ Locations({WriterOf[i]}, k) # {}
    /\ IF e = Deleted THEN FrameAt(LastOf(WriterOf[i], k)).dead
       ELSE FrameAt(e) = FrameAt(LastOf(WriterOf[i], k))

LEMMA WrittenServes ==
    ASSUME Control, NEW i \in Instances, NEW k \in Keys,
           NEW e \in Places \cup {Deleted}, Written(i, k, e)
    PROVE  Stood(i, k, e)
  <1>. DEFINE w == WriterOf[i]
              own == Locations({w}, k)
              last == LastOf(w, k)
  <1>1. PICK n \in DOMAIN log[w] :
            /\ log[w][n].key = k
            /\ \A m \in DOMAIN log[w] : log[w][m].key = k => m <= n
            /\ e = [log |-> w, at |-> n] \/ (e = Deleted /\ log[w][n].dead)
    BY DEF Written
  <1>2. LogsTyped /\ {w} \in SUBSET Writers /\ w \in Writers
    BY ControlFacts, ThreadsAssumption
  <1>3. PICK a : a = [log |-> w, at |-> n]
    OBVIOUS
  <1>4. a \in Spots /\ a \in Places /\ FrameAt(a) = log[w][n] /\ n \in Nat
        /\ a.at = n /\ a.log = w
    BY <1>2, <1>3, LogFacts, SpotFacts DEF FrameAt
  <1>5. a \in own
    BY <1>1, <1>2, <1>4, LocationFacts
  <1>6. \A b \in own : /\ b.at \in Nat /\ b.at <= n /\ b.log = w
                       /\ b = [log |-> b.log, at |-> b.at]
    <2>. SUFFICES ASSUME NEW b \in own
                  PROVE  /\ b.at \in Nat /\ b.at <= n /\ b.log = w
                         /\ b = [log |-> b.log, at |-> b.at]
      OBVIOUS
    <2>1. b \in Spots /\ b.log \in {w} /\ FrameAt(b).key = k
      BY <1>2, LocationFacts
    <2>2. /\ b.at \in DOMAIN log[b.log] /\ b.at \in Nat
          /\ b = [log |-> b.log, at |-> b.at]
      BY <1>2, <2>1, SpotFacts
    <2>. QED
      BY <1>1, <2>1, <2>2 DEF FrameAt
  <1>7. last \in own /\ last.at >= a.at
    <2>1. \A b \in own : a.at >= b.at
      BY <1>4, <1>6
    <2>. HIDE DEF own
    <2>2. last = CHOOSE x \in own : \A b \in own : x.at >= b.at
      BY DEF own, LastOf
    <2>. HIDE DEF last
    <2>. QED
      BY <1>5, <2>1, <2>2
  <1>. HIDE DEF last
  <1>8. last = a
    <2>. HIDE DEF own
    <2>1. last.at \in Nat /\ last.at <= n /\ last.at >= n
      BY <1>4, <1>6, <1>7
    <2>2. last = [log |-> last.log, at |-> last.at] /\ last.log = w
      BY <1>6, <1>7
    <2>3. last.at = n
      BY <1>4, <2>1
    <2>4. [log |-> last.log, at |-> last.at] = [log |-> w, at |-> n]
      BY <2>2, <2>3, Zenon
    <2>. QED
      BY <1>3, <2>2, <2>4, Zenon
  <1>9. a # Deleted
    BY <1>4, NoneAssumption
  <1>. QED
    BY <1>1, <1>3, <1>4, <1>5, <1>8, <1>9 DEF Stood, last

LEMMA ServingIndexes ==
    ASSUME Control, Serving
    PROVE  SoleIndexServes
  <1>. SUFFICES ASSUME split = {}, NEW i \in Instances, Alone(i),
                       \A t \in Threads : InstanceOf[t] = i => pc[t] \in Unguarded,
                       index[i] # NoIndex, sig[i] = CurrentSig, NEW k \in Keys
                PROVE  LET loc == Lookup(index[i], k)
                           own == Locations({WriterOf[i]}, k)
                           last == CHOOSE a \in own : \A b \in own : a.at >= b.at
                       IN  \/ loc # NoLoc /\ ~Verified(loc, k)
                           \/ /\ index[i].overlay[k] # NoLoc /\ own # {}
                              /\ IF loc = NoLoc THEN FrameAt(last).dead
                                 ELSE FrameAt(loc) = FrameAt(last)
                           \/ /\ index[i].overlay[k] = NoLoc
                              /\ IF loc = NoLoc THEN Over(k)
                                 ELSE FrameAt(loc) =
                                          FrameAt(Winner(Locations(files, k)))
    BY DEF SoleIndexServes, Serves
  <1>1. View(i) /\ Undisturbed(i) /\ ~Folding(i, k)
    BY DEF Serving, Unguarded, Undisturbed, Folding
  <1>2. Indexed(i, k)
    BY <1>1 DEF View, Standby
  <1>3. index[i] \in Indexes
    BY DEF Control, MemoryTyped
  <1>4. PICK e, p : e = index[i].overlay[k] /\ p = index[i].packed[k]
    OBVIOUS
  <1>5. e \in Places \cup {NoLoc, Deleted} /\ p \in Locs
    BY <1>3, <1>4 DEF Indexes, Locs
  <1>6. PICK loc : loc = Lookup(index[i], k)
    OBVIOUS
  <1>7. loc = IF e = Deleted THEN NoLoc ELSE IF e # NoLoc THEN e ELSE p
    BY <1>4, <1>6 DEF Lookup
  <1>8. CASE e = NoLoc
    <2>1. Unmoved(i, sig[i])
      BY DEF Unmoved, CurrentSig
    <2>2. Packed(i, k, p)
      BY <1>2, <1>4, <1>8, <2>1 DEF Indexed, Current
    <2>3. loc = p
      BY <1>7, <1>8, NoneAssumption
    <2>4. \/ loc # NoLoc /\ ~Verified(loc, k)
          \/ IF loc = NoLoc THEN Over(k)
             ELSE FrameAt(loc) = FrameAt(Winner(Locations(files, k)))
      BY <1>5, <2>2, <2>3, PackedServes
    <2>. QED
      BY <1>4, <1>6, <1>8, <2>4
  <1>9. CASE e # NoLoc
    <2>1. Written(i, k, e) /\ e \in Places \cup {Deleted}
      BY <1>1, <1>2, <1>4, <1>5, <1>9 DEF Indexed
    <2>2. Stood(i, k, e)
      BY <2>1, WrittenServes
    <2>3. /\ Locations({WriterOf[i]}, k) # {}
          /\ IF loc = NoLoc THEN FrameAt(LastOf(WriterOf[i], k)).dead
             ELSE FrameAt(loc) = FrameAt(LastOf(WriterOf[i], k))
      BY <1>7, <1>9, <2>1, <2>2, NoneAssumption DEF Stood
    <2>. QED
      BY <1>4, <1>6, <1>9, <2>3 DEF LastOf
  <1>. QED
    BY <1>8, <1>9

LEMMA ServingReads ==
    ASSUME Control, Serving
    PROVE  ReadOwnWrites
  <1>. SUFFICES ASSUME NEW t \in Threads, pc[t] = "serve",
                       Alone(InstanceOf[t]), split = {},
                       mine[InstanceOf[t]][call[t].key] # Missing,
                       LiveAt(mine[InstanceOf[t]][call[t].key].frame, clock),
                       LiveAt(mine[InstanceOf[t]][call[t].key].newest, clock)
                PROVE  LET k == call[t].key
                           wrote == mine[InstanceOf[t]][k]
                           got == Got(t)
                       IN  \/ got = Retry
                           \/ /\ got \notin {Missing, Retry}
                              /\ got.time >= wrote.frame.time
                           \/ /\ got = Missing
                              /\ \/ /\ call[t].retried /\ call[t].loc # NoLoc
                                    /\ ~Verified(call[t].loc, k)
                                 \/ \E a \in Locations(files, k) :
                                       /\ FrameAt(a).time >= wrote.frame.time
                                       /\ ~LiveAt(FrameAt(a), clock)
    BY DEF ReadOwnWrites
  <1>. DEFINE i == InstanceOf[t]
              loc == call[t].loc
  <1>1. PICK k \in Keys : k = call[t].key
    BY CallFacts DEF Located, Working, Rewriting
  <1>2. PICK least : least = mine[i][k].frame.time
    OBVIOUS
  <1>3. Good(i, k, loc) /\ Owed(i, k)
    BY <1>1, CallFacts DEF Serving, View, Holding, Owed
  <1>4. /\ LogsTyped /\ files \in SUBSET Writers /\ loc \in Locs
        /\ call[t].now \in Nat /\ clock \in Nat /\ call[t].now <= clock
    <2>1. LogsTyped /\ files \in SUBSET Writers /\ clock \in Nat
      BY ControlFacts, BoundsAssumption DEF Control, DiskTyped
    <2>2. loc \in Locs /\ call[t].now \in Nat /\ Located(t)
      BY CallFacts, BoundsAssumption DEF Locs
    <2>. QED
      BY <2>1, <2>2 DEF Located
  <1>5. CASE loc = NoLoc
    <2>1. PICK v \in files \ {WriterOf[i]} : \E n \in DOMAIN log[v] :
              Holds(v, n, k, least) /\ ~LiveAt(log[v][n], clock)
      BY <1>2, <1>3, <1>5 DEF Good
    <2>2. PICK n \in DOMAIN log[v] :
              Holds(v, n, k, least) /\ ~LiveAt(log[v][n], clock)
      BY <2>1
    <2>3. PICK a : a = [log |-> v, at |-> n]
      OBVIOUS
    <2>4. /\ a \in Spots /\ a.log \in files /\ FrameAt(a) = log[v][n]
      BY <1>4, <2>2, <2>3, LogFacts DEF FrameAt
    <2>5. a \in Locations(files, k)
      BY <1>4, <2>2, <2>4, LocationFacts DEF Holds
    <2>6. Got(t) = Missing
      BY <1>5 DEF Got
    <2>. QED
      BY <1>1, <1>2, <2>2, <2>4, <2>5, <2>6 DEF Holds
  <1>6. CASE loc # NoLoc /\ ~Verified(loc, k)
    <2>1. Got(t) = IF call[t].retried THEN Missing ELSE Retry
      BY <1>1, <1>6 DEF Got
    <2>. QED
      BY <1>1, <1>6, <2>1
  <1>7. CASE loc # NoLoc /\ Verified(loc, k)
    <2>1. loc \in Spots /\ loc.log \in files /\ FrameAt(loc).key = k
      BY <1>4, <1>7 DEF Verified, Locs, Spots
    <2>2. loc \in Locations(files, k) /\ FrameAt(loc) \in Frames
      BY <1>4, <2>1, LocationFacts, SpotFacts
    <2>3. FrameAt(loc).time >= least
      BY <1>2, <1>3, <1>7 DEF Good, Holds, Verified, FrameAt
    <2>4. Got(t) = IF LiveAt(FrameAt(loc), call[t].now)
                   THEN FrameAt(loc) ELSE Missing
      BY <1>1, <1>7 DEF Got
    <2>5. LiveAt(FrameAt(loc), clock) => LiveAt(FrameAt(loc), call[t].now)
      BY <1>4, <2>2, FrameFacts DEF LiveAt
    <2>6. FrameAt(loc) # Missing /\ FrameAt(loc) # Retry
      BY <2>2, NoneAssumption
    <2>. QED
      BY <1>1, <1>2, <2>2, <2>3, <2>4, <2>5, <2>6
  <1>. QED
    BY <1>5, <1>6, <1>7

\* What an instance alone on its writer holds in memory agrees with the disk,
\* whatever went before (_ensure_index, _fold_own_append, _shard_get).
THEOREM ServingHolds ==
    Spec => []Serving
  <1>1. Init => Standing /\ Serving
    BY InitStanding, InitServing
  <1>2. Control /\ Standing /\ Serving /\ [Next]_vars => Standing' /\ Serving'
    BY NextStanding, NextServing
  <1>. QED
    BY <1>1, <1>2, ControlHolds, PTL DEF Spec

\* An index whose signature equals the sizes on disk serves the newest record of
\* every key, or the one its instance wrote last, whatever rebuilds, appends,
\* rewrites, clears and deaths went before (_ensure_index, _fold_own_append).
THEOREM IndexServes ==
    Spec => []SoleIndexServes
  BY ControlHolds, ServingHolds, ServingIndexes, PTL

\* A get never answers with less than its own instance wrote before, unless a
\* newer record has died or its log was rewritten twice under it (_shard_get).
THEOREM OwnWritesRead ==
    Spec => []ReadOwnWrites
  BY ControlHolds, ServingHolds, ServingReads, PTL

=============================================================================
