---------------------------- MODULE SumTheorems ----------------------------
(***************************************************************************)
(* Facts about SumFunctionOnSet over a finite set of indices, for the      *)
(* proofs about cache sizes: it adds up every index once, in whatever      *)
(* order the library's fold picks them.  Induction over the set is spelled *)
(* out as an argument about a smallest counterexample.                     *)
(***************************************************************************)
EXTENDS Integers, FiniteSets, Functions, FiniteSetTheorems,
        WellFoundedInduction, TLAPS

Pick(s) == CHOOSE x \in s : TRUE

\* The function the fold is defined by.
SumFold(f, S, h) ==
    h = [s \in SUBSET S |->
            IF s = {} THEN 0 ELSE f[Pick(s)] + h[s \ {Pick(s)}]]

LEMMA Least ==
    ASSUME NEW T \in SUBSET Nat, T # {}
    PROVE  \E j \in T : \A m \in T : j <= m
  <1>1. IsWellFoundedOn(OpToRel(<, Nat), Nat)
    BY NatLessThanWellFounded
  <1>2. PICK j \in T : \A m \in T : ~(<<m, j>> \in OpToRel(<, Nat))
    BY <1>1, WFMin
  <1>3. \A m \in T : ~(m < j)
    BY <1>2 DEF OpToRel
  <1>. QED
    BY <1>3

\* A set of finite sets that is not empty has a smallest member.
LEMMA Smallest ==
    ASSUME NEW C, C # {}, \A s \in C : IsFiniteSet(s)
    PROVE  \E s \in C : \A t \in C : Cardinality(s) <= Cardinality(t)
  <1>. DEFINE N == {Cardinality(s) : s \in C}
  <1>1. N \in SUBSET Nat /\ N # {}
    BY FS_CardinalityType
  <1>2. PICK n \in N : \A m \in N : n <= m
    BY <1>1, Least
  <1>. QED
    BY <1>2

\* Of some subsets of a finite set, one has no part among them.
LEMMA SmallestSubset ==
    ASSUME NEW S, IsFiniteSet(S), NEW C \in SUBSET SUBSET S, C # {}
    PROVE  \E t \in C : IsFiniteSet(t) /\ \A x \in t : t \ {x} \notin C
  <1>1. \A t \in C : IsFiniteSet(t)
    BY FS_Subset
  <1>2. PICK t \in C : \A u \in C : Cardinality(t) <= Cardinality(u)
    BY <1>1, Smallest
  <1>3. ASSUME NEW x \in t PROVE t \ {x} \notin C
    <2>1. /\ Cardinality(t \ {x}) = Cardinality(t) - 1
          /\ Cardinality(t) \in Nat
      BY <1>1, FS_RemoveElement, FS_CardinalityType
    <2>. QED
      BY <1>2, <2>1
  <1>. QED
    BY <1>1, <1>3

LEMMA PickFacts ==
    ASSUME NEW s, IsFiniteSet(s), s # {}
    PROVE  /\ Pick(s) \in s /\ IsFiniteSet(s \ {Pick(s)})
           /\ Cardinality(s) \in Nat /\ Cardinality(s \ {Pick(s)}) \in Nat
           /\ Cardinality(s \ {Pick(s)}) = Cardinality(s) - 1
  <1>1. Pick(s) \in s
    BY DEF Pick
  <1>2. PICK p : p = Pick(s)
    OBVIOUS
  <1>3. IsFiniteSet(s \ {p}) /\ Cardinality(s \ {p}) = Cardinality(s) - 1
    BY <1>1, <1>2, FS_RemoveElement
  <1>4. Cardinality(s) \in Nat /\ Cardinality(s \ {p}) \in Nat
    BY <1>3, FS_CardinalityType
  <1>. QED
    BY <1>1, <1>2, <1>3, <1>4

LEMMA SumIsFold ==
    ASSUME NEW f, NEW S
    PROVE  SumFunctionOnSet(f, S) = (CHOOSE h : SumFold(f, S, h))[S]
  BY DEF SumFunctionOnSet, FoldFunctionOnSet, MapThenFoldSet, SumFold, Pick

\* There is such a function.
LEMMA SumFoldExists ==
    ASSUME NEW f, NEW S, IsFiniteSet(S)
    PROVE  \E h : SumFold(f, S, h)
  <1>. DEFINE Part(n) == {s \in SUBSET S : Cardinality(s) <= n}
              Rec(h, n) == h = [s \in Part(n) |->
                  IF s = {} THEN 0 ELSE f[Pick(s)] + h[s \ {Pick(s)}]]
              Bad == {n \in Nat : ~\E h : Rec(h, n)}
  <1>1. \A s \in SUBSET S : IsFiniteSet(s) /\ Cardinality(s) \in Nat
    BY FS_Subset, FS_CardinalityType
  <1>2. Bad = {}
    <2>. SUFFICES ASSUME Bad # {} PROVE FALSE
      OBVIOUS
    <2>1. PICK n \in Bad : \A m \in Bad : n <= m
      <3>1. Bad \in SUBSET Nat
        OBVIOUS
      <3>. HIDE DEF Bad
      <3>. QED
        BY <3>1, Least
    <2>2. n # 0
      <3>. SUFFICES ASSUME n = 0 PROVE FALSE
        OBVIOUS
      <3>1. \A s \in Part(0) : s = {}
        <4>. TAKE s \in Part(0)
        <4>1. Cardinality(s) = 0 /\ IsFiniteSet(s)
          BY <1>1
        <4>. QED
          BY <4>1, FS_EmptySet
      <3>2. PICK h : h = [s \in Part(0) |-> 0]
        OBVIOUS
      <3>3. Rec(h, 0)
        BY <3>1, <3>2
      <3>. QED
        BY <3>3, <2>1
    <2>3. n - 1 \in Nat /\ n - 1 \notin Bad
      <3>1. n \in Nat
        OBVIOUS
      <3>. HIDE DEF Bad
      <3>. QED
        BY <2>1, <2>2, <3>1
    <2>4. PICK g : Rec(g, n - 1)
      BY <2>3
    <2>5. PICK h : h = [s \in Part(n) |->
              IF s = {} THEN 0 ELSE f[Pick(s)] + g[s \ {Pick(s)}]]
      OBVIOUS
    <2>6. ASSUME NEW t \in Part(n - 1) PROVE h[t] = g[t]
      <3>1. t \in Part(n)
        BY <1>1, <2>1
      <3>. QED
        BY <3>1, <2>4, <2>5
    <2>7. ASSUME NEW s \in Part(n), s # {}
          PROVE  h[s \ {Pick(s)}] = g[s \ {Pick(s)}]
      <3>1. s \ {Pick(s)} \in Part(n - 1)
        <4>1. /\ Cardinality(s \ {Pick(s)}) = Cardinality(s) - 1
              /\ Cardinality(s) \in Nat
          BY <1>1, <2>7, PickFacts
        <4>. QED
          BY <4>1, <2>1
      <3>. QED
        BY <3>1, <2>6
    <2>8. Rec(h, n)
      BY <2>5, <2>7
    <2>. QED
      BY <2>1, <2>8
  <1>3. PICK h : Rec(h, Cardinality(S))
    BY <1>1, <1>2
  <1>4. Part(Cardinality(S)) = SUBSET S
    BY FS_Subset
  <1>. QED
    BY <1>3, <1>4 DEF SumFold

\* Two such functions agree where both are defined.
LEMMA SumFoldUnique ==
    ASSUME NEW f, NEW S, NEW T, IsFiniteSet(S), NEW g, NEW h,
           SumFold(f, S, g), SumFold(f, T, h), NEW s \in SUBSET (S \cap T)
    PROVE  g[s] = h[s]
  <1>. DEFINE C == {t \in SUBSET (S \cap T) : g[t] # h[t]}
  <1>. SUFFICES ASSUME C # {} PROVE FALSE
    OBVIOUS
  <1>1. IsFiniteSet(S \cap T) /\ C \in SUBSET SUBSET (S \cap T)
    BY FS_Subset
  <1>2. PICK t \in C : IsFiniteSet(t) /\ \A x \in t : t \ {x} \notin C
    <2>. HIDE DEF C
    <2>. QED
      BY <1>1, SmallestSubset
  <1>3. t # {}
    BY DEF SumFold
  <1>4. PICK u \in SUBSET (S \cap T) : u = t \ {Pick(t)}
    OBVIOUS
  <1>5. g[u] = h[u]
    BY <1>2, <1>3, <1>4, PickFacts
  <1>6. g[t] = f[Pick(t)] + g[u] /\ h[t] = f[Pick(t)] + h[u]
    BY <1>3, <1>4 DEF SumFold
  <1>. QED
    BY <1>5, <1>6

\* The sum over a set, by the element the fold takes first.
LEMMA SumUnfold ==
    ASSUME NEW f, NEW S, IsFiniteSet(S)
    PROVE  SumFunctionOnSet(f, S) =
               IF S = {} THEN 0
               ELSE f[Pick(S)] + SumFunctionOnSet(f, S \ {Pick(S)})
  <1>1. PICK T : T = S \ {Pick(S)}
    OBVIOUS
  <1>2. IsFiniteSet(T) /\ T \in SUBSET S
    BY <1>1, FS_Subset
  <1>3. PICK g : g = CHOOSE x : SumFold(f, S, x)
    OBVIOUS
  <1>4. PICK h : h = CHOOSE x : SumFold(f, T, x)
    OBVIOUS
  <1>5. SumFold(f, S, g) /\ SumFold(f, T, h)
    BY <1>2, <1>3, <1>4, SumFoldExists
  <1>6. g[T] = h[T]
    BY <1>2, <1>5, SumFoldUnique
  <1>7. g[S] = IF S = {} THEN 0 ELSE f[Pick(S)] + g[T]
    BY <1>1, <1>5 DEF SumFold
  <1>8. SumFunctionOnSet(f, S) = g[S] /\ SumFunctionOnSet(f, T) = h[T]
    BY <1>3, <1>4, SumIsFold
  <1>. QED
    BY <1>1, <1>6, <1>7, <1>8

LEMMA SumTake ==
    ASSUME NEW f, NEW S, IsFiniteSet(S)
    PROVE  /\ S = {} => SumFunctionOnSet(f, S) = 0
           /\ S # {} => \E x \in S :
                  SumFunctionOnSet(f, S) = f[x] + SumFunctionOnSet(f, S \ {x})
  BY SumUnfold, PickFacts

-----------------------------------------------------------------------------
\* A sum of integers is an integer.
LEMMA SumInt ==
    ASSUME NEW f, NEW S, IsFiniteSet(S), \A x \in S : f[x] \in Int
    PROVE  SumFunctionOnSet(f, S) \in Int
  <1>. DEFINE C == {t \in SUBSET S : SumFunctionOnSet(f, t) \notin Int}
  <1>. SUFFICES ASSUME C # {} PROVE FALSE
    OBVIOUS
  <1>1. C \in SUBSET SUBSET S
    OBVIOUS
  <1>2. PICK t \in C : IsFiniteSet(t) /\ \A x \in t : t \ {x} \notin C
    <2>. HIDE DEF C
    <2>. QED
      BY <1>1, SmallestSubset
  <1>3. CASE t = {}
    BY <1>2, <1>3, SumTake
  <1>4. CASE t # {}
    <2>1. PICK x \in t :
              SumFunctionOnSet(f, t) = f[x] + SumFunctionOnSet(f, t \ {x})
      BY <1>2, <1>4, SumTake
    <2>2. SumFunctionOnSet(f, t \ {x}) \in Int /\ f[x] \in Int
      BY <1>2
    <2>. QED
      BY <2>1, <2>2
  <1>. QED
    BY <1>3, <1>4

\* A sum of natural numbers is one.
LEMMA SumNat ==
    ASSUME NEW f, NEW S, IsFiniteSet(S), \A x \in S : f[x] \in Nat
    PROVE  SumFunctionOnSet(f, S) \in Nat
  <1>. DEFINE C == {t \in SUBSET S : SumFunctionOnSet(f, t) \notin Nat}
  <1>. SUFFICES ASSUME C # {} PROVE FALSE
    OBVIOUS
  <1>1. C \in SUBSET SUBSET S
    OBVIOUS
  <1>2. PICK t \in C : IsFiniteSet(t) /\ \A x \in t : t \ {x} \notin C
    <2>. HIDE DEF C
    <2>. QED
      BY <1>1, SmallestSubset
  <1>3. CASE t = {}
    BY <1>2, <1>3, SumTake
  <1>4. CASE t # {}
    <2>1. PICK x \in t :
              SumFunctionOnSet(f, t) = f[x] + SumFunctionOnSet(f, t \ {x})
      BY <1>2, <1>4, SumTake
    <2>2. SumFunctionOnSet(f, t \ {x}) \in Nat /\ f[x] \in Nat
      BY <1>2
    <2>. QED
      BY <2>1, <2>2
  <1>. QED
    BY <1>3, <1>4

\* Only the values at the indices count.
LEMMA SumAgree ==
    ASSUME NEW f, NEW g, NEW S, IsFiniteSet(S), \A x \in S : f[x] = g[x]
    PROVE  SumFunctionOnSet(f, S) = SumFunctionOnSet(g, S)
  <1>. DEFINE C == {t \in SUBSET S :
                       SumFunctionOnSet(f, t) # SumFunctionOnSet(g, t)}
  <1>. SUFFICES ASSUME C # {} PROVE FALSE
    OBVIOUS
  <1>1. C \in SUBSET SUBSET S
    OBVIOUS
  <1>2. PICK t \in C : IsFiniteSet(t) /\ \A x \in t : t \ {x} \notin C
    <2>. HIDE DEF C
    <2>. QED
      BY <1>1, SmallestSubset
  <1>3. CASE t = {}
    BY <1>2, <1>3, SumTake
  <1>4. CASE t # {}
    <2>1. PICK x \in t : x = Pick(t)
      BY <1>2, <1>4, PickFacts
    <2>2. /\ SumFunctionOnSet(f, t) = f[x] + SumFunctionOnSet(f, t \ {x})
          /\ SumFunctionOnSet(g, t) = g[x] + SumFunctionOnSet(g, t \ {x})
      BY <1>2, <1>4, <2>1, SumUnfold
    <2>3. SumFunctionOnSet(f, t \ {x}) = SumFunctionOnSet(g, t \ {x})
      BY <1>2
    <2>. QED
      BY <2>2, <2>3
  <1>. QED
    BY <1>3, <1>4

\* The order does not matter: any member may be taken out first.
LEMMA SumRemove ==
    ASSUME NEW f, NEW S, IsFiniteSet(S), \A x \in S : f[x] \in Int,
           NEW x \in S
    PROVE  SumFunctionOnSet(f, S) = f[x] + SumFunctionOnSet(f, S \ {x})
  <1>. DEFINE Out(t, y) == SumFunctionOnSet(f, t)
                               = f[y] + SumFunctionOnSet(f, t \ {y})
              C == {t \in SUBSET S : \E y \in t : ~Out(t, y)}
  <1>1. C = {}
    <2>. SUFFICES ASSUME C # {} PROVE FALSE
      OBVIOUS
    <2>1. C \in SUBSET SUBSET S
      OBVIOUS
    <2>2. PICK t \in C : IsFiniteSet(t) /\ \A z \in t : t \ {z} \notin C
      <3>. HIDE DEF C
      <3>. QED
        BY <2>1, SmallestSubset
    <2>3. PICK y \in t : ~Out(t, y)
      OBVIOUS
    <2>4. PICK p \in t : Out(t, p)
      BY <2>2, <2>3, SumTake
    <2>5. p # y
      BY <2>3, <2>4
    \* p and y may be taken out of the smaller sets.
    <2>6. ASSUME NEW z \in t
          PROVE  \A w \in t \ {z} : Out(t \ {z}, w)
      BY <2>2
    <2>7. PICK u \in SUBSET S : u = (t \ {p}) \ {y} /\ u = (t \ {y}) \ {p}
      OBVIOUS
    <2>8. /\ SumFunctionOnSet(f, t \ {p}) = f[y] + SumFunctionOnSet(f, u)
          /\ SumFunctionOnSet(f, t \ {y}) = f[p] + SumFunctionOnSet(f, u)
      BY <2>5, <2>6, <2>7
    <2>9. SumFunctionOnSet(f, u) \in Int /\ f[p] \in Int /\ f[y] \in Int
      <3>1. IsFiniteSet(u)
        BY FS_Subset
      <3>. QED
        BY <3>1, SumInt
    <2>. QED
      BY <2>3, <2>4, <2>8, <2>9
  <1>2. S \in SUBSET S
    OBVIOUS
  <1>. QED
    BY <1>1, <1>2

\* A part of a sum of natural numbers is at most the sum.
LEMMA SumPart ==
    ASSUME NEW f, NEW S, IsFiniteSet(S), \A x \in S : f[x] \in Nat,
           NEW T \in SUBSET S
    PROVE  SumFunctionOnSet(f, T) <= SumFunctionOnSet(f, S)
  <1>. DEFINE C == {t \in SUBSET S :
                 T \subseteq t /\
                 ~(SumFunctionOnSet(f, T) <= SumFunctionOnSet(f, t))}
  <1>. SUFFICES ASSUME C # {} PROVE FALSE
    OBVIOUS
  <1>1. C \in SUBSET SUBSET S
    OBVIOUS
  <1>2. PICK t \in C : IsFiniteSet(t) /\ \A x \in t : t \ {x} \notin C
    <2>. HIDE DEF C
    <2>. QED
      BY <1>1, SmallestSubset
  <1>3. \A u \in SUBSET S : SumFunctionOnSet(f, u) \in Nat
    BY FS_Subset, SumNat
  <1>4. t # T
    BY <1>3
  <1>5. PICK x \in t : x \notin T
    BY <1>4
  <1>6. SumFunctionOnSet(f, t) = f[x] + SumFunctionOnSet(f, t \ {x})
    BY <1>2, SumRemove
  <1>7. SumFunctionOnSet(f, T) <= SumFunctionOnSet(f, t \ {x})
    BY <1>2, <1>5
  <1>. QED
    BY <1>3, <1>6, <1>7

\* A sum of nothing but zeros is zero.
LEMMA SumZero ==
    ASSUME NEW f, NEW S, IsFiniteSet(S), \A x \in S : f[x] = 0
    PROVE  SumFunctionOnSet(f, S) = 0
  <1>. DEFINE C == {t \in SUBSET S : SumFunctionOnSet(f, t) # 0}
  <1>. SUFFICES ASSUME C # {} PROVE FALSE
    OBVIOUS
  <1>1. C \in SUBSET SUBSET S
    OBVIOUS
  <1>2. PICK t \in C : IsFiniteSet(t) /\ \A x \in t : t \ {x} \notin C
    <2>. HIDE DEF C
    <2>. QED
      BY <1>1, SmallestSubset
  <1>3. t # {}
    BY <1>2, SumTake
  <1>4. PICK x \in t :
            SumFunctionOnSet(f, t) = f[x] + SumFunctionOnSet(f, t \ {x})
    BY <1>2, <1>3, SumTake
  <1>5. f[x] = 0 /\ SumFunctionOnSet(f, t \ {x}) = 0
    BY <1>2, <1>4
  <1>. QED
    BY <1>2, <1>4, <1>5

\* Two functions that differ at one place have sums that differ by as much.
LEMMA SumChange ==
    ASSUME NEW f, NEW g, NEW S, IsFiniteSet(S), NEW x \in S,
           \A y \in S : f[y] \in Int /\ g[y] \in Int,
           \A y \in S \ {x} : f[y] = g[y]
    PROVE  SumFunctionOnSet(g, S) = SumFunctionOnSet(f, S) - f[x] + g[x]
  <1>1. IsFiniteSet(S \ {x})
    BY FS_Subset
  <1>2. SumFunctionOnSet(g, S \ {x}) = SumFunctionOnSet(f, S \ {x})
    BY <1>1, SumAgree
  <1>3. SumFunctionOnSet(f, S \ {x}) \in Int
    BY <1>1, SumInt
  <1>4. /\ SumFunctionOnSet(f, S) = f[x] + SumFunctionOnSet(f, S \ {x})
        /\ SumFunctionOnSet(g, S) = g[x] + SumFunctionOnSet(g, S \ {x})
    BY SumRemove
  <1>. QED
    BY <1>2, <1>3, <1>4

\* A sum is the sum over a part and over the rest.
LEMMA SumSplit ==
    ASSUME NEW f, NEW S, IsFiniteSet(S), \A x \in S : f[x] \in Int,
           NEW T \in SUBSET S
    PROVE  /\ SumFunctionOnSet(f, T) \in Int
           /\ SumFunctionOnSet(f, S \ T) \in Int
           /\ SumFunctionOnSet(f, S) =
                  SumFunctionOnSet(f, T) + SumFunctionOnSet(f, S \ T)
  <1>1. \A t \in SUBSET S : IsFiniteSet(t) /\ SumFunctionOnSet(f, t) \in Int
    <2>. TAKE t \in SUBSET S
    <2>1. IsFiniteSet(t) /\ \A x \in t : f[x] \in Int
      BY FS_Subset
    <2>. QED
      BY <2>1, SumInt
  <1>. DEFINE Whole(t) == SumFunctionOnSet(f, S) =
                  SumFunctionOnSet(f, t) + SumFunctionOnSet(f, S \ t)
              C == {t \in SUBSET S : ~Whole(t)}
  <1>2. SUFFICES C = {}
    BY <1>1
  <1>. SUFFICES ASSUME C # {} PROVE FALSE
    OBVIOUS
  <1>3. C \in SUBSET SUBSET S
    OBVIOUS
  <1>4. PICK t \in C : IsFiniteSet(t) /\ \A x \in t : t \ {x} \notin C
    <2>. HIDE DEF C
    <2>. QED
      BY <1>3, SmallestSubset
  <1>5. CASE t = {}
    <2>1. SumFunctionOnSet(f, t) = 0 /\ S \ t = S
      BY <1>4, <1>5, SumTake
    <2>2. SumFunctionOnSet(f, S) \in Int
      BY <1>1
    <2>3. SumFunctionOnSet(f, S) = 0 + SumFunctionOnSet(f, S)
      BY <2>2
    <2>4. Whole(t)
      BY <2>1, <2>3
    <2>. QED
      BY <2>4
  <1>6. ASSUME NEW x \in t PROVE FALSE
    <2>1. PICK u \in SUBSET S : u = t \ {x}
      OBVIOUS
    <2>2. (S \ u) \ {x} = S \ t /\ x \in S \ u /\ S \ u \in SUBSET S
      BY <2>1
    <2>3. SumFunctionOnSet(f, t) = f[x] + SumFunctionOnSet(f, u)
      BY <1>1, <2>1, SumRemove
    <2>4. SumFunctionOnSet(f, S \ u) = f[x] + SumFunctionOnSet(f, S \ t)
      <3>1. PICK r \in SUBSET S : r = S \ u
        OBVIOUS
      <3>2. IsFiniteSet(r) /\ x \in r /\ \A y \in r : f[y] \in Int
        BY <1>1, <2>2, <3>1
      <3>3. SumFunctionOnSet(f, r) = f[x] + SumFunctionOnSet(f, r \ {x})
        BY <3>2, SumRemove
      <3>. QED
        BY <2>2, <3>1, <3>3
    <2>5. Whole(u)
      BY <1>4, <2>1
    <2>6. Whole(t)
      <3>1. /\ f[x] \in Int /\ SumFunctionOnSet(f, t) \in Int
            /\ SumFunctionOnSet(f, u) \in Int
            /\ SumFunctionOnSet(f, S \ u) \in Int
            /\ SumFunctionOnSet(f, S \ t) \in Int
        BY <1>1
      <3>. QED
        BY <2>3, <2>4, <2>5, <3>1
    <2>. QED
      BY <2>6
  <1>. QED
    BY <1>5, <1>6

=============================================================================
