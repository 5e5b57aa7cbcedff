-------------------------- MODULE CachedCallProofs --------------------------
(***************************************************************************)
(* Proofs about CachedCall, for every set of calls, scopes, keys and       *)
(* stored values, every chain of fallback keys and every failure.  The     *)
(* invariant comes in three layers: who is where and inside which latch    *)
(* (Control), what a draw may overwrite (Draws), and what a call that had  *)
(* a value in reach may not miss (Reach).  A last one (Settled) says what  *)
(* an unlatched copy of a fallback may overwrite while nothing was lost    *)
(* and no fallback written.                                                *)
(***************************************************************************)
EXTENDS CachedCall, WellFoundedInduction, NaturalsInduction, TLAPS

Inner == {"recheck", "draw", "settle", "store", "leave"}
Labels == Inner \cup {"idle", "probe", "enter", "end"}
Latched(c) == pc[c] \in Inner
Over(c) == pc[c] \in {"leave", "end"}
SameLatch(c, d) == LatchKey(c) = LatchKey(d)
Clean(c) == \A i \in DOMAIN Chain(c) : Chain(c)[i] \notin lost

\* The first entry of the chain from its n-th key on that holds a value.
FirstAt(c, n, i) ==
    /\ i \in n .. Len(Chain(c))
    /\ \A j \in n .. i - 1 : store[Chain(c)[j]] = Missing
ReachFrom(c, n) ==
    \E i \in n .. Len(Chain(c)) :
        FirstAt(c, n, i) /\ Readable(store[Chain(c)[i]])

-----------------------------------------------------------------------------
\* Where a call is determines what its locals hold.
Shape ==
    \A c \in Calls :
        /\ at[c] > 1 \/ hand[c] # Missing => Serving(c)
        /\ hand[c] # Missing => at[c] > 1
        /\ ~Over(c) => answer[c] = Missing

OneInside ==
    \A c, d \in Calls : Latched(c) /\ Latched(d) /\ SameLatch(c, d) => c = d

Control == TypeOK /\ Shape /\ OneInside

\* The value of a call is nowhere before the call has stored it.
DrawnOnce ==
    \A c \in Calls : ~Over(c) =>
        /\ \A k \in Keys : store[k] # c
        /\ \A d \in Calls : hand[d] # c /\ answer[d] # c

\* An entry the calls wrote is there, and readable unless the key is lost.
Authors ==
    \A k \in Keys : author[k] # NoAuthor =>
        /\ store[k] # Missing
        /\ k \notin lost => Readable(store[k])
        /\ author[k].how = "draw" => store[k] \in Calls

KeptReadable ==
    \A c \in Calls : answer[c] = c /\ KeyOf[c] \notin lost
        => Readable(store[KeyOf[c]])

\* A call past its latched re-read of the key found no draw of its latch.
PastReread(c) == pc[c] = "store" \/ (pc[c] = "settle" /\ at[c] > 1)
FirstDraw ==
    \A d \in Calls : PastReread(d) =>
        /\ author[KeyOf[d]] # [scope |-> ScopeOf[d], how |-> "draw"]
        /\ \A c \in Calls : SameLatch(c, d) /\ answer[c] = c
              => KeyOf[d] \in lost

Draws == DrawnOnce /\ Authors /\ KeptReadable /\ FirstDraw /\ ComputeOnce

\* A call that began, or whose function ended, with a value in reach still has
\* it in reach or in hand.
InSight(c) ==
    /\ hand[c] = Missing => ReachFrom(c, at[c])
    /\ hand[c] # Missing => Readable(hand[c])
Warm ==
    \A c \in warm : Clean(c) =>
        /\ pc[c] \in {"probe", "end"} /\ answer[c] # "CacheMiss"
        /\ pc[c] = "probe" => InSight(c)
Landed ==
    \A c \in landed : Clean(c) =>
        /\ pc[c] \in {"settle", "leave", "end"} /\ answer[c] # c
        /\ pc[c] = "settle" => InSight(c)
Reach == Warm /\ Landed

-----------------------------------------------------------------------------
\* What the calls of key k rely on until it is unsettled.
ReadSoFar(c) ==
    /\ \A j \in 2 .. at[c] - 1 : store[Chain(c)[j]] = Missing
    /\ hand[c] # Missing => store[Chain(c)[at[c]]] = hand[c]

HeldBack(c) ==
    LET k == KeyOf[c]
    IN  store[k] # Missing /\ ~Readable(store[k]) => at[c] = 1

\* Once a call of the latch settles, no copy under it can overwrite the draw:
\* no fallback can be served, or every lookup stops at the key itself.
NoCopies(c) ==
    \/ ~ReachFrom(c, 2)
    \/ /\ store[KeyOf[c]] # Missing
       /\ \A d \in Calls : SameLatch(c, d) => at[d] = 1
Settles(c) ==
    \/ pc[c] = "store" \/ answer[c] = c
    \/ author[KeyOf[c]] = [scope |-> ScopeOf[c], how |-> "draw"]

NotOurs(c) ==
    author[KeyOf[c]] # NoAuthor => author[KeyOf[c]].scope # ScopeOf[c]
AboutToDraw(c) ==
    pc[c] = "store" \/ (pc[c] = "settle" /\ at[c] > 1 /\ ~ReachFrom(c, 2))

CopyOfFirst(c) ==
    author[KeyOf[c]] = [scope |-> ScopeOf[c], how |-> "copy"] =>
        \E i \in 2 .. Len(Chain(c)) :
            FirstAt(c, 2, i) /\ store[Chain(c)[i]] = store[KeyOf[c]]

Stands(c) ==
    \/ /\ store[KeyOf[c]] = c
       /\ author[KeyOf[c]] = [scope |-> ScopeOf[c], how |-> "draw"]
    \/ author[KeyOf[c]] # NoAuthor /\ NotOurs(c)

Settled ==
    \A c \in Calls : ~Unsettled(KeyOf[c]) =>
        /\ ReadSoFar(c) /\ HeldBack(c) /\ CopyOfFirst(c)
        /\ Settles(c) => NoCopies(c)
        /\ AboutToDraw(c) => NotOurs(c)
        /\ answer[c] = c => Stands(c)

-----------------------------------------------------------------------------
\* The chain of a call starts with its key, which no fallback repeats.
LEMMA ChainFacts ==
    ASSUME NEW c \in Calls
    PROVE  /\ KeyOf[c] \in Keys /\ ScopeOf[c] \in Scopes
           /\ LatchKey(c) \in Scopes \X Keys
           /\ Chain(c) \in Seq(Keys) /\ Len(Chain(c)) \in Nat
           /\ Len(Chain(c)) >= 1 /\ DOMAIN Chain(c) = 1 .. Len(Chain(c))
           /\ Chain(c)[1] = KeyOf[c]
           /\ \A i \in 2 .. Len(Chain(c)) : Chain(c)[i] \in Keys \ {KeyOf[c]}
  <1>1. KeyOf[c] \in Keys /\ ScopeOf[c] \in Scopes
    BY KeysAssumption, ScopesAssumption
  <1>2. AcceptOf[c] \in Seq(Keys \ {KeyOf[c]})
    BY KeysAssumption
  <1>3. <<KeyOf[c]>> \in Seq(Keys) /\ Len(<<KeyOf[c]>>) = 1
    BY <1>1
  <1>4. AcceptOf[c] \in Seq(Keys)
    BY <1>2
  <1>5. Chain(c) \in Seq(Keys) /\ Len(Chain(c)) = 1 + Len(AcceptOf[c])
    BY <1>3, <1>4 DEF Chain
  <1>6. Chain(c)[1] = KeyOf[c]
    BY <1>3, <1>4 DEF Chain
  <1>7. \A i \in 2 .. Len(Chain(c)) : Chain(c)[i] = AcceptOf[c][i - 1]
    BY <1>3, <1>4, <1>5 DEF Chain
  <1>8. Len(AcceptOf[c]) \in Nat
    BY <1>2
  <1>9. \A i \in 2 .. Len(Chain(c)) : i - 1 \in 1 .. Len(AcceptOf[c])
    BY <1>5, <1>8
  <1>10. \A j \in 1 .. Len(AcceptOf[c]) : AcceptOf[c][j] \in Keys \ {KeyOf[c]}
    BY <1>2
  <1>11. DOMAIN Chain(c) = 1 .. Len(Chain(c))
    BY <1>5
  <1>12. \A i \in 2 .. Len(Chain(c)) : Chain(c)[i] \in Keys \ {KeyOf[c]}
    BY <1>7, <1>9, <1>10
  <1>. QED
    BY <1>1, <1>5, <1>6, <1>8, <1>11, <1>12 DEF LatchKey

\* Calls that share a latch run one function and so share the chain.
LEMMA SameLatchFacts ==
    ASSUME NEW c \in Calls, NEW d \in Calls, SameLatch(c, d)
    PROVE  /\ ScopeOf[c] = ScopeOf[d] /\ KeyOf[c] = KeyOf[d]
           /\ Chain(c) = Chain(d)
  <1>1. ScopeOf[c] = ScopeOf[d] /\ KeyOf[c] = KeyOf[d]
    BY DEF SameLatch, LatchKey
  <1>. QED
    BY <1>1, FunctionsAssumption DEF Chain

-----------------------------------------------------------------------------
\* Call c goes to label l with answer a: how all actions of a call but an
\* advance along the chain change its locals.
Moves(c, l, a) == Goto(c, l) /\ answer' = [answer EXCEPT ![c] = a]

LEMMA MovesControl ==
    ASSUME Control, NEW c \in Calls, NEW l \in Labels,
           NEW a \in Values \cup Failures \cup {Missing}, Moves(c, l, a),
           l \in Inner <=> Latched(c), l \notin {"leave", "end"} => a = Missing,
           UNCHANGED inside,
           store' \in [Keys -> Values \cup {Missing}],
           author' \in [Keys -> [scope : Scopes, how : {"draw", "copy"}]
                                    \cup {NoAuthor}],
           lost' \subseteq Keys, warm' \subseteq Calls, landed' \subseteq Calls
    PROVE  Control'
  <1>. USE DEF Control
  <1>1. /\ pc'[c] = l /\ at'[c] = 1 /\ hand'[c] = Missing /\ answer'[c] = a
        /\ \A d \in Calls \ {c} : /\ pc'[d] = pc[d] /\ at'[d] = at[d]
                                  /\ hand'[d] = hand[d]
                                  /\ answer'[d] = answer[d]
    BY DEF Moves, Goto, TypeOK
  <1>2. \A d \in Calls : Latched(d)' <=> Latched(d)
    BY <1>1 DEF Latched
  <1>3. inside' = [x \in Scopes \X Keys |->
                       {d \in Calls : LatchKey(d) = x /\ pc'[d] \in Inner}]
    BY <1>2 DEF TypeOK, Latched, Inner
  <1>4. 1 \in DOMAIN Chain(c)
    BY ChainFacts
  <1>5. at' \in [Calls -> Nat] /\ \A d \in Calls : at'[d] \in DOMAIN Chain(d)
    BY <1>1, <1>4 DEF TypeOK, Moves, Goto
  <1>6. pc' \in [Calls -> Labels]
    BY DEF TypeOK, Moves, Goto, Labels, Inner
  <1>7. hand' \in [Calls -> Preloads \cup Calls \cup {Missing}]
    BY DEF TypeOK, Moves, Goto
  <1>8. answer' \in [Calls -> Values \cup Failures \cup {Missing}]
    BY DEF TypeOK, Moves
  <1>9. TypeOK'
    BY <1>3, <1>5, <1>6, <1>7, <1>8 DEF TypeOK, Labels, Inner
  <1>10. Shape'
    BY <1>1 DEF Shape, Serving, Over
  <1>11. OneInside'
    BY <1>2 DEF OneInside, SameLatch, LatchKey
  <1>. QED
    BY <1>9, <1>10, <1>11

LEMMA PutTypes ==
    ASSUME Control, NEW c \in Calls, NEW k \in Keys, NEW v \in Values,
           NEW how \in {"draw", "copy"}, Put(c, k, v, how)
    PROVE  /\ store' \in [Keys -> Values \cup {Missing}]
           /\ author' \in [Keys -> [scope : Scopes, how : {"draw", "copy"}]
                                       \cup {NoAuthor}]
           /\ lost' \subseteq Keys
  <1>1. ScopeOf[c] \in Scopes
    BY ChainFacts
  <1>. QED
    BY <1>1 DEF Put, Control, TypeOK

-----------------------------------------------------------------------------
\* The outcomes of _serve: what Hit, Miss and the actions do, as moves.
HitLabel(c) == IF pc[c] = "probe" THEN "end" ELSE "leave"
Outcomes == {<<"probe", "enter", Missing>>, <<"settle", "store", Missing>>,
             <<"recheck", "draw", Missing>>,
             <<"recheck", "leave", "CacheMiss">>}
Missed(c, l, a) == <<pc[c], l, a>> \in Outcomes /\ Moves(c, l, a)

Kept == UNCHANGED <<store, author, lost>>

LEMMA AnswerKept ==
    ASSUME Control, NEW c \in Calls, UNCHANGED answer
    PROVE  answer' = [answer EXCEPT ![c] = answer[c]]
  BY DEF Control, TypeOK

LEMMA MissMoves ==
    ASSUME Control, NEW c \in Calls, Serving(c), Miss(c)
    PROVE  \E l, a : Missed(c, l, a)
  <1>1. answer[c] = Missing
    BY DEF Control, Shape, Serving, Over
  <1>2. CASE pc[c] = "probe" /\ Goto(c, "enter") /\ UNCHANGED answer
    <2>. Missed(c, "enter", Missing)
      BY <1>1, <1>2, AnswerKept DEF Missed, Moves, Outcomes
    <2>. QED
      OBVIOUS
  <1>3. CASE pc[c] = "settle" /\ Goto(c, "store") /\ UNCHANGED answer
    <2>. Missed(c, "store", Missing)
      BY <1>1, <1>3, AnswerKept DEF Missed, Moves, Outcomes
    <2>. QED
      OBVIOUS
  <1>4. CASE pc[c] = "recheck" /\ Goto(c, "draw") /\ UNCHANGED answer
    <2>. Missed(c, "draw", Missing)
      BY <1>1, <1>4, AnswerKept DEF Missed, Moves, Outcomes
    <2>. QED
      OBVIOUS
  <1>5. CASE pc[c] = "recheck" /\ Goto(c, "leave") /\ Return(c, "CacheMiss")
    <2>. Missed(c, "leave", "CacheMiss")
      BY <1>5 DEF Missed, Moves, Outcomes, Return
    <2>. QED
      OBVIOUS
  <1>. QED
    BY <1>2, <1>3, <1>4, <1>5 DEF Miss

LEMMA ReadCases ==
    ASSUME Control, NEW c \in Calls, Read(c), NEW raw,
           raw = store[Chain(c)[at[c]]]
    PROVE  /\ Serving(c) /\ hand[c] = Missing /\ Kept
           /\ UNCHANGED <<inside, warm, landed>>
           /\ \/ /\ raw = Missing /\ at[c] < Len(Chain(c))
                 /\ at' = [at EXCEPT ![c] = at[c] + 1]
                 /\ UNCHANGED <<pc, hand, answer>>
              \/ /\ \/ raw = Missing /\ at[c] = Len(Chain(c))
                    \/ raw # Missing /\ at[c] = 1 /\ ~Readable(raw)
                 /\ \E l, a : Missed(c, l, a)
              \/ /\ raw # Missing /\ at[c] = 1 /\ Readable(raw)
                 /\ Moves(c, HitLabel(c), raw)
              \/ /\ raw # Missing /\ at[c] > 1
                 /\ hand' = [hand EXCEPT ![c] = raw]
                 /\ UNCHANGED <<pc, at, answer>>
              \/ Moves(c, HitLabel(c), "raised")
  BY MissMoves
  DEF Read, Kept, history, written, Decode, Hit, Return, Moves, HitLabel

LEMMA MigrateCases ==
    ASSUME Control, NEW c \in Calls, Migrate(c)
    PROVE  /\ Serving(c) /\ hand[c] # Missing /\ hand[c] \in Values
           /\ at[c] > 1
           /\ UNCHANGED <<inside, warm, landed>>
           /\ Kept \/ Put(c, KeyOf[c], hand[c], "copy")
           /\ \/ Readable(hand[c]) /\ Moves(c, HitLabel(c), hand[c])
              \/ ~Readable(hand[c]) /\ \E l, a : Missed(c, l, a)
  <1>1. hand[c] # Missing /\ hand[c] \in Values /\ at[c] > 1
    BY DEF Migrate, Control, TypeOK, Shape, Values
  <1>. QED
    BY <1>1, MissMoves
    DEF Migrate, Kept, written, Decode, Hit, Return, Moves, HitLabel

LEMMA StoreCases ==
    ASSUME Control, NEW c \in Calls, Store(c)
    PROVE  /\ pc[c] = "store" /\ UNCHANGED <<inside, warm, landed>>
           /\ \/ /\ Put(c, KeyOf[c], c, "draw")
                 /\ Moves(c, "leave", c) \/ Moves(c, "leave", "raised")
              \/ Kept /\ Moves(c, "leave", "raised")
  BY DEF Store, Return, Moves, Kept, written

LEMMA OtherCases ==
    ASSUME Control, NEW c \in Calls
    PROVE  /\ Begin(c) =>
                /\ pc[c] = "idle" /\ Moves(c, "probe", Missing) /\ Kept
                /\ warm' = IF InReach(c) THEN warm \cup {c} ELSE warm
                /\ UNCHANGED <<inside, landed>>
           /\ EnterLatch(c) =>
                /\ pc[c] = "enter" /\ Moves(c, "recheck", Missing) /\ Kept
                /\ UNCHANGED <<warm, landed>>
           /\ GiveUp(c) =>
                /\ pc[c] = "enter" /\ Moves(c, "end", "raised") /\ Kept
                /\ UNCHANGED <<inside, warm, landed>>
           /\ Draw(c) =>
                /\ pc[c] = "draw" /\ Kept
                /\ \/ Moves(c, "settle", Missing)
                   \/ Moves(c, "leave", "raised")
                /\ landed' = IF InReach(c) THEN landed \cup {c} ELSE landed
                /\ UNCHANGED <<inside, warm>>
           /\ LeaveLatch(c) =>
                /\ pc[c] = "leave" /\ Moves(c, "end", answer[c]) /\ Kept
                /\ UNCHANGED <<warm, landed>>
  <1>1. ~Over(c) => answer[c] = Missing
    BY DEF Control, Shape
  <1>2. ~Over(c) /\ UNCHANGED answer => answer' = [answer EXCEPT ![c] = Missing]
    BY <1>1, AnswerKept
  <1>3. UNCHANGED answer => answer' = [answer EXCEPT ![c] = answer[c]]
    BY AnswerKept
  <1>4. CASE Begin(c)
    BY <1>2, <1>4 DEF Begin, Moves, Over, Kept, written, EnterLatch, GiveUp,
                      Draw, LeaveLatch
  <1>5. CASE EnterLatch(c)
    BY <1>2, <1>5 DEF Begin, Moves, Return, Over, Kept, written, history,
                      EnterLatch, GiveUp, Draw, LeaveLatch
  <1>6. CASE GiveUp(c)
    BY <1>2, <1>6 DEF Begin, Moves, Return, Over, Kept, written, history,
                      EnterLatch, GiveUp, Draw, LeaveLatch
  <1>7. CASE Draw(c)
    BY <1>2, <1>7 DEF Begin, Moves, Return, Over, Kept, written, EnterLatch,
                      GiveUp, Draw, LeaveLatch
  <1>8. CASE LeaveLatch(c)
    BY <1>3, <1>8 DEF Begin, Moves, Kept, written, history, EnterLatch,
                      GiveUp, Draw, LeaveLatch
  <1>. QED
    BY <1>4, <1>5, <1>6, <1>7, <1>8

-----------------------------------------------------------------------------
\* Control: a latch admits a call only when nobody is inside.
LEMMA InsideFacts ==
    ASSUME Control, NEW x \in Scopes \X Keys
    PROVE  inside[x] = {d \in Calls : LatchKey(d) = x /\ Latched(d)}
  BY DEF Control, TypeOK, Latched, Inner

LEMMA InitControl == Init => Control
  <1>. SUFFICES ASSUME Init PROVE Control
    OBVIOUS
  <1>1. \A c \in Calls : 1 \in DOMAIN Chain(c)
    BY ChainFacts
  <1>2. TypeOK
    BY <1>1, ValuesAssumption DEF Init, TypeOK, Latch!Init, Values
  <1>3. Shape /\ OneInside
    BY DEF Init, Shape, OneInside, Latched, Inner, Serving, Over
  <1>. QED
    BY <1>2, <1>3 DEF Control

LEMMA ReadControl ==
    ASSUME Control, NEW c \in Calls, Read(c)
    PROVE  Control'
  <1> DEFINE raw == store[Chain(c)[at[c]]]
  <1>1. raw \in Values \cup {Missing}
    BY ChainFacts DEF Control, TypeOK
  <1>2. /\ Serving(c) /\ hand[c] = Missing
        /\ UNCHANGED <<store, author, lost, inside, warm, landed>>
        /\ \/ /\ raw = Missing /\ at[c] < Len(Chain(c))
              /\ at' = [at EXCEPT ![c] = at[c] + 1]
              /\ UNCHANGED <<pc, hand, answer>>
           \/ \E l, a : Missed(c, l, a)
           \/ Moves(c, HitLabel(c), raw)
           \/ /\ raw # Missing /\ at[c] > 1
              /\ hand' = [hand EXCEPT ![c] = raw]
              /\ UNCHANGED <<pc, at, answer>>
           \/ Moves(c, HitLabel(c), "raised")
    BY ReadCases DEF Kept
  <1>3. /\ store \in [Keys -> Values \cup {Missing}]
        /\ author \in [Keys -> [scope : Scopes, how : {"draw", "copy"}]
                                   \cup {NoAuthor}]
        /\ lost \subseteq Keys /\ warm \subseteq Calls /\ landed \subseteq Calls
    BY DEF Control, TypeOK
  <1>4. CASE at' = [at EXCEPT ![c] = at[c] + 1] /\ at[c] < Len(Chain(c))
             /\ UNCHANGED <<pc, hand, answer>>
    <2>1. at' \in [Calls -> Nat] /\ at'[c] = at[c] + 1
          /\ \A d \in Calls \ {c} : at'[d] = at[d]
      BY <1>4 DEF Control, TypeOK
    <2>2. \A d \in Calls : at'[d] \in DOMAIN Chain(d)
      BY <1>4, <2>1, ChainFacts DEF Control, TypeOK
    <2>3. TypeOK'
      BY <1>2, <1>4, <2>1, <2>2 DEF Control, TypeOK
    <2>4. Shape' /\ OneInside'
      BY <1>2, <1>4, <2>1
      DEF Control, Shape, OneInside, Serving, Over, Latched
    <2>. QED
      BY <2>3, <2>4 DEF Control
  <1>5. CASE hand' = [hand EXCEPT ![c] = raw] /\ at[c] > 1
             /\ UNCHANGED <<pc, at, answer>>
    <2>1. hand' \in [Calls -> Preloads \cup Calls \cup {Missing}]
      BY <1>1, <1>5 DEF Control, TypeOK, Values
    <2>2. TypeOK'
      BY <1>2, <1>5, <2>1 DEF Control, TypeOK
    <2>3. Shape' /\ OneInside'
      BY <1>2, <1>5 DEF Control, TypeOK, Shape, OneInside, Serving, Over, Latched
    <2>. QED
      BY <2>2, <2>3 DEF Control
  <1>6. ASSUME NEW l, NEW a, Missed(c, l, a)
        PROVE  Control'
    BY <1>2, <1>3, <1>6, MovesControl
    DEF Missed, Outcomes, Labels, Inner, Latched, Failures
  <1>7. ASSUME NEW a \in {raw, "raised"}, Moves(c, HitLabel(c), a)
        PROVE  Control'
    <2>1. a \in Values \cup Failures \cup {Missing}
      BY <1>1 DEF Failures
    <2>2. /\ HitLabel(c) \in Labels /\ HitLabel(c) \in {"leave", "end"}
          /\ HitLabel(c) \in Inner <=> Latched(c)
      BY <1>2 DEF HitLabel, Labels, Inner, Latched, Serving
    <2>. QED
      BY <1>2, <1>3, <1>7, <2>1, <2>2, MovesControl
  <1>. QED
    BY <1>2, <1>4, <1>5, <1>6, <1>7

LEMMA MigrateControl ==
    ASSUME Control, NEW c \in Calls, Migrate(c)
    PROVE  Control'
  <1>1. /\ Serving(c) /\ hand[c] \in Values
        /\ UNCHANGED <<inside, warm, landed>>
        /\ Kept \/ Put(c, KeyOf[c], hand[c], "copy")
        /\ \/ Moves(c, HitLabel(c), hand[c])
           \/ \E l, a : Missed(c, l, a)
    BY MigrateCases
  <1>2. /\ store' \in [Keys -> Values \cup {Missing}]
        /\ author' \in [Keys -> [scope : Scopes, how : {"draw", "copy"}]
                                    \cup {NoAuthor}]
        /\ lost' \subseteq Keys /\ warm' \subseteq Calls
        /\ landed' \subseteq Calls
    BY <1>1, ChainFacts, PutTypes DEF Kept, Control, TypeOK
  <1>3. ASSUME NEW l, NEW a, Missed(c, l, a)
        PROVE  Control'
    BY <1>1, <1>2, <1>3, MovesControl
    DEF Missed, Outcomes, Labels, Inner, Latched, Failures
  <1>4. CASE Moves(c, HitLabel(c), hand[c])
    <2>1. /\ HitLabel(c) \in Labels /\ HitLabel(c) \in {"leave", "end"}
          /\ HitLabel(c) \in Inner <=> Latched(c)
      BY <1>1 DEF HitLabel, Labels, Inner, Latched, Serving
    <2>. QED
      BY <1>1, <1>2, <1>4, <2>1, MovesControl
  <1>. QED
    BY <1>1, <1>3, <1>4

LEMMA StoreControl ==
    ASSUME Control, NEW c \in Calls, Store(c)
    PROVE  Control'
  <1>1. /\ pc[c] = "store" /\ UNCHANGED <<inside, warm, landed>>
        /\ Kept \/ Put(c, KeyOf[c], c, "draw")
        /\ \E a \in {c, "raised"} : Moves(c, "leave", a)
    BY StoreCases
  <1>2. c \in Values
    BY DEF Values
  <1>3. /\ store' \in [Keys -> Values \cup {Missing}]
        /\ author' \in [Keys -> [scope : Scopes, how : {"draw", "copy"}]
                                    \cup {NoAuthor}]
        /\ lost' \subseteq Keys /\ warm' \subseteq Calls
        /\ landed' \subseteq Calls
    BY <1>1, <1>2, ChainFacts, PutTypes DEF Kept, Control, TypeOK
  <1>4. PICK a \in {c, "raised"} : Moves(c, "leave", a)
    BY <1>1
  <1>. QED
    BY <1>1, <1>2, <1>3, <1>4, MovesControl
    DEF Labels, Inner, Latched, Failures

LEMMA OutsideControl ==
    ASSUME Control, NEW c \in Calls, Begin(c) \/ GiveUp(c) \/ Draw(c)
    PROVE  Control'
  <1>1. /\ store' \in [Keys -> Values \cup {Missing}]
        /\ author' \in [Keys -> [scope : Scopes, how : {"draw", "copy"}]
                                    \cup {NoAuthor}]
        /\ lost' \subseteq Keys /\ warm' \subseteq Calls
        /\ landed' \subseteq Calls /\ UNCHANGED inside
    BY OtherCases DEF Control, TypeOK, Kept
  <1>2. \/ pc[c] = "idle" /\ Moves(c, "probe", Missing)
        \/ pc[c] = "enter" /\ Moves(c, "end", "raised")
        \/ pc[c] = "draw" /\ Moves(c, "settle", Missing)
        \/ pc[c] = "draw" /\ Moves(c, "leave", "raised")
    BY OtherCases
  <1>. QED
    BY <1>1, <1>2, MovesControl DEF Labels, Inner, Latched, Failures

LEMMA EnterControl ==
    ASSUME Control, NEW c \in Calls, EnterLatch(c)
    PROVE  Control'
  <1>. USE DEF Control
  <1> DEFINE k == LatchKey(c)
  <1>1. /\ pc[c] = "enter" /\ Moves(c, "recheck", Missing) /\ Kept
        /\ UNCHANGED <<warm, landed>>
    BY OtherCases
  <1>3. k \in Scopes \X Keys
    BY ChainFacts
  <1>2. /\ \A d \in inside[k] : d = c
        /\ inside' = [inside EXCEPT ![k] = @ \cup {c}]
    <2>1. inside[k] \subseteq Calls
      BY <1>3, InsideFacts
    <2>. QED
      BY <2>1 DEF EnterLatch, Latch!Enter, Latch!MayEnter
  <1>4. \A d \in Calls : Latched(d) => ~SameLatch(c, d)
    BY <1>1, <1>2, <1>3, InsideFacts DEF Latched, Inner, SameLatch
  <1>5. /\ pc'[c] = "recheck" /\ at'[c] = 1 /\ hand'[c] = Missing
        /\ answer'[c] = Missing
        /\ \A d \in Calls \ {c} : /\ pc'[d] = pc[d] /\ at'[d] = at[d]
                                  /\ hand'[d] = hand[d]
                                  /\ answer'[d] = answer[d]
    BY <1>1 DEF Moves, Goto, TypeOK
  <1>6. \A d \in Calls : Latched(d)' <=> Latched(d) \/ d = c
    BY <1>5 DEF Latched, Inner
  <1>7. inside' = [x \in Scopes \X Keys |->
                       {d \in Calls : LatchKey(d) = x /\ Latched(d)'}]
    <2>. SUFFICES ASSUME NEW x \in Scopes \X Keys
                  PROVE  inside'[x] =
                             {d \in Calls : LatchKey(d) = x /\ Latched(d)'}
      BY <1>2 DEF TypeOK
    <2>1. inside'[x] = IF x = k THEN inside[x] \cup {c} ELSE inside[x]
      BY <1>2 DEF TypeOK
    <2>2. inside[x] = {d \in Calls : LatchKey(d) = x /\ Latched(d)}
      BY InsideFacts
    <2>. QED
      BY <2>1, <2>2, <1>6
  <1>8. at' \in [Calls -> Nat] /\ \A d \in Calls : at'[d] \in DOMAIN Chain(d)
    <2>1. 1 \in DOMAIN Chain(c)
      BY ChainFacts
    <2>. QED
      BY <1>1, <1>5, <2>1 DEF TypeOK, Moves, Goto
  <1>9. TypeOK'
    <2>1. /\ pc' \in [Calls -> Labels]
          /\ hand' \in [Calls -> Preloads \cup Calls \cup {Missing}]
          /\ answer' \in [Calls -> Values \cup Failures \cup {Missing}]
      BY <1>1 DEF TypeOK, Moves, Goto, Labels, Inner
    <2>. QED
      BY <1>1, <1>7, <1>8, <2>1 DEF TypeOK, Kept, Latched, Labels, Inner
  <1>10. Shape'
    BY <1>5 DEF Shape, Serving, Over
  <1>11. OneInside'
    BY <1>4, <1>6 DEF OneInside, SameLatch, LatchKey
  <1>. QED
    BY <1>9, <1>10, <1>11

LEMMA LeaveControl ==
    ASSUME Control, NEW c \in Calls, LeaveLatch(c)
    PROVE  Control'
  <1>. USE DEF Control
  <1>1. /\ pc[c] = "leave" /\ Moves(c, "end", answer[c]) /\ Kept
        /\ UNCHANGED <<warm, landed>>
        /\ inside' = [inside EXCEPT ![LatchKey(c)] = @ \ {c}]
    BY OtherCases DEF LeaveLatch, Latch!Leave
  <1>2. /\ pc'[c] = "end" /\ at'[c] = 1 /\ hand'[c] = Missing
        /\ \A d \in Calls \ {c} : /\ pc'[d] = pc[d] /\ at'[d] = at[d]
                                  /\ hand'[d] = hand[d]
        /\ \A d \in Calls : answer'[d] = answer[d]
    BY <1>1 DEF Moves, Goto, TypeOK
  <1>3. \A d \in Calls : Latched(d)' <=> Latched(d) /\ d # c
    BY <1>1, <1>2 DEF Latched, Inner
  <1>4. inside' = [x \in Scopes \X Keys |->
                       {d \in Calls : LatchKey(d) = x /\ Latched(d)'}]
    <2>. SUFFICES ASSUME NEW x \in Scopes \X Keys
                  PROVE  inside'[x] =
                             {d \in Calls : LatchKey(d) = x /\ Latched(d)'}
      BY <1>1 DEF TypeOK
    <2>1. inside'[x] = IF x = LatchKey(c) THEN inside[x] \ {c} ELSE inside[x]
      BY <1>1 DEF TypeOK
    <2>2. inside[x] = {d \in Calls : LatchKey(d) = x /\ Latched(d)}
      BY InsideFacts
    <2>. QED
      BY <2>1, <2>2, <1>3
  <1>5. at' \in [Calls -> Nat] /\ \A d \in Calls : at'[d] \in DOMAIN Chain(d)
    <2>1. 1 \in DOMAIN Chain(c)
      BY ChainFacts
    <2>. QED
      BY <1>1, <1>2, <2>1 DEF TypeOK, Moves, Goto
  <1>6. TypeOK'
    <2>1. /\ pc' \in [Calls -> Labels]
          /\ hand' \in [Calls -> Preloads \cup Calls \cup {Missing}]
          /\ answer' \in [Calls -> Values \cup Failures \cup {Missing}]
      BY <1>1 DEF TypeOK, Moves, Goto, Labels, Inner
    <2>. QED
      BY <1>1, <1>4, <1>5, <2>1 DEF TypeOK, Kept, Latched, Labels, Inner
  <1>7. Shape'
    BY <1>2 DEF Shape, Serving, Over
  <1>8. OneInside'
    BY <1>3 DEF OneInside, SameLatch, LatchKey
  <1>. QED
    BY <1>6, <1>7, <1>8

LEMMA EvictControl ==
    ASSUME Control, NEW k \in Keys, Evict(k)
    PROVE  Control'
  <1>. USE DEF Control
  <1>1. UNCHANGED <<pc, at, hand, answer, inside, warm, landed>>
    BY DEF Evict, local
  <1>2. TypeOK'
    BY <1>1 DEF Evict, TypeOK
  <1>3. Shape' /\ OneInside'
    BY <1>1 DEF Shape, OneInside, Serving, Over, Latched
  <1>. QED
    BY <1>2, <1>3

\* A crash ends calls and takes them out of their latches.
Dies(c, p) == Process(c) = p /\ pc[c] \notin {"idle", "end"}

LEMMA CrashCases ==
    ASSUME Control, NEW p, Crash(p)
    PROVE  /\ Kept /\ UNCHANGED <<warm, landed>>
           /\ \A c \in Calls :
                 IF Dies(c, p)
                 THEN /\ pc'[c] = "end" /\ at'[c] = 1 /\ hand'[c] = Missing
                      /\ answer'[c] = "killed"
                 ELSE /\ pc'[c] = pc[c] /\ at'[c] = at[c]
                      /\ hand'[c] = hand[c] /\ answer'[c] = answer[c]
  BY DEF Crash, Dies, Kept, history, written

LEMMA CrashControl ==
    ASSUME Control, NEW p, Crash(p)
    PROVE  Control'
  <1>. USE DEF Control
  <1>1. \A c \in Calls : Latched(c)' <=> Latched(c) /\ ~Dies(c, p)
    BY CrashCases DEF Latched, Inner, Dies
  <1>2. inside' = [x \in Scopes \X Keys |->
                       {d \in Calls : LatchKey(d) = x /\ Latched(d)'}]
    <2>. SUFFICES ASSUME NEW x \in Scopes \X Keys
                  PROVE  inside'[x] =
                             {d \in Calls : LatchKey(d) = x /\ Latched(d)'}
      BY DEF Crash
    <2>1. inside'[x] = inside[x] \ {c \in Calls : Dies(c, p)}
      BY DEF Crash, Dies
    <2>2. inside[x] = {d \in Calls : LatchKey(d) = x /\ Latched(d)}
      BY InsideFacts
    <2>. QED
      BY <2>1, <2>2, <1>1
  <1>3. at' \in [Calls -> Nat] /\ \A d \in Calls : at'[d] \in DOMAIN Chain(d)
    <2>1. \A c \in Calls : 1 \in DOMAIN Chain(c)
      BY ChainFacts
    <2>2. \A c \in Calls : at'[c] \in DOMAIN Chain(c) /\ at'[c] \in Nat
      BY <2>1, CrashCases DEF TypeOK
    <2>. QED
      BY <2>2 DEF Crash
  <1>4. TypeOK'
    <2>1. /\ pc' \in [Calls -> Labels]
          /\ hand' \in [Calls -> Preloads \cup Calls \cup {Missing}]
          /\ answer' \in [Calls -> Values \cup Failures \cup {Missing}]
      BY DEF Crash, TypeOK, Labels, Inner, Failures
    <2>. QED
      BY <1>2, <1>3, <2>1, CrashCases
      DEF TypeOK, Kept, Latched, Labels, Inner
  <1>5. Shape'
    BY CrashCases DEF Shape, Serving, Over
  <1>6. OneInside'
    BY <1>1 DEF OneInside, SameLatch, LatchKey
  <1>. QED
    BY <1>4, <1>5, <1>6

LEMMA StutterControl ==
    ASSUME Control, UNCHANGED vars
    PROVE  Control'
  BY DEF vars, local, history, written, Control, TypeOK, Shape, OneInside,
         Serving, Over, Latched

\* The steps of the specification, one case per action.
LEMMA NextCases ==
    ASSUME [Next]_vars
    PROVE  \/ \E c \in Calls :
                \/ Begin(c) \/ Read(c) \/ Migrate(c) \/ EnterLatch(c)
                \/ GiveUp(c) \/ Draw(c) \/ Store(c) \/ LeaveLatch(c)
           \/ \E k \in Keys : Evict(k)
           \/ \E p \in Mortal : Crash(p)
           \/ UNCHANGED vars
  BY VolatileAssumption DEF Next, Step, Finished

LEMMA ControlStep == Control /\ [Next]_vars => Control'
  BY NextCases, ReadControl, MigrateControl, StoreControl, OutsideControl,
     EnterControl, LeaveControl, EvictControl, CrashControl, StutterControl

\* Every variable keeps its type, and a call is inside its latch exactly on
\* the latched path.
THEOREM TypeCorrect == Spec => []TypeOK
  <1>1. Spec => []Control
    BY InitControl, ControlStep, PTL DEF Spec
  <1>2. Control => TypeOK
    BY DEF Control
  <1>. QED
    BY <1>1, <1>2, PTL

-----------------------------------------------------------------------------
\* What one step does to one call and to one key.
Acts(c) ==
    \/ Begin(c) \/ Read(c) \/ Migrate(c) \/ EnterLatch(c) \/ GiveUp(c)
    \/ Draw(c) \/ Store(c) \/ LeaveLatch(c)
SameLocals(c) ==
    /\ pc'[c] = pc[c] /\ at'[c] = at[c]
    /\ hand'[c] = hand[c] /\ answer'[c] = answer[c]
Died(c) ==
    /\ pc'[c] = "end" /\ at'[c] = 1 /\ hand'[c] = Missing
    /\ answer'[c] = "killed"

SameEntry(k) == store'[k] = store[k] /\ author'[k] = author[k]
Copied(c, k) ==
    /\ Migrate(c) /\ KeyOf[c] = k /\ store'[k] = hand[c]
    /\ author'[k] = [scope |-> ScopeOf[c], how |-> "copy"]
    /\ Readable(hand[c]) \/ k \in lost'
Drew(c, k) ==
    /\ Store(c) /\ KeyOf[c] = k /\ store'[k] = c
    /\ author'[k] = [scope |-> ScopeOf[c], how |-> "draw"]
Evicted(k) == store'[k] = Missing /\ author'[k] = NoAuthor /\ k \in lost'

LEMMA ValueFacts ==
    /\ \A c \in Calls : /\ c \in Values /\ Readable(c) /\ c # Missing
                        /\ c \notin Failures
    /\ ~Readable(Missing) /\ Missing \notin Failures
    /\ \A v : Readable(v) => v \in Values /\ v # Missing /\ v \notin Failures
  BY ValuesAssumption DEF Readable, Values

LEMMA MovesFacts ==
    ASSUME Control, NEW c \in Calls, NEW l, NEW a, Moves(c, l, a)
    PROVE  /\ pc'[c] = l /\ at'[c] = 1 /\ hand'[c] = Missing /\ answer'[c] = a
           /\ \A d \in Calls \ {c} : SameLocals(d)
  BY DEF Moves, Goto, SameLocals, Control, TypeOK

LEMMA CallFrame ==
    ASSUME Control, NEW c \in Calls, NEW d \in Calls \ {c}, Acts(c)
    PROVE  SameLocals(d)
  <1>1. CASE Read(c)
    <2>1. /\ \/ /\ at' = [at EXCEPT ![c] = at[c] + 1]
                /\ UNCHANGED <<pc, hand, answer>>
             \/ \E l, a : Missed(c, l, a)
             \/ \E l, a : Moves(c, l, a)
             \/ /\ hand' = [hand EXCEPT ![c] = store[Chain(c)[at[c]]]]
                /\ UNCHANGED <<pc, at, answer>>
      BY <1>1, ReadCases
    <2>. QED
      BY <2>1, MovesFacts DEF Missed, SameLocals, Control, TypeOK
  <1>2. CASE Migrate(c) \/ Store(c)
    BY <1>2, MigrateCases, StoreCases, MovesFacts DEF Missed
  <1>3. CASE Begin(c) \/ EnterLatch(c) \/ GiveUp(c) \/ Draw(c) \/ LeaveLatch(c)
    BY <1>3, OtherCases, MovesFacts
  <1>. QED
    BY <1>1, <1>2, <1>3 DEF Acts

LEMMA CallCases ==
    ASSUME Control, [Next]_vars, NEW d \in Calls
    PROVE  SameLocals(d) \/ Acts(d) \/ (Died(d) /\ Kept)
  <1>1. CASE \E c \in Calls : Acts(c)
    BY <1>1, CallFrame
  <1>2. CASE \E k \in Keys : Evict(k)
    BY <1>2 DEF Evict, local, SameLocals
  <1>3. CASE \E p \in Mortal : Crash(p)
    BY <1>3, CrashCases DEF SameLocals, Died
  <1>4. CASE UNCHANGED vars
    BY <1>4 DEF vars, local, SameLocals
  <1>. QED
    BY <1>1, <1>2, <1>3, <1>4, NextCases DEF Acts

LEMMA PutAt ==
    ASSUME Control, NEW c \in Calls, NEW v, NEW how,
           Put(c, KeyOf[c], v, how), NEW k \in Keys
    PROVE  /\ lost \subseteq lost'
           /\ KeyOf[c] # k => SameEntry(k)
           /\ KeyOf[c] = k =>
                 /\ store'[k] = v
                 /\ author'[k] = [scope |-> ScopeOf[c], how |-> how]
                 /\ Readable(v) \/ k \in lost'
  <1>1. KeyOf[c] \in Keys /\ ScopeOf[c] \in Scopes
    BY ChainFacts
  <1>. QED
    BY <1>1 DEF Put, SameEntry, Control, TypeOK

LEMMA KeyCases ==
    ASSUME Control, [Next]_vars, NEW k \in Keys
    PROVE  /\ lost \subseteq lost'
           /\ \/ SameEntry(k) \/ Evicted(k)
              \/ \E c \in Calls : Copied(c, k) \/ Drew(c, k)
  <1>1. CASE Kept
    BY <1>1 DEF Kept, SameEntry
  <1>2. ASSUME NEW c \in Calls, Migrate(c)
        PROVE  \/ Kept
               \/ lost \subseteq lost' /\ (SameEntry(k) \/ Copied(c, k))
    <2>1. Kept \/ Put(c, KeyOf[c], hand[c], "copy")
      BY <1>2, MigrateCases
    <2>2. hand[c] \in Values
      BY <1>2, MigrateCases
    <2>3. CASE Put(c, KeyOf[c], hand[c], "copy")
      BY <1>2, <2>2, <2>3, PutAt DEF Copied
    <2>. QED
      BY <2>1, <2>3
  <1>3. ASSUME NEW c \in Calls, Store(c)
        PROVE  \/ Kept
               \/ lost \subseteq lost' /\ (SameEntry(k) \/ Drew(c, k))
    <2>1. Kept \/ Put(c, KeyOf[c], c, "draw")
      BY <1>3, StoreCases
    <2>2. c \in Values
      BY ValueFacts
    <2>3. CASE Put(c, KeyOf[c], c, "draw")
      BY <1>3, <2>2, <2>3, PutAt DEF Drew
    <2>. QED
      BY <2>1, <2>3
  <1>4. CASE \E j \in Keys : Evict(j)
    BY <1>4 DEF Evict, SameEntry, Evicted, Control, TypeOK
  <1>5. ASSUME NEW c \in Calls,
               \/ Begin(c) \/ Read(c) \/ EnterLatch(c) \/ GiveUp(c)
               \/ Draw(c) \/ LeaveLatch(c)
        PROVE  Kept
    BY <1>5, OtherCases, ReadCases
  <1>6. UNCHANGED vars => Kept
    BY DEF vars, history, written, Kept
  <1>7. ASSUME NEW p \in Mortal, Crash(p)
        PROVE  Kept
    BY <1>7, CrashCases
  <1>. QED
    BY <1>1, <1>2, <1>3, <1>4, <1>5, <1>6, <1>7, NextCases

\* What a call can come to hold and to answer.
LEMMA HandAnswer ==
    ASSUME Control, [Next]_vars, NEW d \in Calls
    PROVE  /\ Over(d) => Over(d)' /\ answer'[d] \in {answer[d], "killed"}
           /\ hand'[d] \in {hand[d], Missing} \cup {store[k] : k \in Keys}
           /\ \/ answer'[d] \in {answer[d], hand[d]} \cup Failures
              \/ answer'[d] \in {store[k] : k \in Keys}
              \/ answer'[d] = d /\ Drew(d, KeyOf[d])
  <1>1. CASE SameLocals(d) \/ Died(d)
    BY <1>1 DEF SameLocals, Died, Over, Failures
  <1>2. CASE Read(d)
    <2>0. Serving(d)
      BY <1>2 DEF Read
    <2>1. Chain(d)[at[d]] \in Keys /\ answer[d] = Missing /\ ~Over(d)
      BY <2>0, ChainFacts DEF Control, TypeOK, Shape, Serving, Over
    <2>2. \/ at' = [at EXCEPT ![d] = at[d] + 1]
             /\ UNCHANGED <<pc, hand, answer>>
          \/ \E l, a : Missed(d, l, a)
          \/ \E l : Moves(d, l, store[Chain(d)[at[d]]])
          \/ \E l : Moves(d, l, "raised")
          \/ /\ hand' = [hand EXCEPT ![d] = store[Chain(d)[at[d]]]]
             /\ UNCHANGED <<pc, at, answer>>
      BY <1>2, ReadCases
    <2>. QED
      BY <2>1, <2>2, MovesFacts
      DEF Missed, Outcomes, Failures, Control, TypeOK
  <1>3. CASE Migrate(d)
    <2>1. answer[d] = Missing /\ ~Over(d)
      BY <1>3, MigrateCases DEF Control, Shape, Serving, Over
    <2>2. \/ \E l, a : Missed(d, l, a)
          \/ \E l : Moves(d, l, hand[d])
      BY <1>3, MigrateCases
    <2>. QED
      BY <2>1, <2>2, MovesFacts DEF Missed, Outcomes, Failures
  <1>4. CASE Store(d)
    <2>1. answer[d] = Missing /\ ~Over(d)
      BY <1>4, StoreCases DEF Control, Shape, Over
    <2>2. KeyOf[d] \in Keys /\ d \in Values
      BY ChainFacts, ValueFacts
    <2>3. ASSUME Put(d, KeyOf[d], d, "draw")
          PROVE  Drew(d, KeyOf[d])
      BY <1>4, <2>2, <2>3, PutAt DEF Drew
    <2>4. \/ Moves(d, "leave", d) /\ Drew(d, KeyOf[d])
          \/ Moves(d, "leave", "raised")
      BY <1>4, <2>3, StoreCases
    <2>. QED
      BY <2>1, <2>4, MovesFacts DEF Failures
  <1>5. CASE Begin(d) \/ EnterLatch(d) \/ GiveUp(d) \/ Draw(d) \/ LeaveLatch(d)
    <2>1. \/ ~Over(d) /\ answer[d] = Missing
          \/ pc[d] = "leave" /\ Moves(d, "end", answer[d])
      BY <1>5, OtherCases DEF Control, Shape, Over
    <2>2. \/ \E l : Moves(d, l, Missing) /\ ~Over(d)
          \/ \E l : Moves(d, l, "raised") /\ ~Over(d)
          \/ Moves(d, "end", answer[d])
      BY <1>5, OtherCases DEF Over
    <2>. QED
      BY <2>1, <2>2, MovesFacts DEF Over, Failures
  <1>. QED
    BY <1>1, <1>2, <1>3, <1>4, <1>5, CallCases DEF Acts

-----------------------------------------------------------------------------
\* Draws: under one latch, a draw is stored only over what cannot be read.
LEMMA InitDraws == Init => Draws
  <1>. SUFFICES ASSUME Init PROVE Draws
    OBVIOUS
  <1>1. \A k \in Keys : store[k] \in Preloads \cup {Missing}
    BY ValuesAssumption DEF Init
  <1>2. DrawnOnce
    BY <1>1, ValuesAssumption, ValueFacts DEF Init, DrawnOnce
  <1>3. Authors
    BY DEF Init, Authors
  <1>4. KeptReadable /\ ComputeOnce
    BY ValueFacts DEF Init, KeptReadable, ComputeOnce
  <1>5. FirstDraw
    BY DEF Init, FirstDraw, PastReread
  <1>. QED
    BY <1>2, <1>3, <1>4, <1>5 DEF Draws

\* A call that comes to answer its own draw has just stored it.
LEMMA NewAnswer ==
    ASSUME Control, DrawnOnce, [Next]_vars, NEW c \in Calls,
           answer'[c] = c, answer[c] # c
    PROVE  Drew(c, KeyOf[c]) /\ pc[c] = "store" /\ pc'[c] = "leave"
  <1>1. ~Over(c)
    BY HandAnswer, ValueFacts DEF Failures
  <1>2. hand[c] # c /\ \A k \in Keys : store[k] # c
    BY <1>1 DEF DrawnOnce
  <1>3. Drew(c, KeyOf[c])
    BY <1>2, HandAnswer, ValueFacts
  <1>. QED
    BY <1>3, StoreCases, MovesFacts DEF Drew

LEMMA DrawnOnceStep ==
    ASSUME Control, DrawnOnce, [Next]_vars
    PROVE  DrawnOnce'
  <1>. SUFFICES ASSUME NEW c \in Calls, ~Over(c)'
                PROVE  /\ \A k \in Keys : store'[k] # c
                       /\ \A d \in Calls : hand'[d] # c /\ answer'[d] # c
    BY DEF DrawnOnce
  <1>1. ~Over(c)
    BY HandAnswer
  <1>2. /\ \A k \in Keys : store[k] # c
        /\ \A d \in Calls : hand[d] # c /\ answer[d] # c
    BY <1>1 DEF DrawnOnce
  <1>3. \A d \in Calls, k \in Keys : Drew(d, k) => d # c
    BY StoreCases, MovesFacts DEF Drew, Over
  <1>4. ASSUME NEW k \in Keys
        PROVE  store'[k] # c
    <2>1. ASSUME NEW d \in Calls, Copied(d, k) \/ Drew(d, k)
          PROVE  store'[k] # c
      BY <1>2, <1>3, <2>1 DEF Copied, Drew
    <2>2. SameEntry(k) \/ Evicted(k) => store'[k] # c
      BY <1>2, ValueFacts DEF SameEntry, Evicted
    <2>. QED
      BY <2>1, <2>2, KeyCases
  <1>5. ASSUME NEW d \in Calls
        PROVE  hand'[d] # c /\ answer'[d] # c
    <2>1. Drew(d, KeyOf[d]) => d # c
      BY <1>3, ChainFacts
    <2>. QED
      BY <1>2, <2>1, HandAnswer, ValueFacts
  <1>. QED
    BY <1>4, <1>5

LEMMA AuthorsStep ==
    ASSUME Control, Authors, [Next]_vars
    PROVE  Authors'
  <1>. SUFFICES ASSUME NEW k \in Keys, author'[k] # NoAuthor
                PROVE  /\ store'[k] # Missing
                       /\ k \notin lost' => Readable(store'[k])
                       /\ author'[k].how = "draw" => store'[k] \in Calls
    BY DEF Authors
  <1>1. lost \subseteq lost'
    BY KeyCases
  <1>2. CASE SameEntry(k)
    BY <1>1, <1>2 DEF SameEntry, Authors
  <1>3. CASE Evicted(k)
    BY <1>3 DEF Evicted
  <1>4. ASSUME NEW c \in Calls, Copied(c, k)
        PROVE  /\ store'[k] # Missing
               /\ k \notin lost' => Readable(store'[k])
               /\ author'[k].how # "draw"
    <2>1. hand[c] # Missing
      BY <1>4, MigrateCases DEF Copied
    <2>. QED
      BY <1>4, <2>1 DEF Copied
  <1>5. ASSUME NEW c \in Calls, Drew(c, k)
        PROVE  store'[k] \in Calls
    BY <1>5 DEF Drew
  <1>. QED
    BY <1>2, <1>3, <1>4, <1>5, KeyCases, ValueFacts

LEMMA KeptReadableStep ==
    ASSUME Control, DrawnOnce, KeptReadable, [Next]_vars
    PROVE  KeptReadable'
  <1>. SUFFICES ASSUME NEW c \in Calls, answer'[c] = c, KeyOf[c] \notin lost'
                PROVE  Readable(store'[KeyOf[c]])
    BY DEF KeptReadable
  <1>1. PICK k \in Keys : k = KeyOf[c]
    BY ChainFacts
  <1>2. CASE answer[c] = c
    <2>1. Readable(store[k])
      BY <1>1, <1>2, KeyCases DEF KeptReadable
    <2>2. /\ SameEntry(k) => Readable(store'[k])
          /\ \A d \in Calls : Copied(d, k) \/ Drew(d, k)
                => Readable(store'[k])
      BY <1>1, <2>1, ValueFacts DEF SameEntry, Copied, Drew
    <2>. QED
      BY <1>1, <2>2, KeyCases DEF Evicted
  <1>3. CASE answer[c] # c
    BY <1>1, <1>3, NewAnswer, ValueFacts DEF Drew
  <1>. QED
    BY <1>2, <1>3

\* The latched re-read found nothing readable.
LEMMA NewPast ==
    ASSUME Control, [Next]_vars, NEW d \in Calls,
           PastReread(d)', ~PastReread(d)
    PROVE  /\ Read(d) /\ pc[d] = "settle" /\ at[d] = 1 /\ Kept
           /\ ~Readable(store[KeyOf[d]])
  <1>1. /\ at[d] \in Nat /\ at[d] >= 1 /\ at[d] <= Len(Chain(d))
        /\ Chain(d)[1] = KeyOf[d] /\ Len(Chain(d)) \in Nat
    BY ChainFacts DEF Control, TypeOK
  <1>2. /\ \A l, a : Missed(d, l, a) /\ PastReread(d)' => pc[d] = "settle"
        /\ \A a : ~(Moves(d, HitLabel(d), a) /\ PastReread(d)')
    BY MovesFacts DEF Missed, Outcomes, PastReread, HitLabel
  <1>3. CASE Read(d)
    BY <1>1, <1>2, <1>3, ReadCases, ValueFacts DEF PastReread, Serving
  <1>4. CASE Migrate(d)
    BY <1>2, <1>4, MigrateCases DEF PastReread
  <1>5. CASE \/ Begin(d) \/ EnterLatch(d) \/ GiveUp(d) \/ Draw(d)
             \/ LeaveLatch(d) \/ Store(d)
    BY <1>5, OtherCases, StoreCases, MovesFacts DEF PastReread
  <1>6. CASE SameLocals(d) \/ Died(d)
    BY <1>6 DEF SameLocals, Died, PastReread
  <1>. QED
    BY <1>3, <1>4, <1>5, <1>6, CallCases DEF Acts

\* A draw is stored by the only call inside its latch.
LEMMA DrewAlone ==
    ASSUME Control, [Next]_vars, NEW c \in Calls, NEW d \in Calls,
           NEW k \in Keys, Drew(c, k), PastReread(d)', SameLatch(c, d),
           PastReread(d)
    PROVE  FALSE
  <1>1. pc[c] = "store" /\ pc'[c] = "leave"
    BY StoreCases, MovesFacts DEF Drew
  <1>2. c = d
    BY <1>1 DEF Control, OneInside, Latched, Inner, PastReread
  <1>. QED
    BY <1>1, <1>2 DEF PastReread

LEMMA FirstDrawStep ==
    ASSUME Control, Draws, [Next]_vars
    PROVE  FirstDraw'
  <1>. USE DEF Draws
  <1>. SUFFICES ASSUME NEW d \in Calls, PastReread(d)'
                PROVE  /\ author'[KeyOf[d]] #
                              [scope |-> ScopeOf[d], how |-> "draw"]
                       /\ \A c \in Calls : SameLatch(c, d) /\ answer'[c] = c
                             => KeyOf[d] \in lost'
    BY DEF FirstDraw, SameLatch, LatchKey
  <1>1. PICK k \in Keys : k = KeyOf[d]
    BY ChainFacts
  <1>2. CASE PastReread(d)
    <2>1. /\ author[k] # [scope |-> ScopeOf[d], how |-> "draw"]
          /\ \A c \in Calls : SameLatch(c, d) /\ answer[c] = c => k \in lost
      BY <1>1, <1>2 DEF FirstDraw
    <2>2. \A c \in Calls : Drew(c, k) => ~SameLatch(c, d)
      BY <1>2, DrewAlone
    <2>3. ASSUME NEW c \in Calls, Drew(c, k)
          PROVE  ScopeOf[c] # ScopeOf[d]
      BY <1>1, <2>2, <2>3 DEF Drew, SameLatch, LatchKey
    <2>4. author'[k] # [scope |-> ScopeOf[d], how |-> "draw"]
      <3>1. [scope |-> ScopeOf[d], how |-> "draw"] # NoAuthor
        BY AuthorsAssumption, ChainFacts
      <3>2. ASSUME NEW c \in Calls, Drew(c, k) \/ Copied(c, k)
            PROVE  author'[k] # [scope |-> ScopeOf[d], how |-> "draw"]
        BY <2>3, <3>2 DEF Drew, Copied
      <3>. QED
        BY <2>1, <3>1, <3>2, KeyCases DEF SameEntry, Evicted
    <2>5. ASSUME NEW c \in Calls, SameLatch(c, d), answer'[c] = c
          PROVE  k \in lost'
      <3>1. CASE answer[c] = c
        BY <2>1, <2>5, <3>1, KeyCases
      <3>2. CASE answer[c] # c
        <4>1. Drew(c, KeyOf[c]) /\ KeyOf[c] = k
          BY <1>1, <2>5, <3>2, NewAnswer, SameLatchFacts
        <4>. QED
          BY <2>2, <2>5, <4>1
      <3>. QED
        BY <3>1, <3>2
    <2>. QED
      BY <1>1, <2>4, <2>5
  <1>3. CASE ~PastReread(d)
    <2>1. Kept /\ ~Readable(store[k]) /\ Read(d) /\ pc[d] = "settle"
      BY <1>1, <1>3, NewPast
    <2>2. author[k] # [scope |-> ScopeOf[d], how |-> "draw"]
      <3>1. SUFFICES ASSUME author[k] = [scope |-> ScopeOf[d], how |-> "draw"]
                     PROVE  FALSE
        OBVIOUS
      <3>2. author[k] # NoAuthor
        BY <3>1, AuthorsAssumption, ChainFacts
      <3>3. store[k] \in Calls
        BY <3>1, <3>2 DEF Authors
      <3>. QED
        BY <2>1, <3>3, ValueFacts
    <2>3. ASSUME NEW c \in Calls, SameLatch(c, d), answer'[c] = c
          PROVE  k \in lost
      <3>1. answer[c] = c
        <4>. SUFFICES ASSUME answer[c] # c PROVE FALSE
          OBVIOUS
        <4>1. pc[c] = "store" /\ pc'[c] = "leave"
          BY <2>3, NewAnswer
        <4>2. c # d
          BY <2>1, <4>1
        <4>3. SameLocals(c)
          BY <2>1, <4>2, CallFrame DEF Acts
        <4>. QED
          BY <4>1, <4>3 DEF SameLocals
      <3>2. KeyOf[c] = k
        BY <1>1, <2>3, SameLatchFacts
      <3>. QED
        BY <2>1, <3>1, <3>2 DEF KeptReadable
    <2>. QED
      BY <1>1, <2>1, <2>2, <2>3 DEF Kept
  <1>. QED
    BY <1>2, <1>3

LEMMA ComputeOnceStep ==
    ASSUME Control, Draws, [Next]_vars
    PROVE  ComputeOnce'
  <1>. USE DEF Draws
  <1>. SUFFICES ASSUME NEW c \in Calls, NEW d \in Calls, c # d,
                       SameLatch(c, d), answer'[c] = c, answer'[d] = d
                PROVE  KeyOf[c] \in lost'
    BY DEF ComputeOnce, SameLatch, LatchKey
  <1>1. KeyOf[c] = KeyOf[d] /\ KeyOf[c] \in Keys /\ lost \subseteq lost'
    BY SameLatchFacts, ChainFacts, KeyCases
  <1>2. CASE answer[c] # c /\ answer[d] # d
    <2>1. Acts(c) /\ pc[d] = "store" /\ pc'[d] = "leave"
      BY <1>2, NewAnswer DEF Drew, Acts
    <2>. QED
      BY <2>1, CallFrame DEF SameLocals
  <1>3. CASE answer[c] = c /\ answer[d] = d
    BY <1>1, <1>3 DEF ComputeOnce, SameLatch
  <1>4. CASE answer[c] = c /\ answer[d] # d
    BY <1>1, <1>4, NewAnswer DEF FirstDraw, PastReread
  <1>5. CASE answer[c] # c /\ answer[d] = d
    <2>1. PastReread(c) /\ SameLatch(d, c)
      BY <1>5, NewAnswer DEF PastReread, SameLatch
    <2>. QED
      BY <1>1, <1>5, <2>1 DEF FirstDraw
  <1>. QED
    BY <1>2, <1>3, <1>4, <1>5

LEMMA DrawsStep == Control /\ Draws /\ [Next]_vars => Draws'
  BY DrawnOnceStep, AuthorsStep, KeptReadableStep, FirstDrawStep,
     ComputeOnceStep DEF Draws

LEMMA DrawsAlways == Spec => [](Control /\ Draws)
  BY InitControl, InitDraws, ControlStep, DrawsStep, PTL DEF Spec

\* Concurrent misses on one key compute once: under one latch, two calls both
\* answer their own draw of a key only after the key lost a value.
THEOREM ComputesOnce == Spec => []ComputeOnce
  <1>1. Draws => ComputeOnce
    BY DEF Draws
  <1>. QED
    BY <1>1, DrawsAlways, PTL

-----------------------------------------------------------------------------
\* The refinement of FirstWriteWins: what a step does to the entries.
LEMMA WriteCases ==
    ASSUME Control, [Next]_vars
    PROVE  \/ Kept
           \/ \E c \in Calls :
                 \/ Migrate(c) /\ Put(c, KeyOf[c], hand[c], "copy")
                 \/ Store(c) /\ Put(c, KeyOf[c], c, "draw")
           \/ \E k \in Keys : Evict(k)
  <1>1. \A c \in Calls : Acts(c) =>
            \/ Kept
            \/ Migrate(c) /\ Put(c, KeyOf[c], hand[c], "copy")
            \/ Store(c) /\ Put(c, KeyOf[c], c, "draw")
    BY OtherCases, ReadCases, MigrateCases, StoreCases DEF Acts
  <1>2. UNCHANGED vars => Kept
    BY DEF vars, history, written, Kept
  <1>3. \A p \in Mortal : Crash(p) => Kept
    BY CrashCases
  <1>. QED
    BY <1>1, <1>2, <1>3, NextCases DEF Acts

LEMMA DrawnUnderPut ==
    ASSUME Control, NEW c \in Calls, NEW v, NEW how \in {"draw", "copy"},
           Put(c, KeyOf[c], v, how)
    PROVE  DrawnUnder' = [DrawnUnder EXCEPT ![KeyOf[c]] =
               IF how = "draw" THEN ScopeOf[c] ELSE NoAuthor]
  <1>1. KeyOf[c] \in Keys /\ ScopeOf[c] \in Scopes
    BY ChainFacts
  <1>2. [scope |-> ScopeOf[c], how |-> how] # NoAuthor
    BY <1>1, AuthorsAssumption
  <1>. QED
    BY <1>1, <1>2 DEF Put, DrawnUnder, Control, TypeOK

LEMMA RefinesStep ==
    Control /\ Draws /\ [Next]_vars => [Abstract!Next]_(Abstract!vars)
  <1>. SUFFICES ASSUME Control, Draws, [Next]_vars
                PROVE  [Abstract!Next]_(Abstract!vars)
    OBVIOUS
  <1>1. CASE Kept
    BY <1>1 DEF Kept, Abstract!vars, DrawnUnder
  <1>2. ASSUME NEW c \in Calls, Migrate(c),
               Put(c, KeyOf[c], hand[c], "copy")
        PROVE  Abstract!Next
    <2>1. hand[c] \in Values /\ KeyOf[c] \in Keys
      BY <1>2, MigrateCases, ChainFacts
    <2>2. DrawnUnder' = [DrawnUnder EXCEPT ![KeyOf[c]] = NoAuthor]
      BY <1>2, DrawnUnderPut
    <2>3. Abstract!Copy(KeyOf[c], hand[c])
      BY <1>2, <2>2 DEF Put, Abstract!Copy
    <2>. QED
      BY <2>1, <2>3 DEF Abstract!Next
  <1>3. ASSUME NEW c \in Calls, Store(c), Put(c, KeyOf[c], c, "draw")
        PROVE  Abstract!Next
    <2>1. c \in Values /\ KeyOf[c] \in Keys /\ ScopeOf[c] \in Scopes
      BY ChainFacts, ValueFacts
    <2>2. DrawnUnder' = [DrawnUnder EXCEPT ![KeyOf[c]] = ScopeOf[c]]
      BY <1>3, DrawnUnderPut
    \* The latched re-read: no draw of this latch is there to be replaced.
    <2>3. DrawnUnder[KeyOf[c]] # ScopeOf[c]
      <3>1. author[KeyOf[c]] # [scope |-> ScopeOf[c], how |-> "draw"]
        BY <1>3, StoreCases DEF Draws, FirstDraw, PastReread
      <3>2. author[KeyOf[c]] # NoAuthor =>
                author[KeyOf[c]] \in [scope : Scopes, how : {"draw", "copy"}]
        BY <2>1 DEF Control, TypeOK
      <3>3. NoAuthor # ScopeOf[c]
        BY <2>1, AuthorsAssumption
      <3>. QED
        BY <2>1, <3>1, <3>2, <3>3 DEF DrawnUnder
    <2>4. Abstract!Draw(ScopeOf[c], KeyOf[c], c)
      BY <1>3, <2>2, <2>3 DEF Put, Abstract!Draw
    <2>. QED
      BY <2>1, <2>4 DEF Abstract!Next
  <1>4. ASSUME NEW k \in Keys, Evict(k)
        PROVE  Abstract!Next
    <2>1. DrawnUnder' = [DrawnUnder EXCEPT ![k] = NoAuthor]
      BY <1>4 DEF Evict, DrawnUnder, Control, TypeOK
    <2>2. Abstract!Lose(k)
      BY <1>4, <2>1 DEF Evict, Abstract!Lose, Abstract!Copy
    <2>. QED
      BY <2>2 DEF Abstract!Next
  <1>. QED
    BY <1>1, <1>2, <1>3, <1>4, WriteCases

\* The wrapper implements FirstWriteWins: the draws made under one latch never
\* supersede each other, whatever is copied, lost or written by peers.
THEOREM Refinement == Spec => ImplementsFirstWriteWins
  <1>1. Init => Abstract!Init
    <2>. SUFFICES ASSUME Init PROVE Abstract!Init
      OBVIOUS
    <2>1. store \in [Keys -> Values \cup {Missing}]
      BY InitControl DEF Control, TypeOK
    <2>2. DrawnUnder = [k \in Keys |-> NoAuthor]
      BY DEF Init, DrawnUnder
    <2>. QED
      BY <2>1, <2>2 DEF Abstract!Init
  <1>. QED
    BY <1>1, RefinesStep, DrawsAlways, PTL
    DEF Spec, ImplementsFirstWriteWins, Abstract!Spec

-----------------------------------------------------------------------------
\* Reach: what a lookup can find.
LEMMA LeastElement ==
    ASSUME NEW T \in SUBSET Nat, T # {}
    PROVE  \E j \in T : \A m \in T : j <= m
  <1>1. IsWellFoundedOn(OpToRel(<, Nat), Nat)
    BY NatLessThanWellFounded
  <1>2. PICK j \in T : \A m \in T : ~(<<m, j>> \in OpToRel(<, Nat))
    BY <1>1, WFMin
  <1>3. \A m \in T : ~(m < j)
    BY <1>2 DEF OpToRel
  <1>. QED
    BY <1>3

\* A readable write never takes a value out of reach, nor does a step that
\* writes no key of the chain.
LEMMA ReachKept ==
    ASSUME Control, [Next]_vars, NEW c \in Calls, NEW n \in Nat, n >= 1,
           Clean(c)', ReachFrom(c, n)
    PROVE  ReachFrom(c, n)'
  <1>1. PICK i \in n .. Len(Chain(c)) :
            FirstAt(c, n, i) /\ Readable(store[Chain(c)[i]])
    BY DEF ReachFrom
  <1>2. Len(Chain(c)) \in Nat
    BY ChainFacts
  <1>3. \A j \in 1 .. Len(Chain(c)) : Chain(c)[j] \in Keys
    BY ChainFacts
  <1>4. \A j \in 1 .. Len(Chain(c)) : Chain(c)[j] \notin lost'
    BY ChainFacts DEF Clean
  \* An entry of the chain keeps its value or gets a readable one.
  <1>5. ASSUME NEW j \in 1 .. Len(Chain(c))
        PROVE  \/ store'[Chain(c)[j]] = store[Chain(c)[j]]
               \/ Readable(store'[Chain(c)[j]])
    <2>1. PICK k \in Keys : k = Chain(c)[j]
      BY <1>3
    <2>2. \A d \in Calls : Copied(d, k) \/ Drew(d, k) => Readable(store'[k])
      BY <1>4, <2>1, ValueFacts DEF Copied, Drew
    <2>. QED
      BY <1>4, <2>1, <2>2, KeyCases DEF SameEntry, Evicted
  <1> DEFINE Changed(j) == store'[Chain(c)[j]] # store[Chain(c)[j]]
             T == {j \in n .. i : Changed(j)}
  <1>6. CASE T # {}
    <2>1. T \in SUBSET Nat
      BY <1>2
    <2>2. PICK j \in T : \A m \in T : j <= m
      <3> HIDE DEF T
      <3>. QED
        BY <1>6, <2>1, LeastElement
    <2>3. j \in n .. i /\ Changed(j) /\ \A m \in n .. i : Changed(m) => j <= m
      BY <2>2
    <2>4. j \in n .. i /\ Changed(j) /\ \A m \in n .. j - 1 : ~Changed(m)
      <3> HIDE DEF Changed
      <3>. QED
        BY <1>2, <2>3
    <2>5. j \in n .. Len(Chain(c)) /\ j \in 1 .. Len(Chain(c))
      BY <2>4, <1>1, <1>2
    <2>6. Readable(store'[Chain(c)[j]])
      BY <1>5, <2>4, <2>5
    <2>7. \A m \in n .. j - 1 : store'[Chain(c)[m]] = Missing
      BY <1>1, <1>2, <2>4 DEF FirstAt
    <2>. QED
      BY <2>5, <2>6, <2>7 DEF ReachFrom, FirstAt
  <1>7. CASE T = {}
    <2>1. /\ store'[Chain(c)[i]] = store[Chain(c)[i]]
          /\ \A j \in n .. i - 1 : store'[Chain(c)[j]] = Missing
      BY <1>1, <1>2, <1>7 DEF FirstAt
    <2>. QED
      BY <1>1, <2>1 DEF ReachFrom, FirstAt
  <1>. QED
    BY <1>6, <1>7

LEMMA InReachFrom ==
    ASSUME NEW c \in Calls, InReach(c)
    PROVE  ReachFrom(c, 1)
  <1>1. DOMAIN Chain(c) = 1 .. Len(Chain(c))
    BY ChainFacts
  <1>. QED
    BY <1>1 DEF InReach, ReachFrom, FirstAt

LEMMA CleanBefore ==
    ASSUME Control, [Next]_vars, NEW c \in Calls, Clean(c)'
    PROVE  Clean(c)
  <1>1. DOMAIN Chain(c) # {}
    BY ChainFacts
  <1>2. lost \subseteq lost'
    BY KeyCases, ChainFacts
  <1>. QED
    BY <1>2 DEF Clean, Chain

\* A call with a value in sight keeps it there, serves it, or raises or dies.
LEMMA InSightStep ==
    ASSUME Control, [Next]_vars, NEW c \in Calls, Clean(c)', Serving(c),
           InSight(c)
    PROVE  \/ pc'[c] = pc[c] /\ answer'[c] = answer[c] /\ InSight(c)'
           \/ /\ pc'[c] = HitLabel(c)
              /\ answer'[c] = "raised" \/ Readable(answer'[c])
           \/ Died(c)
  <1>1. /\ at[c] \in Nat /\ at[c] >= 1 /\ at[c] <= Len(Chain(c))
        /\ Len(Chain(c)) \in Nat
    BY ChainFacts DEF Control, TypeOK
  <1>2. CASE SameLocals(c)
    BY <1>1, <1>2, ReachKept DEF SameLocals, InSight
  <1>3. CASE Read(c)
    <2> DEFINE raw == store[Chain(c)[at[c]]]
    <2>1. hand[c] = Missing /\ Kept
      BY <1>3, ReadCases
    <2>2. PICK i \in at[c] .. Len(Chain(c)) :
              /\ \A j \in at[c] .. i - 1 : store[Chain(c)[j]] = Missing
              /\ Readable(store[Chain(c)[i]])
      BY <2>1 DEF InSight, ReachFrom, FirstAt
    <2>3. raw # Missing => Readable(raw)
      BY <1>1, <2>2
    <2>4. raw = Missing => i # at[c]
      BY <2>2, ValueFacts
    <2>5. CASE raw = Missing /\ at' = [at EXCEPT ![c] = at[c] + 1]
               /\ UNCHANGED <<pc, hand, answer>>
      <3>1. PICK n \in Nat : n = at[c] + 1
        BY <1>1
      <3>2. at'[c] = n
        BY <2>5, <3>1 DEF Control, TypeOK
      <3>3. /\ i \in n .. Len(Chain(c))
            /\ \A j \in n .. i - 1 : store[Chain(c)[j]] = Missing
        BY <1>1, <2>2, <2>4, <2>5, <3>1
      <3>4. ReachFrom(c, n)
        BY <2>2, <3>3 DEF ReachFrom, FirstAt
      <3>5. ReachFrom(c, n)'
        BY <2>1, <3>4 DEF Kept, ReachFrom, FirstAt
      <3>. QED
        BY <2>1, <2>5, <3>2, <3>5 DEF InSight
    <2>6. CASE raw # Missing /\ hand' = [hand EXCEPT ![c] = raw]
               /\ UNCHANGED <<pc, at, answer>>
      <3>1. hand'[c] = raw
        BY <2>6 DEF Control, TypeOK
      <3>. QED
        BY <2>3, <2>6, <3>1 DEF InSight
    <2>7. CASE Moves(c, HitLabel(c), "raised")
               \/ (Moves(c, HitLabel(c), raw) /\ Readable(raw))
      BY <2>7, MovesFacts
    <2>8. ~(raw = Missing /\ at[c] = Len(Chain(c)))
      BY <1>1, <2>2, <2>4
    <2>. QED
      BY <1>3, <2>3, <2>5, <2>6, <2>7, <2>8, ReadCases
  <1>4. CASE Migrate(c)
    <2>1. Readable(hand[c])
      BY <1>4, MigrateCases DEF InSight
    <2>2. Moves(c, HitLabel(c), hand[c])
      BY <1>4, <2>1, MigrateCases
    <2>. QED
      BY <2>1, <2>2, MovesFacts
  <1>5. ~(\/ Begin(c) \/ EnterLatch(c) \/ GiveUp(c) \/ Draw(c) \/ Store(c)
          \/ LeaveLatch(c))
    BY OtherCases, StoreCases DEF Serving
  <1>. QED
    BY <1>2, <1>3, <1>4, <1>5, CallCases DEF Acts

LEMMA NewlyWarm ==
    ASSUME Control, [Next]_vars, NEW c \in Calls
    PROVE  /\ c \in warm' /\ c \notin warm => Begin(c) /\ InReach(c)
           /\ c \in landed' /\ c \notin landed => Draw(c) /\ InReach(c)
  <1>1. ASSUME NEW d \in Calls, Acts(d)
        PROVE  /\ warm' = warm
                  \/ (Begin(d) /\ InReach(d) /\ warm' = warm \cup {d})
               /\ landed' = landed
                  \/ (Draw(d) /\ InReach(d) /\ landed' = landed \cup {d})
    BY <1>1, OtherCases, ReadCases, MigrateCases, StoreCases DEF Acts
  <1>2. (\E k \in Keys : Evict(k)) \/ (\E p \in Mortal : Crash(p))
            \/ UNCHANGED vars => UNCHANGED <<warm, landed>>
    BY CrashCases DEF Evict, vars, history
  <1>. QED
    BY <1>1, <1>2, NextCases DEF Acts

LEMMA InitReach == Init => Reach
  BY DEF Init, Reach, Warm, Landed

LEMMA FreshSight ==
    ASSUME Control, NEW c \in Calls, InReach(c), Kept,
           at'[c] = 1, hand'[c] = Missing
    PROVE  InSight(c)'
  <1>1. ReachFrom(c, 1)
    BY InReachFrom
  <1>2. ReachFrom(c, 1)'
    BY <1>1 DEF Kept, ReachFrom, FirstAt
  <1>. QED
    BY <1>2 DEF InSight

LEMMA WarmStep ==
    ASSUME Control, Warm, [Next]_vars
    PROVE  Warm'
  <1>. SUFFICES ASSUME NEW c \in warm', Clean(c)'
                PROVE  /\ pc'[c] \in {"probe", "end"}
                       /\ answer'[c] # "CacheMiss"
                       /\ pc'[c] = "probe" => InSight(c)'
    BY DEF Warm
  <1>1. c \in Calls
    BY ControlStep DEF Control, TypeOK
  <1>2. CASE c \in warm
    <2>1. /\ pc[c] \in {"probe", "end"} /\ answer[c] # "CacheMiss"
          /\ pc[c] = "probe" => InSight(c)
      BY <1>1, <1>2, CleanBefore DEF Warm
    <2>2. CASE pc[c] = "probe"
      <3>1. Serving(c) /\ HitLabel(c) = "end"
        BY <2>2 DEF Serving, HitLabel
      <3>2. \/ pc'[c] = pc[c] /\ answer'[c] = answer[c] /\ InSight(c)'
            \/ /\ pc'[c] = "end"
               /\ answer'[c] = "raised" \/ Readable(answer'[c])
            \/ Died(c)
        BY <1>1, <2>1, <2>2, <3>1, InSightStep
      <3>. QED
        BY <2>1, <2>2, <3>2, ValueFacts DEF Died, Failures
    <2>3. CASE pc[c] = "end"
      <3>1. ~Acts(c)
        BY <1>1, <2>3, OtherCases, StoreCases
        DEF Acts, Read, Migrate, Serving
      <3>. QED
        BY <1>1, <2>1, <2>3, <3>1, CallCases DEF SameLocals, Died
    <2>. QED
      BY <2>1, <2>2, <2>3
  <1>3. CASE c \notin warm
    <2>1. Begin(c) /\ InReach(c)
      BY <1>1, <1>3, NewlyWarm
    <2>2. /\ Kept /\ pc'[c] = "probe" /\ at'[c] = 1 /\ hand'[c] = Missing
          /\ answer'[c] = Missing
      BY <1>1, <2>1, OtherCases, MovesFacts
    <2>. QED
      BY <1>1, <2>1, <2>2, FreshSight, ValueFacts DEF Failures
  <1>. QED
    BY <1>2, <1>3

LEMMA LandedStep ==
    ASSUME Control, DrawnOnce, Landed, [Next]_vars
    PROVE  Landed'
  <1>. SUFFICES ASSUME NEW c \in landed', Clean(c)'
                PROVE  /\ pc'[c] \in {"settle", "leave", "end"}
                       /\ answer'[c] # c
                       /\ pc'[c] = "settle" => InSight(c)'
    BY DEF Landed
  <1>1. c \in Calls
    BY ControlStep DEF Control, TypeOK
  <1>2. CASE c \in landed
    <2>1. /\ pc[c] \in {"settle", "leave", "end"} /\ answer[c] # c
          /\ pc[c] = "settle" => InSight(c)
      BY <1>1, <1>2, CleanBefore DEF Landed
    <2>2. answer'[c] # c
      BY <1>1, <2>1, NewAnswer
    <2>3. CASE pc[c] = "settle"
      <3>1. Serving(c) /\ HitLabel(c) = "leave"
        BY <2>3 DEF Serving, HitLabel
      <3>. QED
        BY <1>1, <2>1, <2>2, <2>3, <3>1, InSightStep DEF Died
    <2>4. CASE pc[c] \in {"leave", "end"}
      <3>1. Over(c)'
        BY <1>1, <2>4, HandAnswer DEF Over
      <3>. QED
        BY <2>2, <3>1 DEF Over
    <2>. QED
      BY <2>1, <2>3, <2>4
  <1>3. CASE c \notin landed
    <2>1. Draw(c) /\ InReach(c)
      BY <1>1, <1>3, NewlyWarm
    <2>2. /\ Kept /\ at'[c] = 1 /\ hand'[c] = Missing
          /\ pc'[c] \in {"settle", "leave"} /\ pc[c] = "draw"
          /\ answer'[c] \in {Missing, "raised"}
      BY <1>1, <2>1, OtherCases, MovesFacts
    <2>. QED
      BY <1>1, <2>1, <2>2, FreshSight, ValueFacts DEF Failures
  <1>. QED
    BY <1>2, <1>3

LEMMA ReachAlways == Spec => []Reach
  <1>1. Control /\ Draws /\ Reach /\ [Next]_vars => Reach'
    BY WarmStep, LandedStep DEF Reach, Draws
  <1>. QED
    BY <1>1, InitReach, DrawsAlways, PTL DEF Spec

\* A call that begins with a value in reach neither draws nor raises CacheMiss
\* unless a key of its chain loses its value meanwhile.
THEOREM WarmServed == Spec => []WarmCallsAreServed
  <1>1. Reach => WarmCallsAreServed
    BY DEF Reach, Warm, WarmCallsAreServed, Clean
  <1>. QED
    BY <1>1, ReachAlways, PTL

\* A value that was in reach when the function returned is never replaced by
\* its draw.
THEOREM LandedStand == Spec => []LandedValuesStand
  <1>1. Reach => LandedValuesStand
    BY DEF Reach, Landed, LandedValuesStand, Clean
  <1>. QED
    BY <1>1, ReachAlways, PTL

-----------------------------------------------------------------------------
\* Settled: until a key is unsettled its fallbacks stay as they were found.
LEMMA InitSettled == Init => Settled
  <1>. SUFFICES ASSUME Init, NEW c \in Calls
                PROVE  /\ ReadSoFar(c) /\ HeldBack(c) /\ CopyOfFirst(c)
                       /\ Settles(c) => NoCopies(c)
                       /\ AboutToDraw(c) => NotOurs(c)
                       /\ answer[c] = c => Stands(c)
    BY DEF Settled
  <1>1. /\ KeyOf[c] \in Keys /\ answer[c] # c
        /\ \A how : [scope |-> ScopeOf[c], how |-> how] # NoAuthor \/
                    how \notin {"draw", "copy"}
    BY ChainFacts, AuthorsAssumption, ValueFacts DEF Init
  <1>. QED
    BY <1>1
    DEF Init, ReadSoFar, HeldBack, CopyOfFirst, Settles, AboutToDraw, NotOurs

LEMMA Quiet ==
    ASSUME Control, [Next]_vars, NEW c \in Calls, ~Unsettled(KeyOf[c])'
    PROVE  /\ ~Unsettled(KeyOf[c]) /\ KeyOf[c] \notin lost'
           /\ \A i \in 2 .. Len(Chain(c)) :
                  store'[Chain(c)[i]] = store[Chain(c)[i]]
           /\ \A i : FirstAt(c, 2, i)' <=> FirstAt(c, 2, i)
           /\ ReachFrom(c, 2)' <=> ReachFrom(c, 2)
  <1>1. KeyOf[c] \notin lost'
    BY DEF Unsettled
  <1>2. ASSUME NEW d \in Calls, KeyOf[d] = KeyOf[c],
               NEW i \in 2 .. Len(Chain(d))
        PROVE  /\ store'[Chain(d)[i]] = store[Chain(d)[i]]
               /\ Chain(d)[i] \notin lost /\ author[Chain(d)[i]] = NoAuthor
    <2>1. PICK k \in Keys : k = Chain(d)[i]
      BY ChainFacts
    <2>2. k \notin lost' /\ author'[k] = NoAuthor
      BY <1>2, <2>1 DEF Unsettled
    <2>3. \A e \in Calls : ~Copied(e, k) /\ ~Drew(e, k)
      BY <2>2, AuthorsAssumption, ChainFacts DEF Copied, Drew
    <2>. QED
      BY <2>1, <2>2, <2>3, KeyCases DEF SameEntry, Evicted
  <1>3. KeyOf[c] \notin lost
    BY <1>1, KeyCases, ChainFacts
  <1>4. ~Unsettled(KeyOf[c])
    BY <1>2, <1>3 DEF Unsettled
  <1>5. \A i \in 2 .. Len(Chain(c)) :
            store'[Chain(c)[i]] = store[Chain(c)[i]]
    BY <1>2
  <1>6. Len(Chain(c)) \in Nat
    BY ChainFacts
  <1>7. \A i : FirstAt(c, 2, i)' <=> FirstAt(c, 2, i)
    BY <1>5, <1>6 DEF FirstAt
  <1>8. ReachFrom(c, 2)' <=> ReachFrom(c, 2)
    BY <1>5, <1>7 DEF ReachFrom
  <1>. QED
    BY <1>1, <1>4, <1>5, <1>7, <1>8

\* How a step moves a call along its chain.
LEMMA AtCases ==
    ASSUME Control, [Next]_vars, NEW c \in Calls, NEW raw,
           raw = store[Chain(c)[at[c]]]
    PROVE  \/ at'[c] = 1 /\ hand'[c] = Missing
           \/ at'[c] = at[c] /\ hand'[c] = hand[c]
           \/ /\ raw = Missing /\ at[c] < Len(Chain(c))
              /\ at'[c] = at[c] + 1 /\ hand'[c] = Missing
           \/ /\ raw # Missing /\ at[c] > 1
              /\ at'[c] = at[c] /\ hand'[c] = raw
  <1>1. CASE Read(c)
    <2>1. hand[c] = Missing
      BY <1>1 DEF Read
    <2>2. \/ /\ raw = Missing /\ at[c] < Len(Chain(c))
             /\ at' = [at EXCEPT ![c] = at[c] + 1]
             /\ UNCHANGED hand
          \/ \E l, a : Missed(c, l, a)
          \/ Moves(c, HitLabel(c), raw)
          \/ Moves(c, HitLabel(c), "raised")
          \/ /\ raw # Missing /\ at[c] > 1
             /\ hand' = [hand EXCEPT ![c] = raw]
             /\ UNCHANGED at
      BY <1>1, ReadCases
    <2>. QED
      BY <2>1, <2>2, MovesFacts DEF Missed, Control, TypeOK
  <1>2. CASE Acts(c) /\ ~Read(c)
    BY <1>2, MigrateCases, StoreCases, OtherCases, MovesFacts
    DEF Acts, Missed
  <1>. QED
    BY <1>1, <1>2, CallCases DEF SameLocals, Died

\* A fallback hit in hand is the first value of the chain past its own key.
LEMMA HeldIsFirst ==
    ASSUME Control, Settled, NEW c \in Calls, ~Unsettled(KeyOf[c]),
           hand[c] # Missing
    PROVE  /\ at[c] > 1 /\ at[c] \in 2 .. Len(Chain(c))
           /\ FirstAt(c, 2, at[c]) /\ store[Chain(c)[at[c]]] = hand[c]
           /\ Readable(hand[c]) <=> ReachFrom(c, 2)
  <1>1. at[c] > 1 /\ at[c] \in 2 .. Len(Chain(c)) /\ Len(Chain(c)) \in Nat
    BY ChainFacts DEF Control, TypeOK, Shape
  <1>2. FirstAt(c, 2, at[c]) /\ store[Chain(c)[at[c]]] = hand[c]
    BY <1>1 DEF Settled, ReadSoFar, FirstAt
  <1>3. ASSUME NEW i \in 2 .. Len(Chain(c)), FirstAt(c, 2, i),
               Readable(store[Chain(c)[i]])
        PROVE  i = at[c]
    <2>1. ~(i < at[c])
      BY <1>1, <1>2, <1>3, ValueFacts DEF FirstAt
    <2>2. ~(at[c] < i)
      BY <1>1, <1>2, <1>3 DEF FirstAt
    <2>. QED
      BY <1>1, <2>1, <2>2
  <1>. QED
    BY <1>1, <1>2, <1>3 DEF ReachFrom

LEMMA CopiedReach ==
    ASSUME Control, Settled, [Next]_vars, NEW c \in Calls, NEW k \in Keys,
           Copied(c, k), ~Unsettled(k)'
    PROVE  ReachFrom(c, 2) /\ at[c] > 1
  <1>1. KeyOf[c] = k /\ hand[c] # Missing
    BY MigrateCases DEF Copied
  <1>2. ~Unsettled(KeyOf[c]) /\ Readable(hand[c])
    BY <1>1, Quiet DEF Copied
  <1>. QED
    BY <1>1, <1>2, HeldIsFirst

LEMMA NoCopyUnder ==
    ASSUME Control, Settled, [Next]_vars, NEW c \in Calls, NEW d \in Calls,
           NEW k \in Keys, Copied(d, k), ~Unsettled(k)', SameLatch(c, d),
           NoCopies(c)
    PROVE  FALSE
  <1>1. ReachFrom(d, 2) /\ at[d] > 1
    BY CopiedReach
  <1>2. ReachFrom(c, 2)
    BY <1>1, SameLatchFacts DEF ReachFrom, FirstAt
  <1>. QED
    BY <1>1, <1>2 DEF NoCopies

\* A call that goes on to store has found what makes copies impossible.
LEMMA NewStore ==
    ASSUME Control, Settled, [Next]_vars, NEW c \in Calls,
           ~Unsettled(KeyOf[c])', pc'[c] = "store", pc[c] # "store"
    PROVE  NoCopies(c)
  <1>1. ~Unsettled(KeyOf[c]) /\ KeyOf[c] \notin lost'
    BY Quiet
  <1>2. /\ at[c] \in Nat /\ at[c] >= 1 /\ at[c] <= Len(Chain(c))
        /\ Chain(c)[1] = KeyOf[c] /\ Len(Chain(c)) \in Nat
    BY ChainFacts DEF Control, TypeOK
  <1>3. CASE Read(c)
    <2> DEFINE raw == store[Chain(c)[at[c]]]
    <2>1. \A a : ~Moves(c, HitLabel(c), a)
      BY MovesFacts DEF HitLabel
    <2>2. CASE raw = Missing /\ at[c] = Len(Chain(c))
      <3>1. \A j \in 2 .. Len(Chain(c)) : store[Chain(c)[j]] = Missing
        BY <1>1, <1>2, <2>2 DEF Settled, ReadSoFar
      <3>. QED
        BY <3>1, ValueFacts DEF NoCopies, ReachFrom
    <2>3. CASE raw # Missing /\ at[c] = 1 /\ ~Readable(raw)
      <3>1. store[KeyOf[c]] # Missing /\ ~Readable(store[KeyOf[c]])
        BY <1>2, <2>3
      <3>2. \A d \in Calls : SameLatch(c, d) => at[d] = 1
        BY <1>1, <3>1, SameLatchFacts DEF Settled, HeldBack
      <3>. QED
        BY <3>1, <3>2 DEF NoCopies
    <2>. QED
      BY <1>3, <2>1, <2>2, <2>3, ReadCases
  <1>4. CASE Migrate(c)
    <2>1. \A a : ~Moves(c, HitLabel(c), a)
      BY MovesFacts DEF HitLabel
    <2>2. ~Readable(hand[c]) /\ hand[c] # Missing
      BY <1>4, <2>1, MigrateCases
    <2>. QED
      BY <1>1, <2>2, HeldIsFirst DEF NoCopies
  <1>5. ~(\/ Begin(c) \/ EnterLatch(c) \/ GiveUp(c) \/ Draw(c) \/ Store(c)
          \/ LeaveLatch(c))
    BY OtherCases, StoreCases, MovesFacts
  <1>. QED
    BY <1>3, <1>4, <1>5, CallCases DEF Acts, SameLocals, Died

LEMMA ReadSoFarStep ==
    ASSUME Control, Settled, [Next]_vars, NEW c \in Calls,
           ~Unsettled(KeyOf[c])'
    PROVE  ReadSoFar(c)'
  <1>1. /\ at[c] \in Nat /\ at[c] >= 1 /\ at[c] <= Len(Chain(c))
        /\ Len(Chain(c)) \in Nat /\ hand[c] # Missing => at[c] > 1
    BY ChainFacts DEF Control, TypeOK, Shape
  <1>2. ReadSoFar(c) /\ \A i \in 2 .. Len(Chain(c)) :
                            store'[Chain(c)[i]] = store[Chain(c)[i]]
    BY Quiet DEF Settled
  <1>3. CASE at'[c] = 1 /\ hand'[c] = Missing
    BY <1>3 DEF ReadSoFar
  <1>4. CASE at'[c] = at[c] /\ hand'[c] = hand[c]
    BY <1>1, <1>2, <1>4 DEF ReadSoFar
  <1>5. CASE /\ store[Chain(c)[at[c]]] = Missing /\ at[c] < Len(Chain(c))
             /\ at'[c] = at[c] + 1 /\ hand'[c] = Missing
    <2>1. \A j \in 2 .. at[c] : store'[Chain(c)[j]] = Missing
      BY <1>1, <1>2, <1>5 DEF ReadSoFar
    <2>. QED
      BY <1>1, <1>5, <2>1 DEF ReadSoFar
  <1>6. CASE /\ at[c] > 1 /\ at'[c] = at[c]
             /\ hand'[c] = store[Chain(c)[at[c]]]
    BY <1>1, <1>2, <1>6 DEF ReadSoFar
  <1>. QED
    BY <1>3, <1>4, <1>5, <1>6, AtCases

\* A call that reads its own key first stays there while the key holds a value.
LEMMA StaysAtKey ==
    ASSUME Control, [Next]_vars, NEW c \in Calls,
           store[KeyOf[c]] # Missing, at[c] = 1
    PROVE  at'[c] = 1
  <1>1. Chain(c)[1] = KeyOf[c]
    BY ChainFacts
  <1>. QED
    BY <1>1, AtCases

LEMMA HeldBackStep ==
    ASSUME Control, Settled, [Next]_vars, NEW c \in Calls,
           ~Unsettled(KeyOf[c])'
    PROVE  HeldBack(c)'
  <1>. SUFFICES ASSUME store'[KeyOf[c]] # Missing, ~Readable(store'[KeyOf[c]])
                PROVE  at'[c] = 1
    BY DEF HeldBack
  <1>1. PICK k \in Keys : k = KeyOf[c]
    BY ChainFacts
  <1>2. ~Unsettled(k) /\ k \notin lost'
    BY <1>1, Quiet
  <1>3. \A d \in Calls : ~Copied(d, k) /\ ~Drew(d, k)
    BY <1>1, <1>2, ValueFacts DEF Copied, Drew
  <1>4. store'[k] = store[k]
    BY <1>1, <1>3, KeyCases DEF SameEntry, Evicted
  <1>5. at[c] = 1
    BY <1>1, <1>2, <1>4 DEF Settled, HeldBack
  <1>. QED
    BY <1>1, <1>4, <1>5, StaysAtKey

LEMMA CopyOfFirstStep ==
    ASSUME Control, Settled, [Next]_vars, NEW c \in Calls,
           ~Unsettled(KeyOf[c])'
    PROVE  CopyOfFirst(c)'
  <1>1. PICK k \in Keys : k = KeyOf[c]
    BY ChainFacts
  <1>. SUFFICES ASSUME author'[k] = [scope |-> ScopeOf[c], how |-> "copy"]
                PROVE  \E i \in 2 .. Len(Chain(c)) :
                           FirstAt(c, 2, i)' /\ store'[Chain(c)[i]] = store'[k]
    BY <1>1 DEF CopyOfFirst
  <1>2. /\ ~Unsettled(k) /\ k \notin lost'
        /\ \A i \in 2 .. Len(Chain(c)) :
               store'[Chain(c)[i]] = store[Chain(c)[i]]
        /\ \A i : FirstAt(c, 2, i)' <=> FirstAt(c, 2, i)
    BY <1>1, Quiet
  <1>3. CASE SameEntry(k)
    BY <1>1, <1>2, <1>3 DEF SameEntry, Settled, CopyOfFirst
  <1>4. ASSUME NEW d \in Calls, Copied(d, k)
        PROVE  \E i \in 2 .. Len(Chain(c)) :
                   FirstAt(c, 2, i) /\ store[Chain(c)[i]] = store'[k]
    <2>1. SameLatch(c, d) /\ hand[d] # Missing /\ store'[k] = hand[d]
      BY <1>1, <1>4, MigrateCases DEF Copied, SameLatch, LatchKey
    <2>2. Chain(d) = Chain(c) /\ ~Unsettled(KeyOf[d])
      BY <1>1, <1>2, <2>1, SameLatchFacts
    <2>. QED
      BY <2>1, <2>2, HeldIsFirst DEF FirstAt
  <1>5. ~Evicted(k) /\ \A d \in Calls : ~Drew(d, k)
    BY <1>2 DEF Evicted, Drew
  <1>. QED
    BY <1>2, <1>3, <1>4, <1>5, KeyCases

LEMMA NoCopiesStep ==
    ASSUME Control, Draws, Settled, [Next]_vars, NEW c \in Calls,
           ~Unsettled(KeyOf[c])', Settles(c)'
    PROVE  NoCopies(c)'
  <1>1. PICK k \in Keys : k = KeyOf[c]
    BY ChainFacts
  <1>2. /\ ~Unsettled(k) /\ k \notin lost'
        /\ ReachFrom(c, 2)' <=> ReachFrom(c, 2)
    BY <1>1, Quiet
  <1>3. NoCopies(c)
    <2>1. CASE Settles(c)
      BY <1>1, <1>2, <2>1 DEF Settled
    <2>2. CASE ~Settles(c) /\ pc'[c] = "store"
      BY <2>2, NewStore DEF Settles
    <2>3. CASE ~Settles(c) /\ answer'[c] = c
      BY <2>3, NewAnswer DEF Draws, Settles
    <2>4. CASE /\ ~Settles(c)
               /\ author'[k] = [scope |-> ScopeOf[c], how |-> "draw"]
      <3>1. ~SameEntry(k) /\ ~Evicted(k) /\ \A d \in Calls : ~Copied(d, k)
        BY <1>1, <1>2, <2>4 DEF SameEntry, Evicted, Copied, Settles
      <3>2. PICK d \in Calls : Drew(d, k)
        BY <3>1, KeyCases
      <3>3. SameLatch(c, d) /\ Settles(d) /\ KeyOf[d] = k
        BY <1>1, <2>4, <3>2, StoreCases
        DEF Drew, SameLatch, LatchKey, Settles
      <3>4. NoCopies(d)
        BY <1>2, <3>3 DEF Settled
      <3>. QED
        BY <3>3, <3>4, SameLatchFacts
        DEF NoCopies, ReachFrom, FirstAt, SameLatch
    <2>. QED
      BY <1>1, <2>1, <2>2, <2>3, <2>4 DEF Settles
  <1>4. CASE ~ReachFrom(c, 2)
    BY <1>2, <1>4 DEF NoCopies
  <1>5. CASE /\ store[k] # Missing
             /\ \A d \in Calls : SameLatch(c, d) => at[d] = 1
    <2>1. \A d \in Calls : SameLatch(c, d) => at'[d] = 1
      BY <1>1, <1>5, SameLatchFacts, StaysAtKey
    <2>2. \A d \in Calls : Copied(d, k) \/ Drew(d, k) => store'[k] # Missing
      BY MigrateCases, ValueFacts DEF Copied, Drew
    <2>3. store'[k] # Missing
      BY <1>2, <1>5, <2>2, KeyCases DEF SameEntry, Evicted
    <2>. QED
      BY <1>1, <2>1, <2>3 DEF NoCopies, SameLatch, LatchKey
  <1>. QED
    BY <1>1, <1>3, <1>4, <1>5 DEF NoCopies

LEMMA NotOursStep ==
    ASSUME Control, Draws, Settled, [Next]_vars, NEW c \in Calls,
           ~Unsettled(KeyOf[c])', AboutToDraw(c)'
    PROVE  NotOurs(c)'
  <1>1. PICK k \in Keys : k = KeyOf[c]
    BY ChainFacts
  <1>2. /\ ~Unsettled(k) /\ k \notin lost' /\ k \notin lost
        /\ ReachFrom(c, 2)' <=> ReachFrom(c, 2)
    BY <1>1, Quiet DEF Unsettled
  <1>3. PastReread(c)'
    BY DEF AboutToDraw, PastReread
  <1>4. CASE ~PastReread(c)
    <2>1. Kept /\ ~Readable(store[k])
      BY <1>1, <1>3, <1>4, NewPast
    <2>2. author[k] = NoAuthor
      BY <1>2, <2>1 DEF Draws, Authors
    <2>. QED
      BY <1>1, <2>1, <2>2 DEF Kept, NotOurs
  <1>5. CASE PastReread(c)
    <2>1. AboutToDraw(c)
      <3>1. CASE pc[c] = "store"
        BY <3>1 DEF AboutToDraw
      <3>2. CASE pc[c] = "settle" /\ at[c] > 1 /\ pc'[c] = "store"
        <4>1. NoCopies(c)
          BY <3>2, NewStore
        <4>2. at[c] # 1
          BY <3>2
        <4>. QED
          BY <3>2, <4>1, <4>2 DEF NoCopies, AboutToDraw, SameLatch
      <3>3. CASE pc[c] = "settle" /\ at[c] > 1 /\ pc'[c] # "store"
        BY <1>2, <3>3 DEF AboutToDraw
      <3>. QED
        BY <1>5, <3>1, <3>2, <3>3 DEF PastReread
    <2>2. NotOurs(c)
      BY <1>1, <1>2, <2>1 DEF Settled
    <2>3. ASSUME NEW d \in Calls, Drew(d, k)
          PROVE  ScopeOf[d] # ScopeOf[c]
      BY <1>1, <1>3, <1>5, <2>3, DrewAlone DEF Drew, SameLatch, LatchKey
    <2>4. ASSUME NEW d \in Calls, Copied(d, k)
          PROVE  ScopeOf[d] # ScopeOf[c]
      <3>. SUFFICES ASSUME ScopeOf[d] = ScopeOf[c] PROVE FALSE
        OBVIOUS
      <3>1. SameLatch(c, d)
        BY <1>1, <2>4 DEF Copied, SameLatch, LatchKey
      <3>2. ReachFrom(c, 2)
        BY <1>1, <2>4, <3>1, CopiedReach, SameLatchFacts
        DEF ReachFrom, FirstAt
      <3>3. Settles(c)
        BY <2>1, <3>2 DEF AboutToDraw, Settles
      <3>4. NoCopies(c)
        BY <1>1, <1>2, <3>3 DEF Settled
      <3>. QED
        BY <1>1, <2>4, <3>1, <3>4, NoCopyUnder
    <2>5. ASSUME NEW d \in Calls, Drew(d, k) \/ Copied(d, k)
          PROVE  author'[k].scope # ScopeOf[c]
      BY <2>3, <2>4, <2>5 DEF Drew, Copied
    <2>. QED
      BY <1>1, <1>2, <2>2, <2>5, KeyCases DEF SameEntry, Evicted, NotOurs
  <1>. QED
    BY <1>4, <1>5

LEMMA StandsStep ==
    ASSUME Control, Draws, Settled, [Next]_vars, NEW c \in Calls,
           ~Unsettled(KeyOf[c])', answer'[c] = c
    PROVE  Stands(c)'
  <1>1. PICK k \in Keys : k = KeyOf[c]
    BY ChainFacts
  <1>2. ~Unsettled(k) /\ k \notin lost' /\ k \notin lost
    BY <1>1, Quiet DEF Unsettled
  <1>3. CASE answer[c] # c
    <2>1. Drew(c, KeyOf[c])
      BY <1>3, NewAnswer DEF Draws
    <2>. QED
      BY <2>1 DEF Drew, Stands
  <1>4. CASE answer[c] = c
    <2>1. Stands(c) /\ NoCopies(c)
      BY <1>1, <1>2, <1>4 DEF Settled, Settles
    <2>2. ASSUME NEW d \in Calls, Copied(d, k) \/ Drew(d, k)
          PROVE  ScopeOf[d] # ScopeOf[c]
      <3>. SUFFICES ASSUME ScopeOf[d] = ScopeOf[c] PROVE FALSE
        OBVIOUS
      <3>1. SameLatch(c, d) /\ KeyOf[d] = k
        BY <1>1, <2>2 DEF Copied, Drew, SameLatch, LatchKey
      <3>2. ~Copied(d, k)
        BY <1>1, <2>1, <3>1, NoCopyUnder
      <3>3. PastReread(d)
        BY <2>2, <3>2, StoreCases DEF Drew, PastReread
      <3>. QED
        BY <1>2, <1>4, <3>1, <3>3 DEF Draws, FirstDraw
    <2>3. ASSUME NEW d \in Calls, Copied(d, k) \/ Drew(d, k)
          PROVE  author'[k] # NoAuthor /\ author'[k].scope # ScopeOf[c]
      <3>1. \A how \in {"draw", "copy"} :
                [scope |-> ScopeOf[d], how |-> how] # NoAuthor
        BY AuthorsAssumption, ChainFacts
      <3>. QED
        BY <2>2, <2>3, <3>1 DEF Copied, Drew
    <2>. QED
      BY <1>1, <1>2, <2>1, <2>3, KeyCases
      DEF SameEntry, Evicted, Stands, NotOurs
  <1>. QED
    BY <1>3, <1>4

LEMMA SettledAlways == Spec => [](Control /\ Draws /\ Settled)
  <1>1. Control /\ Draws /\ Settled /\ [Next]_vars => Settled'
    <2>. SUFFICES ASSUME Control, Draws, Settled, [Next]_vars,
                         NEW c \in Calls, ~Unsettled(KeyOf[c])'
                  PROVE  /\ ReadSoFar(c)' /\ HeldBack(c)' /\ CopyOfFirst(c)'
                         /\ Settles(c)' => NoCopies(c)'
                         /\ AboutToDraw(c)' => NotOurs(c)'
                         /\ answer'[c] = c => Stands(c)'
      BY DEF Settled
    <2>. QED
      BY ReadSoFarStep, HeldBackStep, CopyOfFirstStep, NoCopiesStep,
         NotOursStep, StandsStep
  <1>. QED
    BY <1>1, InitSettled, DrawsAlways, PTL DEF Spec

\* The value a caller was given as its own draw stays what the cache serves
\* until the key is unsettled or a call under another latch writes it.
THEOREM AnswersStand == Spec => []AnswerStands
  <1>1. Control /\ Draws /\ Settled => AnswerStands
    <2>. SUFFICES ASSUME Control, Draws, Settled, NEW c \in Calls,
                         answer[c] = c, ~Unsettled(KeyOf[c])
                  PROVE  \/ store[KeyOf[c]] = c
                         \/ /\ Readable(store[KeyOf[c]])
                            /\ author[KeyOf[c]] # NoAuthor
                            /\ author[KeyOf[c]].scope # ScopeOf[c]
      BY DEF AnswerStands
    <2>1. Readable(store[KeyOf[c]])
      BY DEF Draws, KeptReadable, Unsettled
    <2>. QED
      BY <2>1 DEF Settled, Stands, NotOurs
  <1>. QED
    BY <1>1, SettledAlways, PTL

\* Until then, first-write-wins is exact under a latch table: neither a draw
\* nor a copy replaces a readable value written under the same table.
THEOREM ExactUntil == Spec => ExactUntilUnsettled
  <1>1. Control /\ Draws /\ Settled /\ [Next]_vars =>
            [\A k \in Keys : Superseded(k) => Unsettled(k)']_vars
    <2>. SUFFICES ASSUME Control, Draws, Settled, [Next]_vars, NEW k \in Keys,
                         Superseded(k), ~Unsettled(k)'
                  PROVE  FALSE
      OBVIOUS
    <2>1. /\ author[k] \in [scope : Scopes, how : {"draw", "copy"}]
          /\ Readable(store[k]) /\ store'[k] # store[k]
          /\ store'[k] # Missing /\ author'[k].scope = author[k].scope
      BY DEF Superseded, Control, TypeOK
    <2>2. PICK d \in Calls : Copied(d, k) \/ Drew(d, k)
      BY <2>1, KeyCases DEF SameEntry, Evicted
    <2>3. KeyOf[d] = k /\ author[k].scope = ScopeOf[d]
      BY <2>1, <2>2 DEF Copied, Drew
    <2>4. ~Unsettled(KeyOf[d]) /\ author[k] # NoAuthor
      BY <2>3, Quiet DEF Superseded
    <2>5. CASE Drew(d, k)
      <3>1. AboutToDraw(d)
        BY <2>5, StoreCases DEF Drew, AboutToDraw
      <3>. QED
        BY <2>3, <2>4, <3>1 DEF Settled, NotOurs
    <2>6. CASE Copied(d, k) /\ author[k].how = "draw"
      <3>1. author[k] = [scope |-> ScopeOf[d], how |-> "draw"]
        BY <2>1, <2>3, <2>6
      <3>2. NoCopies(d) /\ SameLatch(d, d)
        BY <2>3, <2>4, <3>1 DEF Settled, Settles, SameLatch
      <3>. QED
        BY <2>6, <3>2, NoCopyUnder
    <2>7. CASE Copied(d, k) /\ author[k].how = "copy"
      <3>1. author[k] = [scope |-> ScopeOf[d], how |-> "copy"]
        BY <2>1, <2>3, <2>7
      <3>2. PICK i \in 2 .. Len(Chain(d)) :
                FirstAt(d, 2, i) /\ store[Chain(d)[i]] = store[k]
        BY <2>3, <2>4, <3>1 DEF Settled, CopyOfFirst
      <3>3. ReachFrom(d, 2) /\ hand[d] # Missing /\ store'[k] = hand[d]
        BY <2>7, CopiedReach, MigrateCases DEF Copied
      <3>4. /\ at[d] \in 2 .. Len(Chain(d)) /\ FirstAt(d, 2, at[d])
            /\ store[Chain(d)[at[d]]] = hand[d]
        BY <2>4, <3>3, HeldIsFirst
      <3>5. Len(Chain(d)) \in Nat /\ store[k] # Missing
        BY <2>1, ChainFacts, ValueFacts
      <3>6. ~(i < at[d]) /\ ~(at[d] < i)
        BY <3>2, <3>3, <3>4, <3>5 DEF FirstAt
      <3>7. i = at[d]
        BY <3>2, <3>4, <3>5, <3>6
      <3>. QED
        BY <2>1, <3>2, <3>3, <3>4, <3>7
    <2>. QED
      BY <2>1, <2>2, <2>5, <2>6, <2>7
  <1>. QED
    BY <1>1, SettledAlways, PTL DEF Spec, ExactUntilUnsettled

=============================================================================
