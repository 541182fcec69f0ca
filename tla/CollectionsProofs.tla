------------------------- MODULE CollectionsProofs -------------------------
(***************************************************************************)
(* What Collections keeps of its index, its answers and its pages.         *)
(*                                                                         *)
(* A tree that the program can be in is Sane: of its types, with numbers   *)
(* in the catalogue that were given in order.  Each operation is shown to  *)
(* be a few changes of a sane tree: Without a document, With one, a rollup *)
(* or an index less or more.  A property of trees then needs one lemma for *)
(* each of these changes; Closed(G) collects them for a set G of trees,    *)
(* and KeptNext and BothInNext take them through transactions, failures    *)
(* and restarts once and for all.                                          *)
(***************************************************************************)
EXTENDS Collections, TLAPS, FiniteSetTheorems, NaturalsInduction, WellFoundedInduction

-----------------------------------------------------------------------------
(* Walks over the keys in their order are recursive functions of a number. *)

\* A set of natural numbers that is not empty has a least one.
LEMMA LeastNatural ==
    ASSUME NEW T, T \subseteq Nat, T # {}
    PROVE  \E k \in T : \A j \in T : k <= j
<1>1. PICK k \in T : \A j \in T : ~(<<j, k>> \in OpToRel(<, Nat))
  BY NatLessThanWellFounded, WFMin
<1>2. ASSUME NEW j \in T PROVE k <= j
  <2>1. k \in Nat /\ j \in Nat
    OBVIOUS
  <2>2. ~(j < k)
    BY <1>1, <2>1 DEF OpToRel
  <2> QED
    BY <2>1, <2>2
<1> QED
  BY <1>2

\* What holds at zero and passes on by one key holds at every key.
LEMMA KeyByKey ==
    ASSUME NEW n \in Nat, NEW S, 0 \in S, \A k \in 1 .. n : k - 1 \in S => k \in S
    PROVE  \A k \in 0 .. n : k \in S
<1> DEFINE T == {k \in 0 .. n : k \notin S}
<1>1. ASSUME T # {} PROVE FALSE
  <2>0. T \subseteq Nat
    OBVIOUS
  <2>1. PICK k \in T : \A j \in T : k <= j
    BY <1>1, <2>0, LeastNatural
  <2>2. k \in 1 .. n
    BY <2>1
  <2>3. k - 1 \in 0 .. n /\ ~(k <= k - 1)
    BY <2>2
  <2>4. k - 1 \in S
    BY <2>1, <2>3
  <2> QED
    BY <2>1, <2>2, <2>4
<1> QED
  BY <1>1

\* A rule that makes each value of the one before has a function that keeps
\* to it.
Rule(N, V, D) == D \in [1 .. N -> [V -> V]]

\* A function defined key by key exists for every rule of V: what a
\* recursive function over the keys computes stays in V.
LEMMA Running ==
    ASSUME NEW N \in Nat, NEW V, NEW a \in V, NEW D, Rule(N, V, D)
    PROVE  \E f \in [0 .. N -> V] : f[0] = a /\ \A n \in 1 .. N : f[n] = D[n][f[n - 1]]
<1>0. D \in [1 .. N -> [V -> V]]
  BY DEF Rule
<1> DEFINE Good(f, k) == f[0] = a /\ \A n \in 1 .. N : n <= k => f[n] = D[n][f[n - 1]]
           S == {k \in 0 .. N : \E f \in [0 .. N -> V] : Good(f, k)}
<1>1. 0 \in S
  <2> DEFINE f == [n \in 0 .. N |-> a]
  <2>1. f \in [0 .. N -> V] /\ Good(f, 0)
    OBVIOUS
  <2> HIDE DEF f, Good
  <2> QED
    BY <2>1
<1>2. ASSUME NEW k \in 1 .. N, k - 1 \in S PROVE k \in S
  <2>1. PICK f \in [0 .. N -> V] : Good(f, k - 1)
    BY <1>2
  <2> DEFINE g == [f EXCEPT ![k] = D[k][f[k - 1]]]
  <2>2. D[k][f[k - 1]] \in V
    <3>1. D[k] \in [V -> V] /\ f[k - 1] \in V
      BY <1>0
    <3> QED
      BY <3>1
  <2>3. /\ g \in [0 .. N -> V] /\ g[k] = D[k][f[k - 1]]
        /\ \A n \in 0 .. N : n # k => g[n] = f[n]
    BY <2>2
  <2> HIDE DEF g
  <2>4. g[0] = a
    BY <2>1, <2>3
  <2>5. ASSUME NEW n \in 1 .. N, n <= k PROVE g[n] = D[n][g[n - 1]]
    <3>1. g[n - 1] = f[n - 1]
      BY <2>3, <2>5
    <3>2. CASE n = k
      BY <3>1, <3>2, <2>3
    <3>3. CASE n # k
      <4>1. n <= k - 1 /\ n \in 0 .. N
        BY <3>3, <2>5
      <4> QED
        BY <4>1, <3>1, <3>3, <2>1, <2>3
    <3> QED
      BY <3>2, <3>3
  <2>6. Good(g, k)
    BY <2>4, <2>5
  <2> HIDE DEF Good
  <2> QED
    BY <2>3, <2>6
<1>3. N \in S
  <2> HIDE DEF S
  <2>1. \A k \in 1 .. N : k - 1 \in S => k \in S
    BY <1>2
  <2>2. \A k \in 0 .. N : k \in S
    BY <1>1, <2>1, KeyByKey
  <2> QED
    BY <2>2
<1>4. PICK f \in [0 .. N -> V] : Good(f, N)
  BY <1>3
<1>5. f[0] = a /\ \A n \in 1 .. N : f[n] = D[n][f[n - 1]]
  BY <1>4
<1> QED
  BY <1>5

-----------------------------------------------------------------------------
(* Trees. *)

Rows == (1 .. MaxCollection) \X (0 .. MaxId) \X Groups

Nothing == [count |-> 0, sum |-> 0]

Trees ==
    [cid : 0 .. MaxCollection, next : 1 .. MaxCollection + 1,
     index : Ids, unique : BOOLEAN, nextIndex : 0 .. MaxId + 1,
     rollup : Ids, nextRollup : 0 .. MaxId + 1,
     docs : [Keys -> Docs \cup {NoDoc}],
     entries : SUBSET ((1 .. MaxCollection) \X (0 .. MaxId) \X (UNION Elements) \X Keys),
     totals : [Rows -> [count : Nat, sum : Int]]]

\* The catalogue's numbers: what is declared has one below the next to be
\* given, and nothing is kept under a number that was not given yet.
Ordered(t) ==
    /\ t.cid < t.next
    /\ t.index < t.nextIndex
    /\ t.rollup < t.nextRollup
    /\ t.cid = 0 => t.index = Absent /\ t.rollup = Absent /\ t.nextRollup = 0 /\ Stored(t) = {}
    /\ t.index = Absent => ~t.unique
    /\ \A r \in Rows : r[1] >= t.next \/ (r[1] = t.cid /\ r[2] >= t.nextRollup)
                          => t.totals[r] = Nothing

Sane == {t \in Trees : Ordered(t)}

\* What one document more or less makes of the row of its group.
Contributed(row, g, sign) ==
    IF row.count + sign <= 0 THEN Nothing
    ELSE [count |-> row.count + sign, sum |-> Add(row.sum, sign * g)]

RowOf(t, h) == <<t.cid, t.rollup, h>>

TotalsAfter(t, d, sign) ==
    IF t.rollup = Absent THEN t.totals
    ELSE [t.totals EXCEPT ![RowOf(t, d.h)] = Contributed(t.totals[RowOf(t, d.h)], d.g, sign)]

\* Documents are well formed, none of them is the mark of a missing one, and
\* callers send documents.
LEMMA DocTypes ==
    /\ Docs \subseteq [f : SUBSET Nat, h : Nat \ {0}, g : Int]
    /\ NoDoc \notin Docs
    /\ \A d \in Docs : d.f \in Elements /\ d.h \in Groups /\ d.f \subseteq UNION Elements
    /\ \A d \in Inputs : d \in Docs
<1>1. Elements \subseteq SUBSET Nat /\ Groups \subseteq Nat \ {0} /\ {d.g : d \in Inputs} \subseteq Int
  BY InputsAssumption DEF Elements, Groups
<1>2. Docs \subseteq [f : SUBSET Nat, h : Nat \ {0}, g : Int]
  BY <1>1 DEF Docs
<1>3. NoDoc \notin Docs
  BY <1>2 DEF NoDoc
<1>4. \A d \in Docs : d.f \in Elements /\ d.h \in Groups
  BY DEF Docs
<1>5. \A d \in Inputs : d \in Docs
  <2>1. SUFFICES ASSUME NEW d \in Inputs PROVE d \in Docs
    OBVIOUS
  <2>2. d \in [f : SUBSET Nat, h : Nat \ {0}, g : Int]
    BY InputsAssumption
  <2>3. d.f \in Elements /\ d.h \in Groups /\ d.g \in {x.g : x \in Inputs}
    BY DEF Elements, Groups
  <2> QED
    BY <2>2, <2>3 DEF Docs
<1> QED
  BY <1>2, <1>3, <1>4, <1>5

\* A sum of two numbers that lost its precision is still a number (Add).
LEMMA AddTypes == ASSUME NEW a \in Int, NEW b \in Int PROVE Add(a, b) \in Int
<1> DEFINE x == a + b
<1>1. x \in Int /\ x - 1 \in Int /\ x + 1 \in Int
  OBVIOUS
<1>2. Add(a, b) = x \/ Add(a, b) = x - 1 \/ Add(a, b) = x + 1
  BY DEF Add
<1> QED
  BY <1>1, <1>2

\* contribute changes nothing but the totals, and leaves counts and sums there.
LEMMA ContributeIs ==
    ASSUME NEW t \in Sane, NEW d \in Docs, NEW sign \in {-1, 1}
    PROVE  /\ t.rollup # Absent => RowOf(t, d.h) \in Rows
           /\ TotalsAfter(t, d, sign) \in [Rows -> [count : Nat, sum : Int]]
           /\ contribute(t, d, sign) = [t EXCEPT !.totals = TotalsAfter(t, d, sign)]
<1>1. t \in Trees /\ Ordered(t)
  BY DEF Sane
<1>2. ASSUME t.rollup # Absent PROVE RowOf(t, d.h) \in Rows
  <2>1. t.cid \in 1 .. MaxCollection
    BY <1>1, <1>2, BoundsAssumption DEF Trees, Ordered
  <2>2. t.rollup \in 0 .. MaxId
    BY <1>1, <1>2, BoundsAssumption DEF Trees, Ids, Absent
  <2> QED
    BY <2>1, <2>2, DocTypes DEF RowOf, Rows
<1>3. TotalsAfter(t, d, sign) \in [Rows -> [count : Nat, sum : Int]]
  <2>1. t.totals \in [Rows -> [count : Nat, sum : Int]]
    BY <1>1 DEF Trees
  <2>2. CASE t.rollup = Absent
    BY <2>1, <2>2 DEF TotalsAfter
  <2>3. CASE t.rollup # Absent
    <3> DEFINE row == t.totals[RowOf(t, d.h)]
    <3>1. row \in [count : Nat, sum : Int]
      BY <2>1, <2>3, <1>2
    <3>2. d.g \in Int /\ sign * d.g \in Int
      BY DocTypes
    <3>3. Contributed(row, d.g, sign) \in [count : Nat, sum : Int]
      <4> HIDE DEF row
      <4>1. Add(row.sum, sign * d.g) \in Int
        BY <3>1, <3>2, AddTypes
      <4> QED
        BY <4>1, <3>1 DEF Contributed, Nothing
    <3> QED
      BY <2>1, <2>3, <3>3 DEF TotalsAfter
  <2> QED
    BY <2>2, <2>3
<1>4. contribute(t, d, sign) = [t EXCEPT !.totals = TotalsAfter(t, d, sign)]
  <2>1. CASE t.rollup = Absent
    BY <2>1, <1>1 DEF contribute, TotalsAfter, Trees
  <2>2. CASE t.rollup # Absent
    BY <2>2, <1>1, <1>2 DEF contribute, TotalsAfter, RowOf, Contributed, Nothing, Trees
  <2> QED
    BY <2>1, <2>2
<1> QED
  BY <1>2, <1>3, <1>4

-----------------------------------------------------------------------------
(* What the operations on one document make of the tree.                   *)

\* Only documents, entries and totals differ.
SameCatalogue(t, u) ==
    /\ u \in Sane
    /\ u.cid = t.cid /\ u.next = t.next
    /\ u.index = t.index /\ u.unique = t.unique /\ u.nextIndex = t.nextIndex
    /\ u.rollup = t.rollup /\ u.nextRollup = t.nextRollup

Replace(t, docs, entries, totals) ==
    [t EXCEPT !.docs = docs, !.entries = entries, !.totals = totals]

EntrySets == SUBSET ((1 .. MaxCollection) \X (0 .. MaxId) \X (UNION Elements) \X Keys)

Fits(t, docs, entries, totals) ==
    /\ docs \in [Keys -> Docs \cup {NoDoc}]
    /\ entries \in EntrySets
    /\ totals \in [Rows -> [count : Nat, sum : Int]]
    /\ \A r \in Rows : r[1] # t.cid \/ r[2] # t.rollup => totals[r] = t.totals[r]

\* Documents, entries and totals may be replaced by others of their types, as
\* long as a collection that is not there keeps no document and only rows of
\* the rollup that is declared change.
LEMMA Replaced ==
    ASSUME NEW t \in Sane, t.cid # 0,
           NEW docs, NEW entries, NEW totals, Fits(t, docs, entries, totals)
    PROVE  /\ SameCatalogue(t, Replace(t, docs, entries, totals))
           /\ Replace(t, docs, entries, totals).docs = docs
           /\ Replace(t, docs, entries, totals).entries = entries
           /\ Replace(t, docs, entries, totals).totals = totals
<1>1. t \in Trees /\ Ordered(t)
  BY DEF Sane
<1> DEFINE u == Replace(t, docs, entries, totals)
<1>2. /\ u \in Trees
      /\ u.cid = t.cid /\ u.next = t.next
      /\ u.index = t.index /\ u.unique = t.unique /\ u.nextIndex = t.nextIndex
      /\ u.rollup = t.rollup /\ u.nextRollup = t.nextRollup
      /\ u.docs = docs /\ u.entries = entries /\ u.totals = totals
  BY <1>1 DEF Trees, EntrySets, Fits, Replace
<1> HIDE DEF u
<1>3. ASSUME NEW r \in Rows, r[1] >= t.next \/ (r[1] = t.cid /\ r[2] >= t.nextRollup)
      PROVE  totals[r] = Nothing
  <2>1. r[1] \in Int /\ r[2] \in Int
    BY DEF Rows
  <2>2. t.cid \in Int /\ t.next \in Int /\ t.rollup \in Int /\ t.nextRollup \in Int
    BY <1>1 DEF Trees, Ids
  <2>3. r[1] # t.cid \/ r[2] # t.rollup
    BY <1>1, <1>3, <2>1, <2>2 DEF Ordered
  <2> QED
    BY <1>1, <1>3, <2>3 DEF Ordered, Fits
<1>4. Ordered(u)
  BY <1>1, <1>2, <1>3 DEF Ordered, Stored
<1> QED
  BY <1>2, <1>4 DEF SameCatalogue, Sane, u

\* The entries of a document are entries of the collection's index (entriesFor).
LEMMA EntriesTypes ==
    ASSUME NEW t \in Sane, t.cid # 0, NEW k \in Keys, NEW d \in Docs \cup {NoDoc}
    PROVE  entriesFor(t, k, d) \in EntrySets
<1>1. t.cid \in 1 .. MaxCollection /\ t.index \in Ids
  BY BoundsAssumption DEF Sane, Trees
<1>2. CASE t.index = Absent
  BY <1>2 DEF entriesFor, EntrySets
<1>3. CASE t.index # Absent
  <2>1. t.index \in 0 .. MaxId
    BY <1>1, <1>3, BoundsAssumption DEF Ids, Absent
  <2>2. d.f \subseteq UNION Elements
    BY DocTypes DEF NoDoc
  <2> QED
    BY <1>1, <2>1, <2>2 DEF entriesFor, EntrySets
<1> QED
  BY <1>2, <1>3

\* contribute leaves the rows of other collections, rollups and groups as they are.
LEMMA TotalsAfterIs ==
    ASSUME NEW t \in Sane, NEW d \in Docs, NEW sign \in {-1, 1}
    PROVE  /\ \A r \in Rows : r[1] # t.cid \/ r[2] # t.rollup
                 => TotalsAfter(t, d, sign)[r] = t.totals[r]
           /\ t.rollup # Absent => \A h \in Groups :
                 /\ RowOf(t, h) \in Rows
                 /\ TotalsAfter(t, d, sign)[RowOf(t, h)] =
                       IF h = d.h THEN Contributed(t.totals[RowOf(t, h)], d.g, sign)
                       ELSE t.totals[RowOf(t, h)]
<1>1. t.totals \in [Rows -> [count : Nat, sum : Int]]
  BY DEF Sane, Trees
<1>2. t.rollup # Absent => RowOf(t, d.h) \in Rows
  BY ContributeIs
<1>3. ASSUME NEW r \in Rows, r[1] # t.cid \/ r[2] # t.rollup
      PROVE  TotalsAfter(t, d, sign)[r] = t.totals[r]
  <2>1. r # RowOf(t, d.h)
    BY <1>3 DEF RowOf
  <2> QED
    BY <1>1, <1>2, <2>1 DEF TotalsAfter
<1>4. ASSUME t.rollup # Absent, NEW h \in Groups
      PROVE  /\ RowOf(t, h) \in Rows
             /\ TotalsAfter(t, d, sign)[RowOf(t, h)] =
                       IF h = d.h THEN Contributed(t.totals[RowOf(t, h)], d.g, sign)
                       ELSE t.totals[RowOf(t, h)]
  <2>1. RowOf(t, h) \in Rows
    BY <1>2, <1>4, DocTypes DEF RowOf, Rows
  <2>2. h # d.h => RowOf(t, h) # RowOf(t, d.h)
    BY DEF RowOf
  <2> QED
    BY <1>1, <1>2, <1>4, <2>1, <2>2 DEF TotalsAfter
<1> QED
  BY <1>3, <1>4

\* The tree without one of its documents, and with one more.
Without(t, k) ==
    IF t.docs[k] = NoDoc THEN t
    ELSE Replace(t, [t.docs EXCEPT ![k] = NoDoc], t.entries \ entriesFor(t, k, t.docs[k]),
                 TotalsAfter(t, t.docs[k], -1))

With(t, k, d) ==
    Replace(t, [t.docs EXCEPT ![k] = d], t.entries \cup entriesFor(t, k, d), TotalsAfter(t, d, 1))

\* What a tree without the document at k is: its entries and its part of the
\* totals are gone, everything else is as it was (Collection.remove).
LEMMA WithoutIs ==
    ASSUME NEW t \in Sane, t.cid # 0, NEW k \in Keys
    PROVE  /\ SameCatalogue(t, Without(t, k))
           /\ Without(t, k).docs = [t.docs EXCEPT ![k] = NoDoc]
           /\ Without(t, k).entries = t.entries \ entriesFor(t, k, t.docs[k])
           /\ Without(t, k).totals = IF t.docs[k] = NoDoc THEN t.totals ELSE TotalsAfter(t, t.docs[k], -1)
<1>1. /\ t.docs \in [Keys -> Docs \cup {NoDoc}]
      /\ t.entries \in EntrySets
  BY DEF Sane, Trees, EntrySets
<1>2. CASE t.docs[k] = NoDoc
  <2>1. entriesFor(t, k, t.docs[k]) = {}
    BY <1>2 DEF entriesFor, NoDoc
  <2>2. [t.docs EXCEPT ![k] = NoDoc] = t.docs
    BY <1>1, <1>2
  <2> QED
    BY <1>2, <2>1, <2>2 DEF Without, SameCatalogue
<1>3. CASE t.docs[k] # NoDoc
  <2> DEFINE docs == [t.docs EXCEPT ![k] = NoDoc]
             entries == t.entries \ entriesFor(t, k, t.docs[k])
             totals == TotalsAfter(t, t.docs[k], -1)
  <2>1. t.docs[k] \in Docs
    BY <1>1, <1>3
  <2>2. docs \in [Keys -> Docs \cup {NoDoc}]
    BY <1>1
  <2>3. entries \in EntrySets
    BY <1>1 DEF EntrySets
  <2>4. totals \in [Rows -> [count : Nat, sum : Int]]
    BY <2>1, ContributeIs
  <2>5. \A r \in Rows : r[1] # t.cid \/ r[2] # t.rollup => totals[r] = t.totals[r]
    BY <2>1, TotalsAfterIs
  <2>6. Without(t, k) = Replace(t, docs, entries, totals) /\ Fits(t, docs, entries, totals)
    BY <1>3, <2>2, <2>3, <2>4, <2>5, Zenon DEF Without, Fits
  <2> HIDE DEF docs, entries, totals
  <2>7. /\ SameCatalogue(t, Without(t, k))
        /\ Without(t, k).docs = docs /\ Without(t, k).entries = entries /\ Without(t, k).totals = totals
    BY <2>6, Replaced
  <2> QED
    BY <1>3, <2>7 DEF docs, entries, totals
<1> QED
  BY <1>2, <1>3

\* What a tree with a document at a free key is (Collection.write).
LEMMA WithIs ==
    ASSUME NEW t \in Sane, t.cid # 0, NEW k \in Keys, NEW d \in Docs
    PROVE  /\ SameCatalogue(t, With(t, k, d))
           /\ With(t, k, d).docs = [t.docs EXCEPT ![k] = d]
           /\ With(t, k, d).entries = t.entries \cup entriesFor(t, k, d)
           /\ With(t, k, d).totals = TotalsAfter(t, d, 1)
<1>1. /\ t.docs \in [Keys -> Docs \cup {NoDoc}]
      /\ t.entries \in EntrySets
  BY DEF Sane, Trees, EntrySets
<1> DEFINE docs == [t.docs EXCEPT ![k] = d]
           entries == t.entries \cup entriesFor(t, k, d)
           totals == TotalsAfter(t, d, 1)
<1>2. docs \in [Keys -> Docs \cup {NoDoc}]
  BY <1>1
<1>3. entries \in EntrySets
  <2>1. entriesFor(t, k, d) \in EntrySets
    BY EntriesTypes
  <2> QED
    BY <1>1, <2>1, Zenon DEF EntrySets
<1>4. totals \in [Rows -> [count : Nat, sum : Int]]
  BY ContributeIs
<1>5. \A r \in Rows : r[1] # t.cid \/ r[2] # t.rollup => totals[r] = t.totals[r]
  BY TotalsAfterIs
<1>6. With(t, k, d) = Replace(t, docs, entries, totals) /\ Fits(t, docs, entries, totals)
  BY <1>2, <1>3, <1>4, <1>5, Zenon DEF With, Fits
<1> HIDE DEF docs, entries, totals
<1>7. /\ SameCatalogue(t, With(t, k, d))
      /\ With(t, k, d).docs = docs /\ With(t, k, d).entries = entries /\ With(t, k, d).totals = totals
  BY <1>6, Replaced
<1> QED
  BY <1>7 DEF docs, entries, totals

\* contribute reads only the numbers of the collection and of the rollup, and
\* the totals.
LEMMA ContributeAfter ==
    ASSUME NEW t \in Sane, NEW d \in Docs, NEW sign \in {-1, 1}, t.cid # 0,
           NEW entries \in EntrySets
    PROVE  contribute([t EXCEPT !.entries = entries], d, sign) =
               [t EXCEPT !.entries = entries, !.totals = TotalsAfter(t, d, sign)]
<1> DEFINE u == [t EXCEPT !.entries = entries]
<1>1. /\ t.docs \in [Keys -> Docs \cup {NoDoc}]
      /\ t.totals \in [Rows -> [count : Nat, sum : Int]]
  BY DEF Sane, Trees
<1>2. u = Replace(t, t.docs, entries, t.totals) /\ Fits(t, t.docs, entries, t.totals)
  BY <1>1 DEF Sane, Trees, Replace, Fits
<1>3. SameCatalogue(t, u) /\ u.totals = t.totals
  <2> HIDE DEF u
  <2> QED
    BY <1>1, <1>2, Replaced
<1>4. TotalsAfter(u, d, sign) = TotalsAfter(t, d, sign)
  BY <1>3 DEF TotalsAfter, RowOf, SameCatalogue
<1>5. contribute(u, d, sign) = [u EXCEPT !.totals = TotalsAfter(u, d, sign)]
  <2> HIDE DEF u
  <2> QED
    BY <1>3, ContributeIs DEF SameCatalogue
<1> QED
  BY <1>4, <1>5 DEF Sane, Trees

Outcomes == [tree : Sane, ok : BOOLEAN, changed : Nat]

\* What an operation that succeeds, and one that fails before it changes
\* anything, hand back.
LEMMA OutcomeTypes ==
    ASSUME NEW t \in Sane
    PROVE  /\ \A n \in Nat : Ok(t, n) \in Outcomes /\ Ok(t, n).tree = t /\ Ok(t, n).ok /\ Ok(t, n).changed = n
           /\ Failed(t) \in Outcomes /\ Failed(t).tree = t /\ ~Failed(t).ok
<1>1. TRUE \in BOOLEAN /\ FALSE \in BOOLEAN
  OBVIOUS
<1> QED
  BY <1>1 DEF Ok, Failed, Outcomes

\* Collection.remove takes a document out whole, or fails and changes nothing.
LEMMA RemoveIs ==
    ASSUME NEW t \in Sane, NEW k \in Keys, NEW o, o = remove(t, k)
    PROVE  /\ o \in Outcomes
           /\ o.ok => t.cid # 0 /\ o.tree = Without(t, k)
           /\ ~o.ok => o.tree = t
<1>1. t.docs \in [Keys -> Docs \cup {NoDoc}]
  BY DEF Sane, Trees
<1>2. CASE t.cid = 0 \/ t.docs[k] = NoDoc \/ ~Indexable(t, t.docs[k])
  <2>1. \/ o = Failed(t)
        \/ o = Ok(t, 0) /\ t.cid # 0 /\ t.docs[k] = NoDoc
    BY <1>2 DEF remove
  <2> QED
    BY <2>1, OutcomeTypes DEF Without
<1>3. CASE ~(t.cid = 0 \/ t.docs[k] = NoDoc \/ ~Indexable(t, t.docs[k]))
  <2> DEFINE E == t.entries \ entriesFor(t, k, t.docs[k])
             c == contribute([t EXCEPT !.entries = E], t.docs[k], -1)
  <2>1. t.docs[k] \in Docs
    BY <1>1, <1>3
  <2>2. E \in EntrySets
    BY DEF Sane, Trees, EntrySets
  <2>3. c = [t EXCEPT !.entries = E, !.totals = TotalsAfter(t, t.docs[k], -1)]
    <3> HIDE DEF E
    <3> QED
      BY <2>1, <2>2, <1>3, ContributeAfter
  <2>4. o = Ok([c EXCEPT !.docs[k] = NoDoc], 1)
    BY <1>3, Zenon DEF remove
  <2>5. [c EXCEPT !.docs[k] = NoDoc] = Without(t, k)
    <3> HIDE DEF c, E
    <3>1. t \in Trees
      BY DEF Sane
    <3>2. c.docs = t.docs
      BY <2>3, <3>1 DEF Trees
    <3>3. [c EXCEPT !.docs[k] = NoDoc] = [t EXCEPT !.docs = [t.docs EXCEPT ![k] = NoDoc],
                    !.entries = E, !.totals = TotalsAfter(t, t.docs[k], -1)]
      BY <2>3, <3>1, <3>2 DEF Trees
    <3> QED
      BY <3>3, <1>3 DEF Without, Replace, E
  <2>6. Without(t, k) \in Sane
    BY <1>3, WithoutIs DEF SameCatalogue
  <2>7. o = Ok(Without(t, k), 1)
    BY <2>4, <2>5, Zenon
  <2> HIDE DEF c, E
  <2> QED
    BY <2>6, <2>7, <1>3, OutcomeTypes
<1> QED
  BY <1>2, <1>3

\* Collection.write replaces a document whole; when it fails it changed
\* nothing, or has taken the old document out of its entries and its totals.
LEMMA WriteIs ==
    ASSUME NEW t \in Sane, NEW k \in Keys, NEW d \in Docs, NEW o, o = write(t, k, d)
    PROVE  /\ o \in Outcomes
           /\ o.ok => /\ t.cid # 0 /\ Indexable(t, d) /\ ~Clashes(t, k, d)
                      /\ o.changed = 1
                      /\ o.tree = With(Without(t, k), k, d)
           /\ ~o.ok => \/ o.tree = t
                       \/ /\ t.cid # 0
                          /\ o.tree = Replace(t, t.docs, Without(t, k).entries, Without(t, k).totals)
<1>1. t.docs \in [Keys -> Docs \cup {NoDoc}] /\ t \in Trees
  BY DEF Sane, Trees
<1> DEFINE before == t.docs[k]
           E  == t.entries \ entriesFor(t, k, before)
           t1 == IF before # NoDoc
                 THEN contribute([t EXCEPT !.entries = E], before, -1)
                 ELSE t
           t2 == contribute(t1, d, 1)
           t3 == [t2 EXCEPT !.docs[k] = d, !.entries = @ \cup entriesFor(t, k, d)]
<1>2. \/ o = Failed(t)
      \/ t.cid # 0 /\ o = Failed(t1)
      \/ t.cid # 0 /\ Indexable(t, d) /\ ~Clashes(t, k, d) /\ o = Ok(t3, 1)
  BY Zenon DEF write
<1>3. CASE o = Failed(t)
  BY <1>3, OutcomeTypes
<1>4. CASE t.cid # 0
  <2> DEFINE w == Without(t, k)
  <2>1. /\ SameCatalogue(t, w) /\ w.docs = [t.docs EXCEPT ![k] = NoDoc]
        /\ w.entries = E
    BY <1>4, WithoutIs
  <2>2. w \in Sane /\ w \in Trees /\ w.cid # 0
    BY <2>1, <1>4 DEF SameCatalogue, Sane
  <2>3. t1 = Replace(t, t.docs, w.entries, w.totals)
    <3>1. CASE before = NoDoc
      <4>1. w = t
        BY <3>1 DEF Without
      <4> QED
        BY <4>1, <3>1, <1>1 DEF Replace, Trees
    <3>2. CASE before # NoDoc
      <4>1. before \in Docs
        BY <1>1, <3>2
      <4>2. E \in EntrySets
        BY <1>1 DEF Trees, EntrySets
      <4>3. contribute([t EXCEPT !.entries = E], before, -1) =
               [t EXCEPT !.entries = E, !.totals = TotalsAfter(t, before, -1)]
        <5> HIDE DEF E, before
        <5> QED
          BY <4>1, <4>2, <1>4, ContributeAfter
      <4>4. w.totals = TotalsAfter(t, before, -1)
        BY <3>2, <1>4, WithoutIs
      <4>5. t1 = [t EXCEPT !.entries = E, !.totals = TotalsAfter(t, before, -1)]
        BY <3>2, <4>3
      <4> HIDE DEF t1, w, E
      <4> QED
        BY <4>4, <4>5, <2>1, <1>1 DEF Replace, Trees
    <3> QED
      BY <3>1, <3>2
  <2>4. Fits(t, t.docs, w.entries, w.totals)
    <3>1. w.entries \in EntrySets /\ w.totals \in [Rows -> [count : Nat, sum : Int]]
      BY <2>2 DEF Trees, EntrySets
    <3>2. \A r \in Rows : r[1] # t.cid \/ r[2] # t.rollup => w.totals[r] = t.totals[r]
      <4>1. CASE before = NoDoc
        BY <4>1 DEF Without
      <4>2. CASE before # NoDoc
        <5>1. before \in Docs
          BY <1>1, <4>2
        <5>2. w.totals = TotalsAfter(t, before, -1)
          BY <4>2, <1>4, WithoutIs
        <5> QED
          BY <5>1, <5>2, TotalsAfterIs
      <4> QED
        BY <4>1, <4>2
    <3> QED
      BY <3>1, <3>2, <1>1 DEF Fits
  <2> HIDE DEF w, t1
  <2>5. SameCatalogue(t, t1) /\ t1.docs = t.docs /\ t1.entries = w.entries /\ t1.totals = w.totals
    BY <2>3, <2>4, <1>4, Replaced
  <2>6. t1 \in Sane /\ t1 \in Trees
    BY <2>5 DEF SameCatalogue, Sane
  <2>7. CASE o = Failed(t1)
    BY <2>7, <2>6, <2>3, <1>4, OutcomeTypes DEF w
  <2>8. CASE Indexable(t, d) /\ ~Clashes(t, k, d) /\ o = Ok(t3, 1)
    <3>1. t2 = [t1 EXCEPT !.totals = TotalsAfter(t1, d, 1)]
      BY <2>6, ContributeIs
    <3>2. TotalsAfter(t1, d, 1) = TotalsAfter(w, d, 1)
      BY <2>1, <2>5 DEF TotalsAfter, RowOf, SameCatalogue
    <3>3. entriesFor(t, k, d) = entriesFor(w, k, d)
      BY <2>1 DEF entriesFor, SameCatalogue
    <3>4. [t.docs EXCEPT ![k] = d] = [w.docs EXCEPT ![k] = d]
      BY <2>1, <1>1
    <3>5. t3 = Replace(t, [t.docs EXCEPT ![k] = d], w.entries \cup entriesFor(t, k, d), TotalsAfter(t1, d, 1))
      <4>1. t2 = Replace(t, t.docs, w.entries, TotalsAfter(t1, d, 1))
        <5> HIDE DEF t2
        <5> QED
          BY <3>1, <2>3, <1>1 DEF Replace, Trees
      <4> HIDE DEF t2
      <4> QED
        BY <4>1, <1>1 DEF Replace, Trees
    <3>6. w = Replace(t, w.docs, w.entries, w.totals)
      <4>1. CASE before = NoDoc
        <5>1. w = t
          BY <4>1 DEF Without, w
        <5> QED
          BY <5>1, <1>1 DEF Replace, Trees
      <4>2. CASE before # NoDoc
        <5>1. w = Replace(t, [t.docs EXCEPT ![k] = NoDoc], E, TotalsAfter(t, before, -1))
          BY <4>2 DEF Without, w
        <5> HIDE DEF E
        <5> QED
          BY <5>1, <2>1, <1>1 DEF Replace, Trees
      <4> QED
        BY <4>1, <4>2
    <3>7. With(w, k, d) = Replace(t, [w.docs EXCEPT ![k] = d], w.entries \cup entriesFor(w, k, d), TotalsAfter(w, d, 1))
      <4>1. With(w, k, d) = Replace(w, [w.docs EXCEPT ![k] = d], w.entries \cup entriesFor(w, k, d), TotalsAfter(w, d, 1))
        BY DEF With
      <4>2. ASSUME NEW x, NEW y, NEW z PROVE Replace(w, x, y, z) = Replace(t, x, y, z)
        BY <3>6, <2>2, <1>1 DEF Replace, Trees
      <4> QED
        BY <4>1, <4>2
    <3>8. t3 = With(w, k, d)
      BY <3>2, <3>3, <3>4, <3>5, <3>7
    <3>9. With(w, k, d) \in Sane
      BY <2>2, WithIs DEF SameCatalogue
    <3>10. o = Ok(With(w, k, d), 1)
      BY <2>8, <3>8, Zenon
    <3> HIDE DEF t3
    <3> QED
      BY <3>9, <3>10, <2>8, <1>4, OutcomeTypes DEF w
  <2> HIDE DEF t3
  <2> QED
    BY <1>2, <1>3, <2>7, <2>8
<1> HIDE DEF t1, t3
<1> QED
  BY <1>2, <1>3, <1>4

-----------------------------------------------------------------------------
(* deleteRange removes one key after another.                              *)

RemoveStep(was, n, ks) ==
    IF n \in ks /\ was.ok
    THEN [remove(was.tree, n) EXCEPT !.changed = @ + was.changed] ELSE was

\* One step of deleteRange: it removes the key, or passes on what came before.
LEMMA RemoveStepIs ==
    ASSUME NEW was \in Outcomes, NEW n \in Keys, NEW ks
    PROVE  /\ RemoveStep(was, n, ks) \in Outcomes
           /\ n \in ks /\ was.ok =>
                 /\ RemoveStep(was, n, ks).tree = remove(was.tree, n).tree
                 /\ RemoveStep(was, n, ks).ok = remove(was.tree, n).ok
           /\ ~(n \in ks /\ was.ok) => RemoveStep(was, n, ks) = was
<1>1. was.tree \in Sane /\ was.changed \in Nat
  BY DEF Outcomes
<1> DEFINE o == remove(was.tree, n)
<1>2. o \in Outcomes
  BY <1>1, RemoveIs
<1> HIDE DEF o
<1>3. LET p == [o EXCEPT !.changed = @ + was.changed]
      IN  p \in Outcomes /\ p.tree = o.tree /\ p.ok = o.ok
  <2>1. o.changed + was.changed \in Nat /\ o.ok \in BOOLEAN
    BY <1>1, <1>2 DEF Outcomes
  <2> QED
    BY <1>2, <2>1 DEF Outcomes
<1> QED
  BY <1>3 DEF RemoveStep, o

\* RemoveAll goes through the keys in order, one RemoveStep each.
LEMMA RemoveAllRuns ==
    ASSUME NEW t \in Sane, NEW ks
    PROVE  \E f \in [0 .. MaxKey -> Outcomes] :
              /\ f[0] = Ok(t, 0)
              /\ \A n \in 1 .. MaxKey : f[n] = RemoveStep(f[n - 1], n, ks)
              /\ RemoveAll(t, ks) = f[MaxKey]
<1>0. MaxKey \in Nat
  BY BoundsAssumption
<1> DEFINE D == [n \in 1 .. MaxKey |-> [was \in Outcomes |-> RemoveStep(was, n, ks)]]
<1>1. Rule(MaxKey, Outcomes, D)
  BY RemoveStepIs DEF Keys, Rule
<1>2. Ok(t, 0) \in Outcomes
  BY OutcomeTypes
<1>3. PICK h \in [0 .. MaxKey -> Outcomes] :
         h[0] = Ok(t, 0) /\ \A n \in 1 .. MaxKey : h[n] = D[n][h[n - 1]]
  <2> HIDE DEF D
  <2> QED
    BY <1>0, <1>1, <1>2, Running
<1>4. ASSUME NEW n \in 1 .. MaxKey PROVE h[n] = RemoveStep(h[n - 1], n, ks)
  <2>1. h[n - 1] \in Outcomes
    BY <1>0
  <2> QED
    BY <1>3, <2>1
<1> HIDE DEF D
<1> DEFINE Body(x, n) ==
              IF n = 0 THEN Ok(t, 0)
              ELSE LET was == x[n - 1]
                       one == remove(was.tree, n)
                   IN  IF n \in ks /\ was.ok THEN [one EXCEPT !.changed = @ + was.changed]
                       ELSE was
           F == CHOOSE x : x = [n \in 0 .. MaxKey |-> Body(x, n)]
<1>5. \A x : \A n \in 1 .. MaxKey : Body(x, n) = RemoveStep(x[n - 1], n, ks)
  BY DEF RemoveStep
<1>6. h = [n \in 0 .. MaxKey |-> Body(h, n)]
  <2>1. \A n \in 0 .. MaxKey : h[n] = Body(h, n)
    <3>1. h[0] = Body(h, 0)
      BY <1>3
    <3> HIDE DEF Body
    <3> QED
      BY <1>4, <1>5, <3>1, BoundsAssumption
  <2> HIDE DEF Body
  <2> QED
    BY <2>1
<1>7. F = [n \in 0 .. MaxKey |-> Body(F, n)]
  <2> HIDE DEF Body
  <2> QED
    BY <1>6
<1>8. RemoveAll(t, ks) = F[MaxKey]
  BY Zenon DEF RemoveAll
<1>9. F[0] = Ok(t, 0)
  <2> HIDE DEF F
  <2> QED
    BY <1>7, BoundsAssumption
<1> HIDE DEF F
<1>10. \A n \in 1 .. MaxKey : F[n] = RemoveStep(F[n - 1], n, ks)
  <2> HIDE DEF Body
  <2> QED
    BY <1>0, <1>7, <1>5
<1>11. \A n \in 0 .. MaxKey : F[n] = h[n]
  <2> DEFINE S == {n \in 0 .. MaxKey : F[n] = h[n]}
  <2>1. 0 \in S
    BY <1>3, <1>9, BoundsAssumption
  <2>2. \A n \in 1 .. MaxKey : n - 1 \in S => n \in S
    BY <1>4, <1>10
  <2> HIDE DEF S
  <2>3. \A n \in 0 .. MaxKey : n \in S
    BY <2>1, <2>2, BoundsAssumption, KeyByKey
  <2> QED
    BY <2>3 DEF S
<1>12. RemoveAll(t, ks) = h[MaxKey]
  BY <1>8, <1>11, BoundsAssumption
<1> QED
  BY <1>3, <1>4, <1>12

\* What every single removal keeps, removing many keeps.
LEMMA RemoveAllKeeps ==
    ASSUME NEW G, G \subseteq Sane, NEW t \in G, NEW ks,
           \A u \in G : \A k \in Keys : remove(u, k).tree \in G
    PROVE  RemoveAll(t, ks) \in Outcomes /\ RemoveAll(t, ks).tree \in G
<1>1. PICK f \in [0 .. MaxKey -> Outcomes] :
              /\ f[0] = Ok(t, 0)
              /\ \A n \in 1 .. MaxKey : f[n] = RemoveStep(f[n - 1], n, ks)
              /\ RemoveAll(t, ks) = f[MaxKey]
  BY RemoveAllRuns
<1> DEFINE S == {n \in 0 .. MaxKey : f[n].tree \in G}
<1>2. 0 \in S
  BY <1>1, OutcomeTypes, BoundsAssumption
<1>3. ASSUME NEW n \in 1 .. MaxKey, n - 1 \in S PROVE n \in S
  <2>1. f[n - 1] \in Outcomes /\ f[n - 1].tree \in G /\ n \in Keys
    BY <1>3 DEF Keys
  <2>2. f[n] = RemoveStep(f[n - 1], n, ks)
    BY <1>1
  <2>3. RemoveStep(f[n - 1], n, ks).tree \in G
    BY <2>1, RemoveStepIs
  <2> QED
    BY <2>2, <2>3
<1>4. \A n \in 0 .. MaxKey : n \in S
  <2>1. \A n \in 1 .. MaxKey : n - 1 \in S => n \in S
    BY <1>3
  <2> HIDE DEF S
  <2> QED
    BY <1>2, <2>1, BoundsAssumption, KeyByKey
<1>5. f[MaxKey].tree \in G /\ f[MaxKey] \in Outcomes
  BY <1>4, BoundsAssumption
<1> QED
  BY <1>1, <1>5

\* What every remove keeps, deleteRange keeps too.
LEMMA DeleteRangeKeeps ==
    ASSUME NEW G, G \subseteq Sane, NEW t \in G, NEW from, NEW limit,
           \A u \in G : \A k \in Keys : remove(u, k).tree \in G
    PROVE  deleteRange(t, from, limit) \in Outcomes /\ deleteRange(t, from, limit).tree \in G
<1>1. CASE t.cid = 0
  BY <1>1, OutcomeTypes DEF deleteRange
<1>2. CASE t.cid # 0
  BY <1>2, RemoveAllKeeps DEF deleteRange
<1> QED
  BY <1>1, <1>2

-----------------------------------------------------------------------------
(* The entries of an index and the documents.                              *)

\* Entries are those of the documents, a unique index keeps documents apart,
\* and every document is one that an index can describe.
Matched(t) ==
    /\ t.entries = UNION {entriesFor(t, k, t.docs[k]) : k \in Stored(t)}
    /\ t.unique => \A k, m \in Stored(t) : k # m => t.docs[k].f \cap t.docs[m].f = {}
    /\ \A k \in Stored(t) : Odd \notin t.docs[k].f

MatchedTrees == {t \in Sane : Matched(t)}

\* The entries of a tree's documents, spelled out.
LEMMA EntriesOf ==
    ASSUME NEW t \in Sane
    PROVE  \A e : e \in UNION {entriesFor(t, k, t.docs[k]) : k \in Stored(t)} <=>
              t.index # Absent /\ \E k \in Keys : \E v \in t.docs[k].f : e = <<t.cid, t.index, v, k>>
<1>1. SUFFICES ASSUME NEW e
               PROVE  (\E k \in Stored(t) : e \in entriesFor(t, k, t.docs[k])) <=>
                 t.index # Absent /\ \E k \in Keys : \E v \in t.docs[k].f : e = <<t.cid, t.index, v, k>>
  BY Zenon
<1>2. \A k \in Keys : k \notin Stored(t) => t.docs[k].f = {}
  BY DEF Stored, NoDoc
<1>3. \A k \in Stored(t) : k \in Keys
  BY DEF Stored
<1>4. \A k \in Keys : e \in entriesFor(t, k, t.docs[k]) <=>
                         t.index # Absent /\ \E v \in t.docs[k].f : e = <<t.cid, t.index, v, k>>
  BY DEF entriesFor
<1> QED
  BY <1>2, <1>3, <1>4

\* Removing a document leaves the index in step with the documents.
LEMMA WithoutMatched ==
    ASSUME NEW t \in MatchedTrees, t.cid # 0, NEW k \in Keys
    PROVE  Without(t, k) \in MatchedTrees
<1> DEFINE w == Without(t, k)
<1>0. t \in Sane /\ Matched(t) /\ t.docs \in [Keys -> Docs \cup {NoDoc}]
  BY DEF MatchedTrees, Sane, Trees
<1>1. /\ SameCatalogue(t, w) /\ w.docs = [t.docs EXCEPT ![k] = NoDoc]
      /\ w.entries = t.entries \ entriesFor(t, k, t.docs[k])
  BY <1>0, WithoutIs
<1> HIDE DEF w
<1>2. w \in Sane /\ w.cid = t.cid /\ w.index = t.index /\ w.unique = t.unique
  BY <1>1 DEF SameCatalogue
<1>3. w.docs[k] = NoDoc /\ \A m \in Keys : m # k => w.docs[m] = t.docs[m]
  BY <1>0, <1>1
<1>4. Stored(w) = Stored(t) \ {k}
  BY <1>3 DEF Stored
<1>5. w.entries = UNION {entriesFor(w, m, w.docs[m]) : m \in Stored(w)}
  <2>1. \A e : e \in t.entries <=>
              t.index # Absent /\ \E m \in Keys : \E v \in t.docs[m].f : e = <<t.cid, t.index, v, m>>
    BY <1>0, EntriesOf DEF Matched
  <2>2. \A e : e \in UNION {entriesFor(w, m, w.docs[m]) : m \in Stored(w)} <=>
              t.index # Absent /\ \E m \in Keys : \E v \in w.docs[m].f : e = <<t.cid, t.index, v, m>>
    BY <1>2, EntriesOf
  <2>3. \A e : e \in entriesFor(t, k, t.docs[k]) <=>
              t.index # Absent /\ \E v \in t.docs[k].f : e = <<t.cid, t.index, v, k>>
    BY DEF entriesFor
  <2>4. w.docs[k].f = {}
    BY <1>3 DEF NoDoc
  <2>5. ASSUME NEW e PROVE e \in w.entries <=> e \in UNION {entriesFor(w, m, w.docs[m]) : m \in Stored(w)}
    <3>1. e \in w.entries <=> e \in t.entries /\ e \notin entriesFor(t, k, t.docs[k])
      BY <1>1
    <3>2. ASSUME NEW m \in Keys, NEW v, e = <<t.cid, t.index, v, m>> PROVE e[4] = m
      BY <3>2
    <3> QED
      BY <3>1, <3>2, <2>1, <2>2, <2>3, <2>4, <1>3
  <2> QED
    BY <2>5
<1>6. Matched(w)
  <2>1. w.unique => \A a, b \in Stored(w) : a # b => w.docs[a].f \cap w.docs[b].f = {}
    BY <1>0, <1>2, <1>3, <1>4 DEF Matched, Stored
  <2>2. \A a \in Stored(w) : Odd \notin w.docs[a].f
    BY <1>0, <1>3, <1>4 DEF Matched, Stored
  <2> QED
    BY <1>5, <2>1, <2>2 DEF Matched
<1> QED
  BY <1>2, <1>6 DEF MatchedTrees, w

\* Storing a document that does not clash leaves the index in step with the
\* documents, and its values unique.
LEMMA WithMatched ==
    ASSUME NEW t \in MatchedTrees, t.cid # 0, NEW k \in Keys, NEW d \in Docs,
           t.docs[k] = NoDoc, Odd \notin d.f, ~Clashes(t, k, d)
    PROVE  With(t, k, d) \in MatchedTrees
<1> DEFINE w == With(t, k, d)
<1>0. t \in Sane /\ Matched(t) /\ t.docs \in [Keys -> Docs \cup {NoDoc}] /\ Ordered(t)
  BY DEF MatchedTrees, Sane, Trees
<1>1. /\ SameCatalogue(t, w) /\ w.docs = [t.docs EXCEPT ![k] = d]
      /\ w.entries = t.entries \cup entriesFor(t, k, d)
  BY <1>0, WithIs
<1> HIDE DEF w
<1>2. w \in Sane /\ w.cid = t.cid /\ w.index = t.index /\ w.unique = t.unique
  BY <1>1 DEF SameCatalogue
<1>3. w.docs[k] = d /\ \A m \in Keys : m # k => w.docs[m] = t.docs[m]
  BY <1>0, <1>1
<1>4. Stored(w) = Stored(t) \cup {k} /\ k \notin Stored(t)
  BY <1>3, DocTypes DEF Stored
<1>5. \A e : e \in t.entries <=>
              t.index # Absent /\ \E m \in Keys : \E v \in t.docs[m].f : e = <<t.cid, t.index, v, m>>
  BY <1>0, EntriesOf DEF Matched
<1>6. w.entries = UNION {entriesFor(w, m, w.docs[m]) : m \in Stored(w)}
  <2>2. \A e : e \in UNION {entriesFor(w, m, w.docs[m]) : m \in Stored(w)} <=>
              t.index # Absent /\ \E m \in Keys : \E v \in w.docs[m].f : e = <<t.cid, t.index, v, m>>
    BY <1>2, EntriesOf
  <2>3. \A e : e \in entriesFor(t, k, d) <=>
              t.index # Absent /\ \E v \in d.f : e = <<t.cid, t.index, v, k>>
    BY DEF entriesFor
  <2>4. t.docs[k].f = {}
    BY DEF NoDoc
  <2>5. ASSUME NEW e PROVE e \in w.entries <=> e \in UNION {entriesFor(w, m, w.docs[m]) : m \in Stored(w)}
    <3>1. e \in w.entries <=> e \in t.entries \/ e \in entriesFor(t, k, d)
      BY <1>1
    <3> QED
      BY <3>1, <1>5, <2>2, <2>3, <2>4, <1>3
  <2> QED
    BY <2>5
<1>7. ASSUME t.unique, NEW m \in Stored(t) PROVE t.docs[m].f \cap d.f = {}
  <2>1. t.index # Absent
    BY <1>0, <1>7 DEF Ordered
  <2>2. m \in Keys /\ m # k
    BY <1>4 DEF Stored
  <2>3. ASSUME NEW v \in t.docs[m].f, v \in d.f PROVE FALSE
    <3> DEFINE e == <<t.cid, t.index, v, m>>
    <3>1. e \in t.entries
      BY <1>5, <2>1, <2>2, <2>3
    <3>2. e[1] = t.cid /\ e[2] = t.index /\ e[3] \in d.f /\ e[4] # k
      BY <2>2, <2>3
    <3> HIDE DEF e
    <3> QED
      BY <3>1, <3>2, <1>7 DEF Clashes
  <2> QED
    BY <2>3
<1>8. Matched(w)
  <2>1. ASSUME w.unique, NEW a \in Stored(w), NEW b \in Stored(w), a # b
        PROVE  w.docs[a].f \cap w.docs[b].f = {}
    <3>1. CASE a = k
      BY <3>1, <2>1, <1>2, <1>3, <1>4, <1>7 DEF Stored
    <3>2. CASE b = k
      BY <3>2, <2>1, <1>2, <1>3, <1>4, <1>7 DEF Stored
    <3>3. CASE a # k /\ b # k
      BY <3>3, <2>1, <1>0, <1>2, <1>3, <1>4 DEF Stored, Matched
    <3> QED
      BY <3>1, <3>2, <3>3
  <2>2. \A a \in Stored(w) : Odd \notin w.docs[a].f
    BY <1>0, <1>3, <1>4 DEF Matched, Stored
  <2> QED
    BY <1>6, <2>1, <2>2 DEF Matched
<1> QED
  BY <1>2, <1>8 DEF MatchedTrees, w

\* Collection.remove leaves the index in step, also when it fails.
LEMMA RemoveMatched ==
    ASSUME NEW t \in MatchedTrees, NEW k \in Keys
    PROVE  remove(t, k).tree \in MatchedTrees
<1>1. t \in Sane
  BY DEF MatchedTrees
<1> QED
  BY <1>1, RemoveIs, WithoutMatched

\* A write that succeeds leaves the index in step.
LEMMA WriteMatched ==
    ASSUME NEW t \in MatchedTrees, NEW k \in Keys, NEW d \in Docs,
           t.index = Absent => Odd \notin d.f, write(t, k, d).ok
    PROVE  write(t, k, d).tree \in MatchedTrees
<1> DEFINE w == Without(t, k)
<1>1. t \in Sane
  BY DEF MatchedTrees
<1>2. /\ t.cid # 0 /\ Indexable(t, d) /\ ~Clashes(t, k, d)
      /\ write(t, k, d).tree = With(w, k, d)
  BY <1>1, WriteIs
<1>3. /\ SameCatalogue(t, w) /\ w.docs = [t.docs EXCEPT ![k] = NoDoc]
      /\ w.entries = t.entries \ entriesFor(t, k, t.docs[k])
  BY <1>1, <1>2, WithoutIs
<1>4. w \in MatchedTrees
  BY <1>2, WithoutMatched
<1> HIDE DEF w
<1>5. w.cid # 0 /\ w.docs[k] = NoDoc
  BY <1>1, <1>2, <1>3 DEF SameCatalogue, Sane, Trees
<1>6. ~Clashes(w, k, d)
  BY <1>2, <1>3 DEF Clashes, SameCatalogue
<1>7. Odd \notin d.f
  BY <1>2 DEF Indexable
<1>8. With(w, k, d) \in MatchedTrees
  BY <1>4, <1>5, <1>6, <1>7, WithMatched
<1> QED
  BY <1>2, <1>8

-----------------------------------------------------------------------------
(* Declarations.                                                           *)

\* What the entries, and what the totals, are a function of.
SameIndexing(t, u) ==
    /\ u \in Sane
    /\ u.cid = t.cid /\ u.index = t.index /\ u.unique = t.unique
    /\ u.docs = t.docs /\ u.entries = t.entries

SameCounting(t, u) ==
    /\ u \in Sane
    /\ u.cid = t.cid /\ u.rollup = t.rollup
    /\ u.docs = t.docs /\ u.totals = t.totals

\* Whether the index is in step depends on nothing but documents, entries and index.
LEMMA MatchedSame ==
    ASSUME NEW t \in MatchedTrees, NEW u, SameIndexing(t, u)
    PROVE  u \in MatchedTrees
<1>1. Stored(u) = Stored(t) /\ \A k : entriesFor(u, k, u.docs[k]) = entriesFor(t, k, t.docs[k])
  BY DEF SameIndexing, Stored, entriesFor
<1>2. UNION {entriesFor(u, k, u.docs[k]) : k \in Stored(u)} = UNION {entriesFor(t, k, t.docs[k]) : k \in Stored(t)}
  BY <1>1
<1>3. Matched(u)
  BY <1>1, <1>2 DEF MatchedTrees, Matched, SameIndexing
<1> QED
  BY <1>3 DEF MatchedTrees, SameIndexing

\* Counting a document while a rollup is built changes the totals alone.
LEMMA ContributeKeeps ==
    ASSUME NEW t \in Sane, t.cid # 0, NEW d \in Docs, NEW c, c = contribute(t, d, 1)
    PROVE  /\ SameCatalogue(t, c)
           /\ c.docs = t.docs /\ c.entries = t.entries /\ c.totals = TotalsAfter(t, d, 1)
<1> DEFINE totals == TotalsAfter(t, d, 1)
<1>1. /\ totals \in [Rows -> [count : Nat, sum : Int]]
      /\ c = [t EXCEPT !.totals = totals]
  BY ContributeIs
<1>2. \A r \in Rows : r[1] # t.cid \/ r[2] # t.rollup => totals[r] = t.totals[r]
  BY TotalsAfterIs
<1>3. t.docs \in [Keys -> Docs \cup {NoDoc}] /\ t.entries \in EntrySets
  BY DEF Sane, Trees, EntrySets
<1> HIDE DEF totals
<1>4. Fits(t, t.docs, t.entries, totals)
  BY <1>1, <1>2, <1>3 DEF Fits
<1>5. c = Replace(t, t.docs, t.entries, totals)
  BY <1>1 DEF Sane, Trees, Replace
<1> QED
  BY <1>4, <1>5, Replaced DEF totals

Rebuilt(t) ==
    {u \in Sane : SameCatalogue(t, u) /\ u.docs = t.docs /\ u.entries = t.entries}

\* BuildTotals counts the documents key by key (buildRollup).
LEMMA BuildTotalsRuns ==
    ASSUME NEW t \in Sane, t.cid # 0
    PROVE  \E f \in [0 .. MaxKey -> Rebuilt(t)] :
              /\ f[0] = t
              /\ \A n \in 1 .. MaxKey :
                    f[n] = IF n \in Stored(t) THEN contribute(f[n - 1], t.docs[n], 1) ELSE f[n - 1]
              /\ BuildTotals(t) = f[MaxKey]
<1>0. MaxKey \in Nat
  BY BoundsAssumption
<1> DEFINE Step(u, n) == IF n \in Stored(t) THEN contribute(u, t.docs[n], 1) ELSE u
           D == [n \in 1 .. MaxKey |-> [u \in Rebuilt(t) |-> Step(u, n)]]
<1>1. ASSUME NEW n \in 1 .. MaxKey, NEW u \in Rebuilt(t) PROVE Step(u, n) \in Rebuilt(t)
  <2>1. u \in Sane /\ u.cid # 0 /\ SameCatalogue(t, u) /\ u.docs = t.docs /\ u.entries = t.entries
    BY DEF Rebuilt, SameCatalogue
  <2>2. CASE n \in Stored(t)
    <3>1. t.docs[n] \in Docs
      BY <2>2 DEF Stored, Sane, Trees
    <3> DEFINE c == contribute(u, t.docs[n], 1)
    <3>2. SameCatalogue(u, c) /\ c.docs = u.docs /\ c.entries = u.entries
      BY <2>1, <3>1, ContributeKeeps
    <3> HIDE DEF c
    <3>3. c \in Rebuilt(t)
      BY <2>1, <3>2 DEF Rebuilt, SameCatalogue
    <3> QED
      BY <2>2, <3>3 DEF c
  <2> QED
    BY <2>2
<1>2. Rule(MaxKey, Rebuilt(t), D)
  <2> HIDE DEF Step
  <2> QED
    BY <1>1 DEF Rule
<1>3. t \in Rebuilt(t)
  BY DEF Rebuilt, SameCatalogue
<1>4. PICK h \in [0 .. MaxKey -> Rebuilt(t)] :
         h[0] = t /\ \A n \in 1 .. MaxKey : h[n] = D[n][h[n - 1]]
  <2> HIDE DEF D
  <2> QED
    BY <1>0, <1>2, <1>3, Running
<1> HIDE DEF Step
<1>5. ASSUME NEW n \in 1 .. MaxKey PROVE h[n] = Step(h[n - 1], n)
  <2>1. h[n - 1] \in Rebuilt(t)
    BY <1>0
  <2> QED
    BY <1>4, <2>1
<1> HIDE DEF D
<1> DEFINE Body(x, n) ==
              IF n = 0 THEN t
              ELSE IF n \in Stored(t) THEN contribute(x[n - 1], t.docs[n], 1)
              ELSE x[n - 1]
           F == CHOOSE x : x = [n \in 0 .. MaxKey |-> Body(x, n)]
<1>6. \A x : \A n \in 1 .. MaxKey : Body(x, n) = Step(x[n - 1], n)
  BY <1>0 DEF Step
<1>7. h = [n \in 0 .. MaxKey |-> Body(h, n)]
  <2>1. \A n \in 0 .. MaxKey : h[n] = Body(h, n)
    <3>1. h[0] = Body(h, 0)
      BY <1>4
    <3> HIDE DEF Body
    <3> QED
      BY <1>0, <1>5, <1>6, <3>1
  <2> HIDE DEF Body
  <2> QED
    BY <2>1
<1>8. F = [n \in 0 .. MaxKey |-> Body(F, n)]
  <2> HIDE DEF Body
  <2> QED
    BY <1>7
<1>9. BuildTotals(t) = F[MaxKey]
  BY Zenon DEF BuildTotals
<1>10. F[0] = t
  <2> HIDE DEF F
  <2> QED
    BY <1>0, <1>8
<1> HIDE DEF F
<1>11. \A n \in 1 .. MaxKey : F[n] = Step(F[n - 1], n)
  <2> HIDE DEF Body
  <2> QED
    BY <1>0, <1>8, <1>6
<1>12. \A n \in 0 .. MaxKey : F[n] = h[n]
  <2> DEFINE S == {n \in 0 .. MaxKey : F[n] = h[n]}
  <2>1. 0 \in S
    BY <1>0, <1>4, <1>10
  <2>2. \A n \in 1 .. MaxKey : n - 1 \in S => n \in S
    BY <1>5, <1>11
  <2> HIDE DEF S
  <2>3. \A n \in 0 .. MaxKey : n \in S
    BY <2>1, <2>2, <1>0, KeyByKey
  <2> QED
    BY <2>3 DEF S
<1>13. BuildTotals(t) = h[MaxKey]
  BY <1>0, <1>9, <1>12
<1> QED
  BY <1>4, <1>5, <1>13 DEF Step

\* The tree in which the rollup has its number and nothing is counted yet.
RollupNumbered(t) == [t EXCEPT !.rollup = t.nextRollup, !.nextRollup = @ + 1]

\* A rollup gets a number that was never given before.
LEMMA RollupNumberedIs ==
    ASSUME NEW t \in Sane, t.cid # 0, t.nextRollup <= MaxId, NEW u, u = RollupNumbered(t)
    PROVE  /\ u \in Sane /\ u.cid = t.cid /\ u.next = t.next
           /\ u.index = t.index /\ u.unique = t.unique /\ u.nextIndex = t.nextIndex
           /\ u.rollup = t.nextRollup /\ u.rollup # Absent
           /\ u.docs = t.docs /\ u.entries = t.entries /\ u.totals = t.totals
<1>0. t \in Trees /\ Ordered(t)
  BY DEF Sane
<1>1. t.nextRollup \in 0 .. MaxId /\ t.nextRollup + 1 \in 0 .. MaxId + 1 /\ t.nextRollup \in Ids
  BY <1>0, BoundsAssumption DEF Trees, Ids
<1>2. /\ u \in Trees /\ u.cid = t.cid /\ u.next = t.next
      /\ u.index = t.index /\ u.unique = t.unique /\ u.nextIndex = t.nextIndex
      /\ u.rollup = t.nextRollup /\ u.nextRollup = t.nextRollup + 1
      /\ u.docs = t.docs /\ u.entries = t.entries /\ u.totals = t.totals
  BY <1>0, <1>1 DEF Trees, RollupNumbered
<1>3. ASSUME NEW r \in Rows, r[1] >= u.next \/ (r[1] = u.cid /\ r[2] >= u.nextRollup)
      PROVE  u.totals[r] = Nothing
  <2>1. r[2] \in Int
    BY DEF Rows
  <2> QED
    BY <1>0, <1>1, <1>2, <1>3, <2>1 DEF Ordered
<1>4. Ordered(u)
  BY <1>0, <1>1, <1>2, <1>3 DEF Ordered, Stored
<1> QED
  BY <1>1, <1>2, <1>4 DEF Sane, Absent

\* Adding a rollup touches neither documents nor index.
LEMMA WithRollupIs ==
    ASSUME NEW t \in Sane, t.cid # 0, t.nextRollup <= MaxId, NEW o, o = WithRollup(t)
    PROVE  /\ o \in Outcomes
           /\ SameIndexing(t, o.tree) /\ o.tree.nextIndex = t.nextIndex
           /\ o.ok => o.tree = BuildTotals(RollupNumbered(t))
<1> DEFINE u == RollupNumbered(t)
<1>1. /\ u \in Sane /\ u.cid = t.cid /\ u.index = t.index /\ u.unique = t.unique
      /\ u.nextIndex = t.nextIndex
      /\ u.docs = t.docs /\ u.entries = t.entries
  BY RollupNumberedIs
<1>2. o = Ok(BuildTotals(u), 1) \/ o = Failed(t)
  BY DEF WithRollup, RollupNumbered
<1> HIDE DEF u
<1>3. PICK f \in [0 .. MaxKey -> Rebuilt(u)] : BuildTotals(u) = f[MaxKey]
  BY <1>1, BuildTotalsRuns
<1>4. BuildTotals(u) \in Rebuilt(u)
  BY <1>3, BoundsAssumption
<1>5. BuildTotals(u) \in Sane /\ SameIndexing(t, BuildTotals(u)) /\ BuildTotals(u).nextIndex = t.nextIndex
  BY <1>1, <1>4 DEF Rebuilt, SameIndexing, SameCatalogue
<1>6. SameIndexing(t, t)
  BY DEF SameIndexing
<1> QED
  BY <1>2, <1>5, <1>6, OutcomeTypes DEF u

\* Dropping a rollup touches neither documents nor index.
LEMMA WithoutTotalsIs ==
    ASSUME NEW t \in Sane, NEW u, u = WithoutTotals(t)
    PROVE  /\ SameIndexing(t, u) /\ u.rollup = Absent /\ u.nextIndex = t.nextIndex
           /\ \A r \in Rows : u.totals[r] = t.totals[r] \/ u.totals[r] = Nothing
<1>0. t \in Trees /\ Ordered(t)
  BY DEF Sane
<1> DEFINE totals == [r \in DOMAIN t.totals |->
                         IF r[1] = t.cid /\ r[2] = t.rollup
                         THEN [count |-> 0, sum |-> 0] ELSE t.totals[r]]
<1>1. t.totals \in [Rows -> [count : Nat, sum : Int]]
  BY <1>0 DEF Trees
<1>2. /\ totals \in [Rows -> [count : Nat, sum : Int]]
      /\ \A r \in Rows : totals[r] = t.totals[r] \/ totals[r] = Nothing
  BY <1>1 DEF Nothing
<1>3. u = [t EXCEPT !.totals = totals, !.rollup = Absent]
  BY <1>0 DEF WithoutTotals, Trees
<1> HIDE DEF totals
<1>4. Absent \in Ids
  BY BoundsAssumption DEF Ids, Absent
<1>5. /\ u \in Trees /\ u.cid = t.cid /\ u.next = t.next
      /\ u.index = t.index /\ u.unique = t.unique /\ u.nextIndex = t.nextIndex
      /\ u.rollup = Absent /\ u.nextRollup = t.nextRollup
      /\ u.docs = t.docs /\ u.entries = t.entries /\ u.totals = totals
  BY <1>0, <1>2, <1>3, <1>4 DEF Trees
<1>6. u.rollup < u.nextRollup
  BY <1>0, <1>5 DEF Trees, Absent
<1>7. Ordered(u)
  BY <1>0, <1>2, <1>5, <1>6 DEF Ordered, Stored
<1> QED
  BY <1>2, <1>5, <1>7 DEF SameIndexing, Sane

\* Without an index the documents stand alone.
LEMMA WithoutEntriesIs ==
    ASSUME NEW t \in Sane, NEW u, u = WithoutEntries(t)
    PROVE  /\ u \in Sane /\ SameCounting(t, u)
           /\ u.next = t.next /\ u.nextIndex = t.nextIndex /\ u.nextRollup = t.nextRollup
           /\ u.index = Absent /\ ~u.unique
           /\ u.entries = {e \in t.entries : e[1] # t.cid \/ e[2] # t.index}
<1>0. t \in Trees /\ Ordered(t)
  BY DEF Sane
<1> DEFINE entries == {e \in t.entries : e[1] # t.cid \/ e[2] # t.index}
<1>1. entries \in EntrySets
  BY <1>0 DEF Trees, EntrySets
<1>2. u = [t EXCEPT !.entries = entries, !.index = Absent, !.unique = FALSE]
  BY <1>0 DEF WithoutEntries, Trees
<1> HIDE DEF entries
<1>3. Absent \in Ids /\ FALSE \in BOOLEAN
  BY BoundsAssumption DEF Ids, Absent
<1>4. /\ u \in Trees /\ u.cid = t.cid /\ u.next = t.next
      /\ u.index = Absent /\ u.unique = FALSE /\ u.nextIndex = t.nextIndex
      /\ u.rollup = t.rollup /\ u.nextRollup = t.nextRollup
      /\ u.docs = t.docs /\ u.entries = entries /\ u.totals = t.totals
  BY <1>0, <1>1, <1>2, <1>3 DEF Trees, EntrySets
<1>5. u.index < u.nextIndex
  BY <1>0, <1>4 DEF Trees, Absent
<1>6. Ordered(u)
  BY <1>0, <1>4, <1>5 DEF Ordered, Stored
<1> QED
  BY <1>4, <1>6 DEF SameCounting, Sane, entries

IndexNumbered(t, unique) ==
    [t EXCEPT !.index = t.nextIndex, !.nextIndex = @ + 1, !.unique = unique]

Made(u) == UNION {entriesFor(u, k, u.docs[k]) : k \in Described(u)}

\* An index that is added leaves documents and totals alone, adds the entries of
\* what it can describe, and as a unique one holds no value twice (buildIndexIn).
LEMMA WithIndexIs ==
    ASSUME NEW t \in Sane, t.cid # 0, t.nextIndex <= MaxId, NEW unique \in BOOLEAN,
           NEW o, o = WithIndex(t, unique)
    PROVE  /\ o \in Outcomes
           /\ o.ok => LET n == IndexNumbered(t, unique) IN
                 /\ SameCounting(t, o.tree)
                 /\ o.tree.index = t.nextIndex /\ o.tree.index # Absent /\ o.tree.unique = unique
                 /\ n.index = t.nextIndex /\ n.docs = t.docs /\ n.cid = t.cid
                 /\ o.tree.entries = t.entries \cup Made(n)
                 /\ ~(unique /\ \E a, b \in Made(n) : a[3] = b[3] /\ a[4] # b[4])
<1>0. t \in Trees /\ Ordered(t)
  BY DEF Sane
<1> DEFINE n == IndexNumbered(t, unique)
           made == UNION {entriesFor(n, k, t.docs[k]) : k \in Described(n)}
           u == [n EXCEPT !.entries = @ \cup made]
<1>1. t.nextIndex \in 0 .. MaxId /\ t.nextIndex + 1 \in 0 .. MaxId + 1 /\ t.nextIndex \in Ids
  BY <1>0, BoundsAssumption DEF Trees, Ids
<1>2. /\ n \in Trees /\ n.cid = t.cid /\ n.next = t.next
      /\ n.index = t.nextIndex /\ n.unique = unique /\ n.nextIndex = t.nextIndex + 1
      /\ n.rollup = t.rollup /\ n.nextRollup = t.nextRollup
      /\ n.docs = t.docs /\ n.entries = t.entries /\ n.totals = t.totals
  BY <1>0, <1>1 DEF Trees, IndexNumbered
<1>3. o = IF unique /\ \E a, b \in made : a[3] = b[3] /\ a[4] # b[4] THEN Failed(t) ELSE Ok(u, 1)
  BY Zenon DEF WithIndex, IndexNumbered
<1>4. n.index # Absent
  BY <1>1, <1>2 DEF Absent
<1> HIDE DEF n
<1>5. Ordered(n)
  BY <1>0, <1>1, <1>2, <1>4 DEF Ordered, Stored
<1>6. n \in Sane
  BY <1>2, <1>5 DEF Sane
<1>7. made = Made(n)
  BY <1>2 DEF Made
<1>8. made \in EntrySets
  <2>1. \A k \in Described(n) : k \in Keys /\ n.docs[k] \in Docs \cup {NoDoc}
    BY <1>2 DEF Described, Stored, Trees
  <2>2. \A k \in Described(n) : entriesFor(n, k, t.docs[k]) \in EntrySets
    BY <1>2, <1>6, <2>1, EntriesTypes
  <2> QED
    BY <2>2 DEF EntrySets
<1> HIDE DEF made
<1>9. /\ u \in Trees /\ u.cid = n.cid /\ u.next = n.next
      /\ u.index = n.index /\ u.unique = n.unique /\ u.nextIndex = n.nextIndex
      /\ u.rollup = n.rollup /\ u.nextRollup = n.nextRollup
      /\ u.docs = n.docs /\ u.entries = n.entries \cup made /\ u.totals = n.totals
  <2>1. n.entries \cup made \in EntrySets
    BY <1>2, <1>8 DEF Trees, EntrySets
  <2> QED
    BY <1>2, <2>1 DEF Trees, EntrySets
<1> HIDE DEF u
<1>10. Ordered(u)
  BY <1>5, <1>9 DEF Ordered, Stored
<1>11. u \in Sane
  BY <1>9, <1>10 DEF Sane
<1>12. SameCounting(t, u)
  BY <1>2, <1>9, <1>11 DEF SameCounting
<1>13. CASE o = Failed(t)
  BY <1>13, OutcomeTypes
<1>14. CASE o = Ok(u, 1) /\ ~(unique /\ \E a, b \in made : a[3] = b[3] /\ a[4] # b[4])
  <2>1. o \in Outcomes /\ o.tree = u
    BY <1>14, <1>11, OutcomeTypes
  <2> QED
    BY <1>14, <2>1, <1>2, <1>4, <1>7, <1>9, <1>12 DEF n
<1> QED
  BY <1>3, <1>13, <1>14

\* A database without the collection, and with a number to give it.
Free(t) == t.cid = 0 /\ t.next <= MaxCollection

BareAs(t, u) ==
    /\ u \in Sane
    /\ u.cid = t.next /\ u.docs = t.docs /\ Stored(u) = {}
    /\ u.entries = t.entries /\ u.totals = t.totals

\* A new collection has no documents, and changes neither entries nor totals.
LEMMA CreatedIs ==
    ASSUME NEW t \in Sane, Free(t), NEW i \in BOOLEAN, NEW q \in BOOLEAN, NEW r \in BOOLEAN,
           NEW o, o = Created(t, i, q, r)
    PROVE  o \in Outcomes /\ BareAs(t, o.tree)
<1>0. t \in Trees /\ Ordered(t) /\ t.cid = 0 /\ t.next <= MaxCollection
  BY DEF Sane, Free
<1> DEFINE index == IF i THEN 0 ELSE Absent
           unique == i /\ q
           nextIndex == IF i THEN 1 ELSE 0
           rollup == IF r THEN 0 ELSE Absent
           nextRollup == IF r THEN 1 ELSE 0
           u == [t EXCEPT !.cid = t.next, !.next = @ + 1, !.index = index, !.unique = unique,
                          !.nextIndex = nextIndex, !.rollup = rollup, !.nextRollup = nextRollup]
<1>1. o = Ok(u, 1)
  BY Zenon DEF Created
<1>2. /\ index \in Ids /\ rollup \in Ids
      /\ nextIndex \in 0 .. MaxId + 1 /\ nextRollup \in 0 .. MaxId + 1
      /\ index < nextIndex /\ rollup < nextRollup
  BY BoundsAssumption DEF Ids, Absent
<1>3. unique \in BOOLEAN /\ (index = Absent => ~unique)
  BY DEF Absent
<1>4. t.next \in 1 .. MaxCollection /\ t.next + 1 \in 1 .. MaxCollection + 1
  BY <1>0, BoundsAssumption DEF Trees
<1> HIDE DEF index, unique, nextIndex, rollup, nextRollup
<1>5. /\ u \in Trees /\ u.cid = t.next /\ u.next = t.next + 1
      /\ u.index = index /\ u.unique = unique /\ u.nextIndex = nextIndex
      /\ u.rollup = rollup /\ u.nextRollup = nextRollup
      /\ u.docs = t.docs /\ u.entries = t.entries /\ u.totals = t.totals
  <2>1. t.next \in 0 .. MaxCollection
    BY <1>4
  <2> QED
    BY <1>0, <1>2, <1>3, <1>4, <2>1 DEF Trees
<1> HIDE DEF u
<1>6. ASSUME NEW x \in Rows, x[1] >= u.next \/ (x[1] = u.cid /\ x[2] >= u.nextRollup)
      PROVE  u.totals[x] = Nothing
  <2>1. x[1] \in Int
    BY DEF Rows
  <2>2. x[1] >= t.next
    BY <1>4, <1>5, <1>6, <2>1
  <2> QED
    BY <1>0, <1>5, <2>2 DEF Ordered
<1>7. Stored(u) = {}
  BY <1>0, <1>5 DEF Ordered, Stored
<1>8. Ordered(u)
  BY <1>2, <1>3, <1>4, <1>5, <1>6, <1>7 DEF Ordered
<1>9. u \in Sane
  BY <1>5, <1>8 DEF Sane
<1>10. o \in Outcomes /\ o.tree = u
  BY <1>1, <1>9, OutcomeTypes
<1> QED
  BY <1>5, <1>7, <1>9, <1>10 DEF BareAs

\* Dropping a collection takes its documents and its entries (Store.Drop).
LEMMA DropIs ==
    ASSUME NEW t \in Sane, t.cid # 0, NEW u, u = drop(t)
    PROVE  /\ u \in Sane /\ u.cid = 0 /\ Stored(u) = {} /\ u.index = Absent /\ u.rollup = Absent
           /\ u.entries = WithoutEntries(t).entries
           /\ ~u.unique /\ u.totals = t.totals
<1> DEFINE w == WithoutEntries(t)
<1>1. /\ w \in Sane /\ SameCounting(t, w) /\ w.next = t.next
      /\ w.index = Absent /\ ~w.unique
  BY WithoutEntriesIs
<1>2. u = [w EXCEPT !.docs = [k \in Keys |-> NoDoc], !.cid = 0, !.rollup = Absent,
                    !.nextIndex = 0, !.nextRollup = 0]
  BY DEF drop
<1> HIDE DEF w
<1>3. w \in Trees /\ Ordered(w)
  BY <1>1 DEF Sane
<1>4. /\ Absent \in Ids /\ 0 \in 0 .. MaxId + 1 /\ 0 \in 0 .. MaxCollection
      /\ [k \in Keys |-> NoDoc] \in [Keys -> Docs \cup {NoDoc}]
  BY BoundsAssumption DEF Ids, Absent
<1>5. /\ u \in Trees /\ u.cid = 0 /\ u.next = w.next
      /\ u.index = w.index /\ u.unique = w.unique /\ u.nextIndex = 0
      /\ u.rollup = Absent /\ u.nextRollup = 0
      /\ u.docs = [k \in Keys |-> NoDoc] /\ u.entries = w.entries /\ u.totals = w.totals
  BY <1>2, <1>3, <1>4 DEF Trees
<1>6. Stored(u) = {}
  BY <1>5 DEF Stored
<1>7. \A r \in Rows : r[1] # 0
  BY DEF Rows
<1>8. u.index < u.nextIndex /\ u.rollup < u.nextRollup /\ u.cid < u.next
  BY <1>1, <1>3, <1>5 DEF Absent, Trees
<1>9. \A r \in Rows : r[1] >= u.next \/ (r[1] = u.cid /\ r[2] >= u.nextRollup) => u.totals[r] = Nothing
  BY <1>3, <1>5, <1>7 DEF Ordered
<1>10. Ordered(u)
  BY <1>1, <1>5, <1>6, <1>8, <1>9 DEF Ordered
<1> QED
  BY <1>1, <1>5, <1>6, <1>10 DEF Sane, w, SameCounting

\* A declaration that goes through is one change of the rollup and one of the
\* index.
RollupPart(t, r) ==
    IF r /\ t.rollup = Absent THEN WithRollup(t)
    ELSE IF ~r /\ t.rollup # Absent THEN Ok(WithoutTotals(t), 1)
    ELSE Ok(t, 1)

\* The rollups of a declaration: added, dropped or left (Store.declare).
LEMMA RollupPartIs ==
    ASSUME NEW t \in Sane, t.cid # 0, NEW r \in BOOLEAN,
           r /\ t.rollup = Absent => t.nextRollup <= MaxId,
           NEW o, o = RollupPart(t, r)
    PROVE  o \in Outcomes /\ SameIndexing(t, o.tree) /\ o.tree.nextIndex = t.nextIndex
<1>1. CASE r /\ t.rollup = Absent
  BY <1>1, WithRollupIs DEF RollupPart
<1>2. CASE ~r /\ t.rollup # Absent
  <2>1. SameIndexing(t, WithoutTotals(t)) /\ WithoutTotals(t).nextIndex = t.nextIndex
    BY WithoutTotalsIs
  <2>2. WithoutTotals(t) \in Sane
    BY <2>1 DEF SameIndexing
  <2>3. o = Ok(WithoutTotals(t), 1)
    BY <1>2 DEF RollupPart
  <2> QED
    BY <2>1, <2>2, <2>3, OutcomeTypes
<1>3. CASE ~(r /\ t.rollup = Absent) /\ ~(~r /\ t.rollup # Absent)
  <2>1. o = Ok(t, 1) /\ SameIndexing(t, t)
    BY <1>3 DEF RollupPart, SameIndexing
  <2> QED
    BY <2>1, OutcomeTypes
<1> QED
  BY <1>1, <1>2, <1>3

\* A declaration that exists already changes its rollups first, then its indexes.
LEMMA RedeclaredIs ==
    ASSUME NEW t \in Sane, t.cid # 0, NEW i \in BOOLEAN, NEW q \in BOOLEAN, NEW r \in BOOLEAN,
           r /\ t.rollup = Absent => t.nextRollup <= MaxId,
           i /\ t.index = Absent => t.nextIndex <= MaxId,
           NEW o, o = Redeclared(t, i, q, r), o.ok
    PROVE  /\ o \in Outcomes
           /\ RollupPart(t, r).ok
           /\ LET u == RollupPart(t, r).tree
              IN  \/ i /\ t.index = Absent /\ o = WithIndex(u, q)
                  \/ o.tree = WithoutEntries(u)
                  \/ o.tree = u
<1> DEFINE p == RollupPart(t, r)
<1>1. p \in Outcomes /\ SameIndexing(t, p.tree) /\ p.tree.nextIndex = t.nextIndex
  BY RollupPartIs
<1>2. o = IF ~p.ok \/ (i /\ t.index # Absent /\ t.unique # q) THEN Failed(p.tree)
          ELSE IF i /\ t.index = Absent THEN WithIndex(p.tree, q)
          ELSE IF ~i /\ t.index # Absent THEN Ok(WithoutEntries(p.tree), 1)
          ELSE p
  BY Zenon DEF Redeclared, RollupPart
<1> HIDE DEF p
<1>3. p.tree \in Sane /\ p.tree.cid # 0
  BY <1>1 DEF SameIndexing
<1>4. ~Failed(p.tree).ok
  BY <1>3, OutcomeTypes
<1>5. p.ok /\ ~(i /\ t.index # Absent /\ t.unique # q)
  BY <1>2, <1>4
<1>6. CASE i /\ t.index = Absent
  <2>1. o = WithIndex(p.tree, q)
    BY <1>2, <1>5, <1>6
  <2>2. o \in Outcomes
    BY <2>1, <1>1, <1>3, <1>6, WithIndexIs
  <2> QED
    BY <1>5, <1>6, <2>1, <2>2 DEF p
<1>7. CASE ~i /\ t.index # Absent
  <2>1. o = Ok(WithoutEntries(p.tree), 1)
    BY <1>2, <1>5, <1>7
  <2>2. WithoutEntries(p.tree) \in Sane
    BY <1>3, WithoutEntriesIs
  <2> QED
    BY <1>5, <2>1, <2>2, OutcomeTypes DEF p
<1>8. CASE ~(i /\ t.index = Absent) /\ ~(~i /\ t.index # Absent)
  <2>1. o = p
    BY <1>2, <1>5, <1>8
  <2> QED
    BY <1>1, <1>5, <2>1 DEF p
<1> QED
  BY <1>6, <1>7, <1>8

\* The guards of Declare.
MayDeclare(t, i, r) ==
    /\ t.cid = 0 => t.next <= MaxCollection
    /\ i /\ t.index = Absent => t.nextIndex <= MaxId
    /\ r /\ t.rollup = Absent => t.nextRollup <= MaxId

\* Dropping an index leaves no entry behind.
LEMMA WithoutEntriesMatched ==
    ASSUME NEW t \in MatchedTrees
    PROVE  WithoutEntries(t) \in MatchedTrees /\ WithoutEntries(t).entries = {}
<1> DEFINE u == WithoutEntries(t)
<1>0. t \in Sane /\ Matched(t)
  BY DEF MatchedTrees
<1>1. /\ u \in Sane /\ SameCounting(t, u) /\ u.index = Absent /\ ~u.unique
      /\ u.entries = {e \in t.entries : e[1] # t.cid \/ e[2] # t.index}
  BY <1>0, WithoutEntriesIs
<1> HIDE DEF u
<1>2. \A e \in t.entries : e[1] = t.cid /\ e[2] = t.index
  <2>1. \A e : e \in t.entries =>
              \E k \in Keys : \E v \in t.docs[k].f : e = <<t.cid, t.index, v, k>>
    BY <1>0, EntriesOf DEF Matched
  <2> QED
    BY <2>1
<1>3. u.entries = {}
  BY <1>1, <1>2
<1>4. UNION {entriesFor(u, k, u.docs[k]) : k \in Stored(u)} = {}
  BY <1>1 DEF entriesFor
<1>5. \A k \in Stored(u) : Odd \notin u.docs[k].f
  BY <1>0, <1>1 DEF Matched, Stored, SameCounting
<1>6. Matched(u)
  BY <1>1, <1>3, <1>4, <1>5 DEF Matched
<1> QED
  BY <1>1, <1>3, <1>6 DEF MatchedTrees, u

\* An index built over documents that are there is in step with them.
LEMMA WithIndexMatched ==
    ASSUME NEW t \in MatchedTrees, t.cid # 0, t.index = Absent, t.nextIndex <= MaxId,
           NEW q \in BOOLEAN, WithIndex(t, q).ok
    PROVE  WithIndex(t, q).tree \in MatchedTrees
<1> DEFINE n == IndexNumbered(t, q)
           u == WithIndex(t, q).tree
<1>0. t \in Sane /\ Matched(t)
  BY DEF MatchedTrees
<1>1. /\ SameCounting(t, u)
      /\ u.index = t.nextIndex /\ u.index # Absent /\ u.unique = q
      /\ n.index = t.nextIndex /\ n.docs = t.docs /\ n.cid = t.cid
      /\ u.entries = t.entries \cup Made(n)
      /\ ~(q /\ \E a, b \in Made(n) : a[3] = b[3] /\ a[4] # b[4])
  BY <1>0, WithIndexIs
<1> HIDE DEF n, u
<1>2. t.entries = {}
  BY <1>0 DEF Matched, entriesFor
<1>3. u \in Sane /\ u.cid = t.cid /\ u.docs = t.docs
  BY <1>1 DEF SameCounting
<1>4. Stored(n) = Stored(t) /\ Stored(u) = Stored(t)
  BY <1>1, <1>3 DEF Stored
<1>5. Described(n) = Stored(u)
  BY <1>0, <1>1, <1>4 DEF Described, Indexable, Matched
<1>6. \A k : entriesFor(n, k, n.docs[k]) = entriesFor(u, k, u.docs[k])
  BY <1>1, <1>3 DEF entriesFor
<1>7. Made(n) = UNION {entriesFor(u, k, u.docs[k]) : k \in Stored(u)}
  BY <1>5, <1>6 DEF Made
<1>8. u.entries = UNION {entriesFor(u, k, u.docs[k]) : k \in Stored(u)}
  BY <1>1, <1>2, <1>7
<1>9. ASSUME u.unique, NEW k \in Stored(u), NEW m \in Stored(u), k # m
      PROVE  u.docs[k].f \cap u.docs[m].f = {}
  <2>1. SUFFICES ASSUME NEW v \in u.docs[k].f, v \in u.docs[m].f PROVE FALSE
    OBVIOUS
  <2> DEFINE a == <<u.cid, u.index, v, k>>
             b == <<u.cid, u.index, v, m>>
  <2>2. a \in entriesFor(u, k, u.docs[k]) /\ b \in entriesFor(u, m, u.docs[m])
    BY <1>1, <2>1 DEF entriesFor
  <2>3. a[3] = b[3] /\ a[4] # b[4]
    BY <1>9
  <2> HIDE DEF a, b
  <2>4. a \in Made(n) /\ b \in Made(n)
    BY <1>7, <1>9, <2>2
  <2> QED
    BY <1>1, <1>9, <2>3, <2>4
<1>10. \A k \in Stored(u) : Odd \notin u.docs[k].f
  BY <1>0, <1>3, <1>4 DEF Matched
<1>11. Matched(u)
  BY <1>8, <1>9, <1>10 DEF Matched
<1> QED
  BY <1>3, <1>11 DEF MatchedTrees, u

\* A tree without documents and without entries is matched.
LEMMA BareMatched ==
    ASSUME NEW u \in Sane, Stored(u) = {}, u.entries = {}
    PROVE  u \in MatchedTrees
BY DEF MatchedTrees, Matched

\* Dropping a collection leaves nothing to be out of step.
LEMMA DropMatched ==
    ASSUME NEW t \in MatchedTrees, t.cid # 0
    PROVE  drop(t) \in MatchedTrees
<1>1. t \in Sane
  BY DEF MatchedTrees
<1>2. drop(t) \in Sane /\ Stored(drop(t)) = {} /\ drop(t).entries = {}
  BY <1>1, DropIs, WithoutEntriesMatched
<1> QED
  BY <1>2, BareMatched

\* A new collection is in step.
LEMMA CreatedMatched ==
    ASSUME NEW t \in MatchedTrees, Free(t), NEW i \in BOOLEAN, NEW q \in BOOLEAN, NEW r \in BOOLEAN
    PROVE  Created(t, i, q, r).tree \in MatchedTrees
<1> DEFINE u == Created(t, i, q, r).tree
<1>1. t \in Sane /\ Matched(t) /\ Ordered(t) /\ t.cid = 0
  BY DEF MatchedTrees, Sane, Free
<1>2. BareAs(t, u)
  BY <1>1, CreatedIs
<1> HIDE DEF u
<1>3. t.entries = {}
  BY <1>1 DEF Matched, Ordered
<1>4. u \in Sane /\ Stored(u) = {} /\ u.entries = {}
  BY <1>2, <1>3 DEF BareAs
<1>5. u \in MatchedTrees
  BY <1>4, BareMatched
<1> QED
  BY <1>5 DEF u

\* A declaration that succeeds leaves the index in step.
LEMMA DeclareMatched ==
    ASSUME NEW t \in MatchedTrees, NEW i \in BOOLEAN, NEW q \in BOOLEAN, NEW r \in BOOLEAN,
           MayDeclare(t, i, r), declare(t, i, q, r).ok
    PROVE  declare(t, i, q, r).tree \in MatchedTrees
<1> DEFINE o == declare(t, i, q, r)
<1>0. t \in Sane /\ Matched(t) /\ Ordered(t)
  BY DEF MatchedTrees, Sane
<1>1. CASE t.cid = 0
  <2>1. o = Created(t, i, q, r)
    BY <1>1 DEF declare
  <2>2. Created(t, i, q, r).tree \in MatchedTrees
    BY <1>1, CreatedMatched DEF MayDeclare, Free
  <2> QED
    BY <2>1, <2>2
<1>2. CASE t.cid # 0
  <2> DEFINE u == RollupPart(t, r).tree
  <2>1. o = Redeclared(t, i, q, r)
    BY <1>2 DEF declare
  <2>2. /\ o \in Outcomes
        /\ \/ i /\ t.index = Absent /\ o = WithIndex(u, q)
           \/ o.tree = WithoutEntries(u)
           \/ o.tree = u
    BY <1>0, <1>2, <2>1, RedeclaredIs DEF MayDeclare
  <2>3. SameIndexing(t, u) /\ u.nextIndex = t.nextIndex
    BY <1>0, <1>2, RollupPartIs DEF MayDeclare
  <2> HIDE DEF u
  <2>4. u \in MatchedTrees
    BY <2>3, MatchedSame
  <2>5. CASE i /\ t.index = Absent /\ o = WithIndex(u, q)
    <3>1. u.cid # 0 /\ u.index = Absent /\ u.nextIndex <= MaxId
      BY <1>2, <2>3, <2>5 DEF SameIndexing, MayDeclare
    <3>2. WithIndex(u, q).ok
      BY <2>5
    <3>3. WithIndex(u, q).tree \in MatchedTrees
      BY <2>4, <3>1, <3>2, WithIndexMatched
    <3> QED
      BY <2>5, <3>3
  <2>6. CASE o.tree = WithoutEntries(u)
    BY <2>4, <2>6, WithoutEntriesMatched
  <2> QED
    BY <2>2, <2>4, <2>5, <2>6
<1> QED
  BY <1>1, <1>2

-----------------------------------------------------------------------------
(* Transactions: what a step makes of the tree, and when a set of trees is *)
(* one that no transaction leaves.                                         *)

\* What a caller may write: a document of its own, or a stored one with some
\* of its fields set.
Writable(t, d) ==
    /\ d \in Docs
    /\ \/ Mixed \/ t.index # Absent \/ Odd \notin d.f
       \/ \E k \in Stored(t) : d.f = t.docs[k].f

\* The outcomes of one operation.
Operation(t, o) ==
    \/ \E k \in Keys : \E d : Writable(t, d) /\ o = write(t, k, d)
    \/ \E k \in Keys : o = remove(t, k)
    \/ \E from \in Keys \cup {0} : \E limit \in Limits : o = deleteRange(t, from, limit)
    \/ o = Ok(t, 0)
    \/ o = Failed(t)

Operates == \E o : Operation(work, o) /\ (perform(o) \/ step(o))

Declares == \E i, q, r \in BOOLEAN : Declare(i, q, r)

\* Whatever a caller sends may be written, and what an update makes of a stored
\* document too.
LEMMA SentWritable ==
    ASSUME work \in Sane, NEW d \in Sent
    PROVE  /\ Writable(work, d)
           /\ \A k \in Stored(work) :
                 /\ Writable(work, [work.docs[k] EXCEPT !.f = d.f])
                 /\ Writable(work, [work.docs[k] EXCEPT !.h = d.h, !.g = d.g])
<1>1. d \in Inputs /\ d \in Docs /\ (Mixed \/ work.index # Absent \/ Odd \notin d.f)
  BY DocTypes DEF Sent
<1>2. ASSUME NEW k \in Stored(work)
      PROVE  /\ Writable(work, [work.docs[k] EXCEPT !.f = d.f])
             /\ Writable(work, [work.docs[k] EXCEPT !.h = d.h, !.g = d.g])
  <2> DEFINE a == [work.docs[k] EXCEPT !.f = d.f]
             b == [work.docs[k] EXCEPT !.h = d.h, !.g = d.g]
  <2>1. work.docs[k] \in Docs
    BY DEF Sane, Trees, Stored
  <2>2. a \in Docs /\ a.f = d.f /\ b \in Docs /\ b.f = work.docs[k].f
    BY <1>1, <2>1 DEF Docs
  <2> HIDE DEF a, b
  <2>3. Writable(work, a) /\ Writable(work, b)
    BY <1>1, <2>2 DEF Writable
  <2> QED
    BY <2>3 DEF a, b
<1> QED
  BY <1>1, <1>2 DEF Writable

\* An update is the write of a document that may be written, a failure, or nothing.
LEMMA UpdateIs ==
    ASSUME NEW t, NEW k \in Keys, NEW to \in Keys, NEW d, NEW batch,
           k \in Stored(t) => Writable(t, d)
    PROVE  Operation(t, update(t, k, to, d, batch))
<1>1. CASE t.docs[k] = NoDoc
  <2>1. update(t, k, to, d, batch) = Failed(t) \/ update(t, k, to, d, batch) = Ok(t, 0)
    BY <1>1 DEF update
  <2> QED
    BY <2>1 DEF Operation
<1>2. CASE t.docs[k] # NoDoc
  <2>1. update(t, k, to, d, batch) = write(t, to, d) /\ Writable(t, d)
    BY <1>2 DEF update, Stored
  <2> QED
    BY <2>1 DEF Operation
<1> QED
  BY <1>1, <1>2

\* The actions of Next, by what they do to the tree.
LEMMA NextIs ==
    ASSUME work \in Sane, Next
    PROVE  Operates \/ BatchBegins \/ BatchEnds \/ Declares \/ Drop \/ Restart
<1>1. ASSUME NEW o, Operation(work, o), Run(o) PROVE Operates
  BY <1>1 DEF Run, Operates
<1>2. ASSUME NEW k \in Keys, NEW d \in Sent, Put(k, d) PROVE Operates
  <2>1. Operation(work, write(work, k, d))
    BY SentWritable DEF Operation
  <2> QED
    BY <1>1, <1>2, <2>1 DEF Put
<1>3. ASSUME NEW k \in Keys, NEW d \in Sent, Insert(k, d) PROVE Operates
  <2>1. Operation(work, write(work, k, d)) /\ Operation(work, Failed(work))
    BY SentWritable DEF Operation
  <2>2. Operation(work, insert(work, k, d))
    BY <2>1 DEF insert
  <2> QED
    BY <1>1, <1>3, <2>2 DEF Insert
<1>4. ASSUME NEW k \in Keys, NEW d \in Sent, NEW to \in Keys, Update(k, to, d) PROVE Operates
  <2> DEFINE a == [work.docs[k] EXCEPT !.f = d.f]
             b == [work.docs[k] EXCEPT !.h = d.h, !.g = d.g]
             batch == steps # Absent
  <2>1. Run(update(work, k, to, a, batch)) \/ Run(update(work, k, to, b, batch))
    BY <1>4 DEF Update
  <2>2. k \in Stored(work) => Writable(work, a) /\ Writable(work, b)
    BY SentWritable
  <2> HIDE DEF a, b, batch
  <2>3. Operation(work, update(work, k, to, a, batch)) /\ Operation(work, update(work, k, to, b, batch))
    BY <2>2, UpdateIs
  <2> QED
    BY <1>1, <2>1, <2>3
<1>5. ASSUME NEW k \in Keys, Delete(k) PROVE Operates
  <2>1. Operation(work, remove(work, k))
    BY DEF Operation
  <2> QED
    BY <1>1, <1>5, <2>1 DEF Delete
<1>6. ASSUME NEW k \in Keys, NEW exists, Check(k, exists) PROVE Operates
  <2>1. Operation(work, Ok(work, 0)) /\ Operation(work, Failed(work))
    BY DEF Operation
  <2>2. step(Ok(work, 0)) \/ step(Failed(work))
    BY <1>6 DEF Check
  <2> QED
    BY <2>1, <2>2 DEF Operates
<1>7. ASSUME NEW from \in Keys \cup {0}, NEW limit \in Limits, DeleteRange(from, limit) PROVE Operates
  <2>1. Operation(work, deleteRange(work, from, limit))
    BY DEF Operation
  <2> QED
    BY <1>7, <2>1 DEF DeleteRange, Operates
<1> QED
  BY <1>2, <1>3, <1>4, <1>5, <1>6, <1>7 DEF Next, Declares

\* What the operations that go through make of a tree of G is in G; with
\* failed operations, also what those leave.
Closed(G) ==
    /\ G \subseteq Sane /\ EmptyTree \in G
    /\ \A t \in G : \A o : Operation(t, o) /\ o.ok => o.tree \in G
    /\ \A t \in G : \A i, q, r \in BOOLEAN :
          MayDeclare(t, i, r) /\ declare(t, i, q, r).ok => declare(t, i, q, r).tree \in G
    /\ \A t \in G : t.cid # 0 => drop(t) \in G

ClosedAll(G) == Closed(G) /\ \A t \in G : \A o : Operation(t, o) => o.tree \in G

\* Outside an operation that failed half way the transaction's tree is in G,
\* and the committed one always is.
Kept(G) ==
    /\ disk \in G
    /\ ~half => work \in G
    /\ half \in BOOLEAN
    /\ steps # Absent => ~half

\* A commit makes a tree that is good the one on disk.
LEMMA CommitKeeps ==
    ASSUME NEW G, disk \in G, NEW t \in G, Commits(t)
    PROVE  disk' \in G /\ work' \in G /\ half' = FALSE
BY DEF Commits

\* What every operation keeps, every step keeps, of the tree on disk and of the
\* one under way between operations: a failure goes back to the disk's tree.
LEMMA KeptNext ==
    ASSUME NEW G, Closed(G), ~CarryOn, Kept(G), [Next]_vars
    PROVE  Kept(G)'
<1>1. CASE UNCHANGED vars
  BY <1>1 DEF vars, Kept
<1>2. ASSUME ~half, Operates PROVE Kept(G)'
  <2>0. work \in G /\ disk \in G
    BY <1>2 DEF Kept
  <2>1. PICK o : Operation(work, o) /\ (perform(o) \/ step(o))
    BY <1>2 DEF Operates
  <2>2. o.ok => o.tree \in G
    BY <2>0, <2>1 DEF Closed
  <2>3. CASE perform(o)
    <3>1. CASE o.ok /\ o.changed > 0
      BY <2>0, <2>2, <2>3, <3>1, CommitKeeps DEF perform, Idle, Kept
    <3>2. CASE ~(o.ok /\ o.changed > 0)
      <4>1. /\ work' = o.tree /\ half' = (half \/ o.tree # work)
            /\ disk' = disk /\ steps' = steps /\ steps = Absent
        BY <2>3, <3>2 DEF perform, Idle
      <4>2. half' \in BOOLEAN
        BY <4>1
      <4>3. ~half' => work' \in G
        BY <2>0, <4>1
      <4> QED
        BY <2>0, <4>1, <4>2, <4>3 DEF Kept
    <3> QED
      BY <3>1, <3>2
  <2>4. CASE step(o)
    <3>1. CASE o.ok
      BY <2>0, <2>2, <2>4, <3>1, <1>2 DEF step, Kept
    <3>2. CASE ~o.ok
      BY <2>0, <2>4, <3>2 DEF step, Kept, Abandon
    <3> QED
      BY <3>1, <3>2
  <2> QED
    BY <2>1, <2>3, <2>4
<1>3. ASSUME ~half, BatchBegins PROVE Kept(G)'
  BY <1>3 DEF BatchBegins, Kept
<1>4. ASSUME ~half, BatchEnds PROVE Kept(G)'
  <2>1. work \in G /\ disk \in G /\ steps' = Absent
    BY <1>4 DEF BatchEnds, Kept
  <2>2. CASE dirty
    BY <1>4, <2>1, <2>2, CommitKeeps DEF BatchEnds, Kept
  <2>3. CASE ~dirty
    BY <1>4, <2>1, <2>3 DEF BatchEnds, Kept
  <2> QED
    BY <2>2, <2>3
<1>5. ASSUME ~half, Declares PROVE Kept(G)'
  <2>0. work \in G /\ disk \in G
    BY <1>5 DEF Kept
  <2>1. PICK i, q, r \in BOOLEAN : Declare(i, q, r)
    BY <1>5 DEF Declares
  <2> DEFINE o == declare(work, i, q, r)
  <2>2. MayDeclare(work, i, r) /\ steps' = steps /\ steps = Absent
    BY <2>1 DEF Declare, MayDeclare, Idle
  <2>3. o.ok => o.tree \in G
    BY <2>0, <2>2 DEF Closed
  <2>4. IF o.ok THEN Commits(o.tree) ELSE Abandon /\ UNCHANGED disk
    BY <2>1 DEF Declare
  <2> HIDE DEF o
  <2>5. CASE o.ok
    BY <2>0, <2>2, <2>3, <2>4, <2>5, CommitKeeps DEF Kept
  <2>6. CASE ~o.ok
    BY <2>0, <2>2, <2>4, <2>6 DEF Abandon, Kept
  <2> QED
    BY <2>5, <2>6
<1>6. ASSUME ~half, Drop PROVE Kept(G)'
  <2>0. work \in G /\ disk \in G /\ work.cid # 0 /\ steps' = steps /\ Commits(drop(work)) /\ steps = Absent
    BY <1>6 DEF Kept, Drop, Idle
  <2>1. drop(work) \in G
    BY <2>0 DEF Closed
  <2> QED
    BY <2>0, <2>1, CommitKeeps DEF Kept
<1>7. ASSUME Restart PROVE Kept(G)'
  BY <1>7 DEF Restart, Abandon, Kept
<1>8. ASSUME half, Next PROVE Restart
  <2>1. steps = Absent /\ ~Idle
    BY <1>8 DEF Kept, Idle
  <2>2. steps \notin 0 .. MaxSteps - 1
    BY <2>1, BoundsAssumption DEF Absent
  <2>3. \A o : ~perform(o) /\ ~step(o)
    BY <2>1, <2>2 DEF perform, step
  <2>4. \A o : ~Run(o)
    BY <2>3 DEF Run
  <2> QED
    BY <1>8, <2>1, <2>3, <2>4
       DEF Next, Put, Insert, Update, Delete, Check, DeleteRange, BatchBegins, BatchEnds, Declare, Drop
<1>9. CASE Next /\ ~half
  <2>1. work \in Sane
    BY <1>9 DEF Kept, Closed
  <2> QED
    BY <1>2, <1>3, <1>4, <1>5, <1>6, <1>7, <1>9, <2>1, NextIs
<1> QED
  BY <1>1, <1>7, <1>8, <1>9

\* The database starts good.
LEMMA KeptInit ==
    ASSUME NEW G, Closed(G), Init PROVE Kept(G)
BY DEF Init, Kept, Closed

\* With callers that do go on: both trees.
BothIn(G) == work \in G /\ disk \in G

\* What operations keep even when they fail, every step keeps, of both trees,
\* also when callers carry on after a failure.
LEMMA BothInNext ==
    ASSUME NEW G, ClosedAll(G), BothIn(G), [Next]_vars
    PROVE  BothIn(G)'
<1>0. work \in G /\ disk \in G /\ work \in Sane /\ Closed(G)
  BY DEF BothIn, ClosedAll, Closed
<1>1. CASE UNCHANGED vars
  BY <1>0, <1>1 DEF vars, BothIn
<1>2. CASE Operates
  <2>1. PICK o : Operation(work, o) /\ (perform(o) \/ step(o))
    BY <1>2 DEF Operates
  <2>2. o.tree \in G
    BY <1>0, <2>1 DEF ClosedAll
  <2>3. CASE perform(o)
    <3>1. CASE o.ok /\ o.changed > 0
      BY <1>0, <2>2, <2>3, <3>1, CommitKeeps DEF perform, BothIn
    <3>2. CASE ~(o.ok /\ o.changed > 0)
      BY <1>0, <2>2, <2>3, <3>2 DEF perform, BothIn
    <3> QED
      BY <3>1, <3>2
  <2>4. CASE step(o)
    <3>1. CASE o.ok
      BY <1>0, <2>2, <2>4, <3>1 DEF step, BothIn
    <3>2. CASE ~o.ok
      BY <1>0, <2>4, <3>2 DEF step, BothIn, Abandon
    <3> QED
      BY <3>1, <3>2
  <2> QED
    BY <2>1, <2>3, <2>4
<1>3. CASE BatchBegins
  BY <1>0, <1>3 DEF BatchBegins, BothIn
<1>4. CASE BatchEnds
  <2>1. CASE dirty
    BY <1>0, <1>4, <2>1, CommitKeeps DEF BatchEnds, BothIn
  <2>2. CASE ~dirty
    BY <1>0, <1>4, <2>2 DEF BatchEnds, BothIn
  <2> QED
    BY <2>1, <2>2
<1>5. CASE Declares
  <2>1. PICK i, q, r \in BOOLEAN : Declare(i, q, r)
    BY <1>5 DEF Declares
  <2> DEFINE o == declare(work, i, q, r)
  <2>2. MayDeclare(work, i, r)
    BY <2>1 DEF Declare, MayDeclare
  <2>3. o.ok => o.tree \in G
    BY <1>0, <2>2 DEF Closed
  <2>4. IF o.ok THEN Commits(o.tree) ELSE Abandon /\ UNCHANGED disk
    BY <2>1 DEF Declare
  <2> HIDE DEF o
  <2>5. CASE o.ok
    BY <1>0, <2>3, <2>4, <2>5, CommitKeeps DEF BothIn
  <2>6. CASE ~o.ok
    BY <1>0, <2>4, <2>6 DEF Abandon, BothIn
  <2> QED
    BY <2>5, <2>6
<1>6. CASE Drop
  <2>1. work.cid # 0 /\ Commits(drop(work))
    BY <1>6 DEF Drop
  <2>2. drop(work) \in G
    BY <1>0, <2>1 DEF Closed
  <2> QED
    BY <1>0, <2>1, <2>2, CommitKeeps DEF BothIn
<1>7. CASE Restart
  BY <1>0, <1>7 DEF Restart, Abandon, BothIn
<1> QED
  BY <1>0, <1>1, <1>2, <1>3, <1>4, <1>5, <1>6, <1>7, NextIs

\* The database starts with both trees good.
LEMMA BothInInit ==
    ASSUME NEW G, ClosedAll(G), Init PROVE BothIn(G)
BY DEF Init, BothIn, ClosedAll, Closed

-----------------------------------------------------------------------------
(* The index.                                                              *)

\* The empty database is well formed.
LEMMA EmptyTreeIs ==
    /\ EmptyTree \in Sane /\ Stored(EmptyTree) = {} /\ EmptyTree.entries = {}
    /\ EmptyTree.rollup = Absent /\ EmptyTree.totals = [r \in Rows |-> Nothing]
<1> DEFINE e == EmptyTree
<1>1. /\ e.cid = 0 /\ e.next = 1 /\ e.index = Absent /\ e.unique = FALSE /\ e.nextIndex = 0
      /\ e.rollup = Absent /\ e.nextRollup = 0
      /\ e.docs = [k \in Keys |-> NoDoc] /\ e.entries = {}
      /\ e.totals = [r \in Rows |-> Nothing]
  BY DEF EmptyTree, Rows, Nothing
<1>2. /\ 0 \in 0 .. MaxCollection /\ 1 \in 1 .. MaxCollection + 1 /\ Absent \in Ids
      /\ 0 \in 0 .. MaxId + 1
  BY BoundsAssumption DEF Ids, Absent
<1>3. Nothing \in [count : Nat, sum : Int]
  BY DEF Nothing
<1>4. e \in Trees
  BY <1>2, <1>3 DEF EmptyTree, Trees, Rows, Nothing
<1>5. Stored(e) = {}
  BY <1>1 DEF Stored
<1>6. 0 < 1 /\ Absent < 0
  BY DEF Absent
<1> HIDE DEF e
<1>7. Ordered(e)
  BY <1>1, <1>5, <1>6 DEF Ordered
<1> QED
  BY <1>1, <1>4, <1>5, <1>7 DEF Sane, e

\* Every operation that succeeds leaves the index in step.
LEMMA OperationMatched ==
    ASSUME ~Mixed, NEW t \in MatchedTrees, NEW o, Operation(t, o), o.ok
    PROVE  o.tree \in MatchedTrees
<1>0. t \in Sane /\ Matched(t) /\ MatchedTrees \subseteq Sane
  BY DEF MatchedTrees
<1>1. ASSUME NEW k \in Keys, NEW d, Writable(t, d), o = write(t, k, d) PROVE o.tree \in MatchedTrees
  <2>1. d \in Docs /\ (t.index = Absent => Odd \notin d.f)
    BY <1>0, <1>1 DEF Writable, Matched
  <2> QED
    BY <1>1, <2>1, WriteMatched
<1>2. ASSUME NEW k \in Keys, o = remove(t, k) PROVE o.tree \in MatchedTrees
  BY <1>2, RemoveMatched
<1>3. ASSUME NEW from, NEW limit, o = deleteRange(t, from, limit) PROVE o.tree \in MatchedTrees
  BY <1>0, <1>3, RemoveMatched, DeleteRangeKeeps
<1>4. CASE o = Ok(t, 0) \/ o = Failed(t)
  <2>1. o.tree = t
    BY <1>0, <1>4, OutcomeTypes
  <2> QED
    BY <2>1
<1> QED
  BY <1>1, <1>2, <1>3, <1>4 DEF Operation

\* Operations, declarations and drops all leave the index in step.
LEMMA MatchedClosed ==
    ASSUME ~Mixed PROVE Closed(MatchedTrees)
<1>1. EmptyTree \in MatchedTrees
  BY EmptyTreeIs, BareMatched
<1>2. MatchedTrees \subseteq Sane
  BY DEF MatchedTrees
<1> QED
  BY <1>1, <1>2, OperationMatched, DeclareMatched, DropMatched DEF Closed

\* A closed set of trees is never left.
LEMMA MatchedAlways == (~CarryOn /\ ~Mixed) => (Spec => []Kept(MatchedTrees))
<1>1. SUFFICES ASSUME ~CarryOn, ~Mixed PROVE Spec => []Kept(MatchedTrees)
  OBVIOUS
<1>2. Closed(MatchedTrees)
  BY <1>1, MatchedClosed
<1>3. Init => Kept(MatchedTrees)
  BY <1>2, KeptInit
<1>4. Kept(MatchedTrees) /\ [Next]_vars => Kept(MatchedTrees)'
  BY <1>1, <1>2, KeptNext
<1> QED
  BY <1>3, <1>4, PTL DEF Spec

\* An index in step has the entries of its documents and its unique values.
LEMMA KeptFollows ==
    Kept(MatchedTrees) => EntriesFollow /\ UniqueHolds
BY DEF Kept, MatchedTrees, Matched, EntriesFollow, UniqueHolds

\* The committed index follows the documents (Collection.write and remove,
\* Declare, drop, runBatch): when callers stop after an operation that failed
\* half way, and no document holds what a later index refuses.
THEOREM EntriesFollowAlways == (~CarryOn /\ ~Mixed) => (Spec => []EntriesFollow)
<1>1. SUFFICES ASSUME ~CarryOn, ~Mixed PROVE Spec => []EntriesFollow
  OBVIOUS
<1>2. Spec => []Kept(MatchedTrees)
  BY <1>1, MatchedAlways
<1> QED
  BY <1>2, KeptFollows, PTL

\* No two documents share a value of a unique index (checkUnique, and the
\* clash that buildIndexIn looks for), under the same conditions.
THEOREM UniqueHoldsAlways == (~CarryOn /\ ~Mixed) => (Spec => []UniqueHolds)
<1>1. SUFFICES ASSUME ~CarryOn, ~Mixed PROVE Spec => []UniqueHolds
  OBVIOUS
<1>2. Spec => []Kept(MatchedTrees)
  BY <1>1, MatchedAlways
<1> QED
  BY <1>2, KeptFollows, PTL

-----------------------------------------------------------------------------
(* Answers.                                                                *)

ValueIn(from, to, v) ==
    /\ IF from.exclusive THEN v > from.value ELSE v >= from.value
    /\ IF to.exclusive THEN v < to.value ELSE v <= to.value

\* Positions between keys say what the bounds say of the values.
LEMMA StretchIs ==
    ASSUME NEW from \in Bounds, NEW to \in Bounds
    PROVE  /\ \A v \in Nat : Within(from, to, v) <=> ValueIn(from, to, v)
           /\ Backwards(from, to) => \A v \in Nat : ~ValueIn(from, to, v)
<1>1. /\ from.value \in Nat /\ from.exclusive \in BOOLEAN
      /\ to.value \in Nat /\ to.exclusive \in BOOLEAN
  BY InputsAssumption DEF Bounds, Elements
<1> DEFINE fv == from.value  fe == from.exclusive  lo == Position(from, FALSE)
           tv == to.value  te == to.exclusive  hi == Position(to, TRUE)
<1>2. lo = 2 * fv + (IF FALSE # fe THEN 1 ELSE 0) /\ hi = 2 * tv + (IF TRUE # te THEN 1 ELSE 0)
  BY Zenon DEF Position
<1>3. /\ fe \in BOOLEAN /\ te \in BOOLEAN
      /\ \A v \in Nat : Within(from, to, v) <=> lo <= 2 * v /\ 2 * v < hi
      /\ \A v \in Nat : ValueIn(from, to, v) <=> /\ IF fe THEN v > fv ELSE v >= fv
                                               /\ IF te THEN v < tv ELSE v <= tv
      /\ Backwards(from, to) <=> lo > hi
  BY <1>1, Zenon DEF Within, ValueIn, Backwards
<1>4. fv \in Nat /\ tv \in Nat
  BY <1>1
<1> HIDE DEF fv, fe, lo, tv, te, hi
<1>5. /\ fe => FALSE # fe
      /\ ~fe => ~(FALSE # fe)
      /\ te => ~(TRUE # te)
      /\ ~te => TRUE # te
  BY <1>3, Zenon
<1>6. /\ fe => lo = 2 * fv + 1
      /\ ~fe => lo = 2 * fv + 0
      /\ te => hi = 2 * tv + 0
      /\ ~te => hi = 2 * tv + 1
  BY <1>2, <1>5, Zenon
<1>7. ASSUME NEW v \in Nat
      PROVE  /\ fe => (lo <= 2 * v <=> v > fv)
             /\ ~fe => (lo <= 2 * v <=> v >= fv)
             /\ te => (2 * v < hi <=> v < tv)
             /\ ~te => (2 * v < hi <=> v <= tv)
  BY <1>4, <1>6
<1>8. \A v \in Nat : Within(from, to, v) <=> ValueIn(from, to, v)
  BY <1>3, <1>7, Zenon
<1>9. ASSUME NEW v \in Nat PROVE ~(lo > hi /\ lo <= 2 * v /\ 2 * v < hi)
  <2>1. lo \in Int /\ hi \in Int
    BY <1>4, <1>6
  <2> QED
    BY <2>1
<1> QED
  BY <1>3, <1>8, <1>9, Zenon

\* A walk of an index in step finds the documents with a value in the stretch
\* (Collection.walk).
LEMMA WalkIs ==
    ASSUME NEW t \in MatchedTrees, t.index # Absent, NEW from \in Bounds, NEW to \in Bounds
    PROVE  walk(t, from, to) = Expected(t, from, to)
<1>0. t \in Sane /\ Matched(t)
  BY DEF MatchedTrees
<1>1. \A e : e \in t.entries <=> \E k \in Keys : \E v \in t.docs[k].f : e = <<t.cid, t.index, v, k>>
  BY <1>0, EntriesOf DEF Matched
<1>2. ASSUME NEW k \in Keys, NEW v \in t.docs[k].f PROVE k \in Stored(t) /\ v \in Nat /\ v \in UNION Elements
  <2>1. t.docs[k] \in Docs \cup {NoDoc} /\ t.docs[k] # NoDoc
    BY <1>0, <1>2 DEF Sane, Trees, NoDoc
  <2> QED
    BY <2>1, DocTypes DEF Stored
<1>3. \A row : row \in walk(t, from, to) <=> \E k \in Keys : \E v \in t.docs[k].f :
                  Within(from, to, v) /\ row = <<v, k>>
  <2>1. ASSUME NEW row, row \in walk(t, from, to)
        PROVE  \E k \in Keys : \E v \in t.docs[k].f : Within(from, to, v) /\ row = <<v, k>>
    <3>1. PICK e \in t.entries : Within(from, to, e[3]) /\ row = <<e[3], e[4]>>
      BY <2>1 DEF walk
    <3>2. PICK k \in Keys : \E v \in t.docs[k].f : e = <<t.cid, t.index, v, k>>
      BY <1>1, <3>1
    <3>a. PICK v \in t.docs[k].f : e = <<t.cid, t.index, v, k>>
      BY <3>2
    <3>3. e[3] = v /\ e[4] = k
      BY <3>a
    <3> QED
      BY <3>1, <3>3
  <2>2. ASSUME NEW k \in Keys, NEW v \in t.docs[k].f, Within(from, to, v)
        PROVE  <<v, k>> \in walk(t, from, to)
    <3> DEFINE e == <<t.cid, t.index, v, k>>
    <3>1. e \in t.entries
      BY <1>1, <2>2
    <3>2. e[1] = t.cid /\ e[2] = t.index /\ e[3] = v /\ e[4] = k
      OBVIOUS
    <3> HIDE DEF e
    <3> QED
      BY <2>2, <3>1, <3>2 DEF walk
  <2> QED
    BY <2>1, <2>2
<1>4. \A row : row \in Expected(t, from, to) <=> \E k \in Keys : \E v \in t.docs[k].f :
                  ValueIn(from, to, v) /\ row = <<v, k>>
  <2>1. ASSUME NEW row, row \in Expected(t, from, to)
        PROVE  \E k \in Keys : \E v \in t.docs[k].f : ValueIn(from, to, v) /\ row = <<v, k>>
    <3>1. row \in (UNION Elements) \X Stored(t) /\ row[1] \in t.docs[row[2]].f /\ ValueIn(from, to, row[1])
      BY <2>1 DEF Expected, ValueIn
    <3>2. row = <<row[1], row[2]>> /\ row[2] \in Keys
      BY <3>1 DEF Stored
    <3> QED
      BY <3>1, <3>2
  <2>2. ASSUME NEW k \in Keys, NEW v \in t.docs[k].f, ValueIn(from, to, v)
        PROVE  <<v, k>> \in Expected(t, from, to)
    BY <1>2, <2>2 DEF Expected, ValueIn
  <2> QED
    BY <2>1, <2>2
<1>5. \A row : row \in walk(t, from, to) <=> row \in Expected(t, from, to)
  BY <1>2, <1>3, <1>4, StretchIs
<1> QED
  BY <1>5

\* A scan of a matched tree is one of the stretch it was asked for.
LEMMA RunIs ==
    ASSUME NEW t \in MatchedTrees, t.index # Absent, NEW from \in Bounds, NEW to \in Bounds,
           NEW reverse \in BOOLEAN, NEW limit,
           NEW want, want = InOrder(Expected(t, from, to), reverse),
           NEW got, got = run(t, from, to, reverse, limit)
    PROVE  /\ got.refused => Len(want) > Room
           /\ \/ got.refused
              \/ /\ got.rows = SubSeq(want, 1, IF Len(want) > limit THEN limit ELSE Len(want))
                 /\ got.truncated = (Len(want) > limit)
<1>1. walk(t, from, to) = Expected(t, from, to)
  BY WalkIs
<1>2. {row \in walk(t, from, to) : t.docs[row[2]] = NoDoc} = {}
  BY <1>1 DEF Expected, Stored
<1> DEFINE few == SubSeq(want, 1, IF Len(want) > limit THEN limit ELSE Len(want))
           more == Len(want) > limit
<1>3. got = IF Len(want) > Room /\ limit > Room
            THEN [rows |-> <<>>, truncated |-> FALSE, refused |-> TRUE]
            ELSE [rows |-> few, truncated |-> more, refused |-> FALSE]
  BY <1>1, <1>2 DEF run
<1> HIDE DEF few, more
<1>4. CASE Len(want) > Room /\ limit > Room
  <2>1. got = [rows |-> <<>>, truncated |-> FALSE, refused |-> TRUE]
    BY <1>3, <1>4, Zenon
  <2> QED
    BY <1>4, <2>1
<1>5. CASE ~(Len(want) > Room /\ limit > Room)
  <2>1. got = [rows |-> few, truncated |-> more, refused |-> FALSE]
    BY <1>3, <1>5, Zenon
  <2>2. got.rows = few /\ got.truncated = more /\ ~got.refused
    BY <2>1
  <2> QED
    BY <2>2 DEF few, more
<1> QED
  BY <1>4, <1>5

\* A hash of a range covers every document, or is refused (hashRange).
LEMMA HashIs ==
    ASSUME NEW t, NEW limit, NEW h, h = hashRange(t, limit)
    PROVE  h.refused \/ DOMAIN h.digest = Stored(t)
BY DEF hashRange

\* Answers over an index in step are whole.
LEMMA KeptAnswers == Kept(MatchedTrees) => AnswersAreWhole
<1>1. SUFFICES ASSUME Kept(MatchedTrees), Settled PROVE AnswersAreWhole
  BY DEF AnswersAreWhole
<1>2. work \in MatchedTrees
  BY <1>1 DEF Kept, Settled
<1>3. ASSUME work.index # Absent, NEW from \in Bounds, NEW to \in Bounds,
             NEW reverse \in BOOLEAN, NEW limit \in Limits
      PROVE  LET want == InOrder(Expected(work, from, to), reverse)
                 got  == run(work, from, to, reverse, limit)
             IN  /\ Backwards(from, to) => Expected(work, from, to) = {}
                 /\ got.refused => Len(want) > Room
                 /\ got.refused \/
                    /\ got.rows = SubSeq(want, 1, IF Len(want) > limit THEN limit ELSE Len(want))
                    /\ got.truncated = (Len(want) > limit)
  <2> DEFINE want == InOrder(Expected(work, from, to), reverse)
             got == run(work, from, to, reverse, limit)
  <2>1. ASSUME Backwards(from, to), NEW row \in Expected(work, from, to) PROVE FALSE
    <3>1. ValueIn(from, to, row[1]) /\ row[1] \in UNION Elements
      BY <2>1 DEF Expected, ValueIn
    <3>2. row[1] \in Nat
      BY <3>1, InputsAssumption DEF Elements
    <3> QED
      BY <2>1, <3>1, <3>2, StretchIs
  <2>2. /\ got.refused => Len(want) > Room
        /\ \/ got.refused
           \/ /\ got.rows = SubSeq(want, 1, IF Len(want) > limit THEN limit ELSE Len(want))
              /\ got.truncated = (Len(want) > limit)
    <3> HIDE DEF want, got
    <3>1. want = InOrder(Expected(work, from, to), reverse) /\ got = run(work, from, to, reverse, limit)
      BY DEF want, got
    <3> QED
      BY <1>2, <1>3, <3>1, RunIs
  <2>3. Backwards(from, to) => Expected(work, from, to) = {}
    BY <2>1
  <2> QED
    BY <2>2, <2>3, Zenon
<1>4. \A limit \in Limits :
         hashRange(work, limit).refused \/ DOMAIN hashRange(work, limit).digest = Stored(work)
  BY HashIs
<1> QED
  BY <1>3, <1>4 DEF AnswersAreWhole

\* No answer is silently short (Scan, run, hashRange): in every state between
\* transactions, for callers that stop after an operation that failed half
\* way, over documents that every index describes.
THEOREM AnswersAreWholeAlways == (~CarryOn /\ ~Mixed) => (Spec => []AnswersAreWhole)
<1>1. SUFFICES ASSUME ~CarryOn, ~Mixed PROVE Spec => []AnswersAreWhole
  OBVIOUS
<1>2. Spec => []Kept(MatchedTrees)
  BY <1>1, MatchedAlways
<1> QED
  BY <1>2, KeptAnswers, PTL

-----------------------------------------------------------------------------
(* Removing a stretch.                                                     *)

\* Every operation, failed ones included, hands back a well-formed tree.
LEMMA OperationSane ==
    ASSUME NEW t \in Sane, NEW o, Operation(t, o)
    PROVE  o \in Outcomes
<1>1. ASSUME NEW k \in Keys, NEW d, Writable(t, d), o = write(t, k, d) PROVE o \in Outcomes
  BY <1>1, WriteIs DEF Writable
<1>2. ASSUME NEW k \in Keys, o = remove(t, k) PROVE o \in Outcomes
  BY <1>2, RemoveIs
<1>3. ASSUME NEW from, NEW limit, o = deleteRange(t, from, limit) PROVE o \in Outcomes
  <2>1. \A u \in Sane : \A k \in Keys : remove(u, k).tree \in Sane
    BY RemoveIs DEF Outcomes
  <2> QED
    BY <1>3, <2>1, DeleteRangeKeeps
<1>4. CASE o = Ok(t, 0) \/ o = Failed(t)
  BY <1>4, OutcomeTypes
<1> QED
  BY <1>1, <1>2, <1>3, <1>4 DEF Operation

\* A declaration hands back a well-formed tree.
LEMMA DeclareSane ==
    ASSUME NEW t \in Sane, NEW i \in BOOLEAN, NEW q \in BOOLEAN, NEW r \in BOOLEAN,
           MayDeclare(t, i, r), declare(t, i, q, r).ok
    PROVE  declare(t, i, q, r).tree \in Sane
<1>1. CASE t.cid = 0
  <2>1. declare(t, i, q, r) = Created(t, i, q, r) /\ Free(t)
    BY <1>1 DEF declare, MayDeclare, Free
  <2>2. BareAs(t, Created(t, i, q, r).tree)
    BY <2>1, CreatedIs
  <2> QED
    BY <2>1, <2>2 DEF BareAs
<1>2. CASE t.cid # 0
  <2>1. declare(t, i, q, r) = Redeclared(t, i, q, r)
    BY <1>2 DEF declare
  <2>2. Redeclared(t, i, q, r) \in Outcomes
    BY <1>2, <2>1, RedeclaredIs DEF MayDeclare
  <2> QED
    BY <2>1, <2>2 DEF Outcomes
<1> QED
  BY <1>1, <1>2

\* No operation, declaration or drop makes an ill-formed tree, even when it fails.
LEMMA SaneClosed == ClosedAll(Sane)
<1>1. \A t \in Sane : \A o : Operation(t, o) => o.tree \in Sane
  BY OperationSane DEF Outcomes
<1>2. \A t \in Sane : t.cid # 0 => drop(t) \in Sane
  BY DropIs
<1> QED
  BY <1>1, <1>2, EmptyTreeIs, DeclareSane DEF ClosedAll, Closed

\* Both trees are always well formed, whatever callers do.
LEMMA SaneAlways == Spec => []BothIn(Sane)
<1>1. Init => BothIn(Sane)
  BY SaneClosed, BothInInit
<1>2. BothIn(Sane) /\ [Next]_vars => BothIn(Sane)'
  BY SaneClosed, BothInNext
<1> QED
  BY <1>1, <1>2, PTL DEF Spec

\* Removing keys one after another takes those documents and no others.
LEMMA RemoveAllTakes ==
    ASSUME NEW t \in Sane, NEW ks, NEW o, o = RemoveAll(t, ks), o.ok
    PROVE  \A k \in Keys : o.tree.docs[k] = IF k \in ks THEN NoDoc ELSE t.docs[k]
<1>0. MaxKey \in Nat
  BY BoundsAssumption
<1>1. PICK f \in [0 .. MaxKey -> Outcomes] :
              /\ f[0] = Ok(t, 0)
              /\ \A n \in 1 .. MaxKey : f[n] = RemoveStep(f[n - 1], n, ks)
              /\ RemoveAll(t, ks) = f[MaxKey]
  BY RemoveAllRuns
<1> DEFINE Taken(n) == \A k \in Keys :
                          f[n].tree.docs[k] = IF k \in ks /\ k <= n THEN NoDoc ELSE t.docs[k]
           S == {n \in 0 .. MaxKey : f[n].ok => Taken(n)}
<1>2. 0 \in S
  <2>1. f[0].tree = t
    BY <1>1, OutcomeTypes
  <2>2. \A k \in Keys : ~(k <= 0)
    BY DEF Keys
  <2>3. Taken(0)
    BY <2>1, <2>2
  <2> QED
    BY <1>0, <2>3
<1>3. ASSUME NEW n \in 1 .. MaxKey, n - 1 \in S PROVE n \in S
  <2> DEFINE was == f[n - 1]
  <2>1. was \in Outcomes /\ f[n] = RemoveStep(was, n, ks) /\ n \in Keys
    BY <1>0, <1>1 DEF Keys
  <2>2. was.ok => Taken(n - 1)
    BY <1>3
  <2>3. \A k \in Keys : k \in Int /\ (k <= n <=> k <= n - 1 \/ k = n)
    BY <1>0 DEF Keys
  <2>4. CASE n \in ks /\ was.ok
    <3>1. f[n].tree = remove(was.tree, n).tree /\ f[n].ok = remove(was.tree, n).ok
      BY <2>1, <2>4, RemoveStepIs
    <3>2. was.tree \in Sane
      BY <2>1 DEF Outcomes
    <3>3. ASSUME f[n].ok PROVE Taken(n)
      <4>1. was.tree.cid # 0 /\ f[n].tree = Without(was.tree, n)
        BY <2>1, <3>1, <3>2, <3>3, RemoveIs
      <4>2. f[n].tree.docs = [was.tree.docs EXCEPT ![n] = NoDoc]
        BY <2>1, <3>2, <4>1, WithoutIs
      <4>3. was.tree.docs \in [Keys -> Docs \cup {NoDoc}]
        BY <3>2 DEF Sane, Trees
      <4>4. \A k \in Keys : was.tree.docs[k] = IF k \in ks /\ k <= n - 1 THEN NoDoc ELSE t.docs[k]
        BY <2>2, <2>4
      <4> HIDE DEF was
      <4>5. ASSUME NEW k \in Keys PROVE f[n].tree.docs[k] = IF k \in ks /\ k <= n THEN NoDoc ELSE t.docs[k]
        <5>1. CASE k = n
          BY <2>1, <2>3, <2>4, <4>2, <4>3, <5>1
        <5>2. CASE k # n
          BY <2>3, <4>2, <4>3, <4>4, <5>2
        <5> QED
          BY <5>1, <5>2
      <4> QED
        BY <4>5
    <3> QED
      BY <1>0, <3>3
  <2>5. CASE ~(n \in ks /\ was.ok)
    <3>1. f[n] = was
      BY <2>1, <2>5, RemoveStepIs
    <3>2. ASSUME was.ok PROVE Taken(n)
      BY <2>2, <2>3, <2>5, <3>1, <3>2
    <3> QED
      BY <1>0, <3>1, <3>2
  <2> QED
    BY <2>4, <2>5
<1>4. MaxKey \in S
  <2> HIDE DEF S
  <2>1. \A k \in 1 .. MaxKey : k - 1 \in S => k \in S
    BY <1>3
  <2>2. \A k \in 0 .. MaxKey : k \in S
    BY <1>0, <1>2, <2>1, KeyByKey
  <2> QED
    BY <1>0, <2>2
<1>5. \A k \in Keys : k <= MaxKey
  BY <1>0 DEF Keys
<1> QED
  BY <1>1, <1>4, <1>5

\* There are MaxKey keys.
LEMMA KeysFinite ==
    IsFiniteSet(Keys) /\ Cardinality(Keys) = MaxKey
<1>1. MaxKey \in Nat /\ 1 \in Int /\ MaxKey \in Int
  BY BoundsAssumption
<1>2. IsFiniteSet(1 .. MaxKey) /\ Cardinality(1 .. MaxKey) = IF 1 > MaxKey THEN 0 ELSE MaxKey - 1 + 1
  BY <1>1, FS_Interval
<1>3. (IF 1 > MaxKey THEN 0 ELSE MaxKey - 1 + 1) = MaxKey
  BY <1>1
<1> QED
  BY <1>2, <1>3 DEF Keys

\* A set of keys is finite and holds at most MaxKey.
LEMMA KeySets ==
    ASSUME NEW T, T \subseteq Keys
    PROVE  IsFiniteSet(T) /\ Cardinality(T) \in Nat /\ Cardinality(T) <= MaxKey
BY KeysFinite, FS_Subset, FS_CardinalityType

\* A set of keys has a greatest one: where a page stopped.
LEMMA Greatest ==
    ASSUME NEW T, T \subseteq Keys, T # {}
    PROVE  Max(T) \in T /\ \A j \in T : j <= Max(T)
<1>0. MaxKey \in Nat /\ \A j \in T : j \in Nat /\ j <= MaxKey
  BY BoundsAssumption DEF Keys
<1> DEFINE D == {MaxKey - j : j \in T}
<1>1. D \subseteq Nat /\ D # {}
  BY <1>0
<1>2. PICK m \in D : \A x \in D : m <= x
  BY <1>1, LeastNatural
<1>3. PICK k \in T : m = MaxKey - k
  BY <1>2
<1>4. ASSUME NEW j \in T PROVE k >= j
  <2>1. MaxKey - k <= MaxKey - j
    BY <1>2, <1>3
  <2> QED
    BY <1>0, <2>1
<1>5. Max(T) \in T /\ \A j \in T : Max(T) >= j
  BY <1>4, Zenon DEF Max
<1> QED
  BY <1>0, <1>5

\* The keys a deleteRange takes are the first ones after its cursor, as many
\* as its limit allows.
LEMMA PageIs ==
    ASSUME NEW t, NEW from \in Nat, NEW limit \in Nat, NEW p, p = PageOf(t, from, limit)
    PROVE  /\ p.from = from /\ p.limit = limit
           /\ Removing(t, from, limit) \subseteq RangeAfter(t, from)
           /\ Cardinality(Removing(t, from, limit)) <= limit
           /\ \A k \in Removing(t, from, limit) : from < k /\ k <= p.key
           /\ \A k \in RangeAfter(t, from) \ Removing(t, from, limit) : p.more /\ k > p.key
<1> DEFINE all == RangeAfter(t, from)
           ks == Removing(t, from, limit)
           Below(k) == {m \in all : m < k}
<1>1. /\ p.from = from /\ p.limit = limit
      /\ p.key = IF ks = {} THEN 0 ELSE Max(ks)
      /\ p.more = (Cardinality(all) > limit)
  BY Zenon DEF PageOf
<1>2. all \subseteq Keys /\ \A k \in all : from < k
  BY DEF RangeAfter, Stored, Keys
<1>3. \A k : k \in ks <=> k \in all /\ Cardinality(Below(k)) < limit
  BY DEF Removing
<1> HIDE DEF all, ks
<1>4. \A k \in Keys : k \in Nat /\ k > 0
  BY DEF Keys
<1>5. \A k : /\ Below(k) \subseteq Keys
             /\ IsFiniteSet(Below(k)) /\ Cardinality(Below(k)) \in Nat
  BY <1>2, KeySets
<1>6. ks \subseteq Keys /\ IsFiniteSet(ks) /\ IsFiniteSet(all) /\ Cardinality(all) \in Nat
  BY <1>2, <1>3, KeySets
<1>7. Cardinality(ks) <= limit
  <2>1. CASE ks = {}
    BY <2>1, FS_EmptySet
  <2>2. CASE ks # {}
    <3> DEFINE top == Max(ks)
    <3>1. top \in ks /\ \A j \in ks : j <= top
      BY <1>6, <2>2, Greatest
    <3> HIDE DEF top
    <3>2. ks \subseteq Below(top) \cup {top}
      <4>1. ASSUME NEW j \in ks PROVE j \in all /\ (j = top \/ j < top)
        <5>1. j \in all
          BY <1>3
        <5>2. j \in Nat /\ top \in Nat
          BY <1>4, <1>6, <3>1
        <5>3. j <= top
          BY <3>1
        <5> QED
          BY <5>1, <5>2, <5>3
      <4> QED
        BY <4>1, Zenon
    <3>3. top \notin Below(top)
      BY <1>4, <1>6, <3>1
    <3> DEFINE b == Below(top)
    <3>4. IsFiniteSet(b) /\ Cardinality(b) \in Nat /\ Cardinality(b) < limit /\ top \notin b /\ ks \subseteq b \cup {top}
      BY <1>3, <1>5, <3>1, <3>2, <3>3
    <3> HIDE DEF b
    <3>5. IsFiniteSet(b \cup {top}) /\ Cardinality(b \cup {top}) = Cardinality(b) + 1
      BY <3>4, FS_AddElement
    <3>6. Cardinality(ks) <= Cardinality(b \cup {top})
      BY <3>4, <3>5, FS_Subset
    <3>7. Cardinality(ks) \in Nat
      BY <1>6, FS_CardinalityType
    <3> QED
      BY <3>4, <3>5, <3>6, <3>7
  <2> QED
    BY <2>1, <2>2
<1>8. ASSUME NEW k \in ks PROVE from < k /\ k <= p.key
  BY <1>1, <1>2, <1>3, <1>6, <1>8, Greatest
<1>9. ASSUME NEW k \in all \ ks PROVE Cardinality(all) > limit /\ k > p.key
  <2>1. k \in Keys /\ ~(Cardinality(Below(k)) < limit)
    BY <1>2, <1>3, <1>9
  <2>2. Cardinality(all) > limit
    <3> DEFINE b == Below(k)
    <3>a. b \subseteq all /\ Cardinality(b) \in Nat /\ ~(Cardinality(b) < limit)
      BY <1>5, <2>1
    <3>b. k \in all /\ ~(k < k)
      BY <1>4, <2>1, <1>9
    <3>c. k \notin b
      BY <3>b
    <3>1. b \subseteq all /\ b # all /\ Cardinality(b) >= limit /\ Cardinality(b) \in Nat
      <4> HIDE DEF b
      <4> QED
        BY <3>a, <3>b, <3>c
    <3> HIDE DEF b
    <3>2. Cardinality(b) <= Cardinality(all) /\ (Cardinality(b) = Cardinality(all) => b = all)
      BY <1>6, <3>1, FS_Subset
    <3> QED
      BY <1>6, <3>1, <3>2
  <2>3. ASSUME NEW j \in ks PROVE j < k
    <3>1. j \in Keys /\ Cardinality(Below(j)) < limit
      BY <1>3, <1>6
    <3>2. ASSUME k < j PROVE FALSE
      <4> DEFINE b == Below(k)  c == Below(j)
      <4>1. b \subseteq c
        BY <1>2, <1>4, <2>1, <3>1, <3>2
      <4>2. IsFiniteSet(c) /\ Cardinality(c) \in Nat /\ Cardinality(b) \in Nat
            /\ Cardinality(c) < limit /\ ~(Cardinality(b) < limit)
        BY <1>5, <2>1, <3>1
      <4> HIDE DEF b, c
      <4>3. Cardinality(b) <= Cardinality(c)
        BY <4>1, <4>2, FS_Subset
      <4> QED
        BY <4>2, <4>3
    <3>3. j # k
      BY <1>9
    <3> QED
      BY <1>4, <2>1, <3>1, <3>2, <3>3
  <2>4. k > p.key
    <3>1. CASE ks = {}
      BY <1>1, <1>4, <2>1, <3>1
    <3>2. CASE ks # {}
      <4>1. Max(ks) \in ks
        BY <1>6, <3>2, Greatest
      <4>2. p.key < k /\ p.key \in Keys
        BY <1>1, <1>6, <2>3, <3>2, <4>1
      <4> QED
        BY <1>4, <2>1, <4>2
    <3> QED
      BY <3>1, <3>2
  <2> QED
    BY <2>2, <2>4
<1> QED
  BY <1>1, <1>3, <1>7, <1>8, <1>9 DEF ks, all

\* The page that a step leaves is that of a deleteRange that went through.
LEMMA PageAfter ==
    ASSUME work \in Sane, Next, page' # NoPage
    PROVE  \E from \in Keys \cup {0} : \E limit \in Limits :
              LET o == deleteRange(work, from, limit)
              IN  o.ok /\ work' = o.tree /\ page' = PageOf(work, from, limit)
<1>1. PICK from \in Keys \cup {0}, limit \in Limits : DeleteRange(from, limit)
  BY DEF Next, Put, Insert, Update, Delete, Check, Run, BatchBegins, BatchEnds, Declare, Drop, Restart
<1> DEFINE o == deleteRange(work, from, limit)
<1>2. (perform(o) \/ step(o)) /\ page' = IF o.ok THEN PageOf(work, from, limit) ELSE NoPage
  BY <1>1 DEF DeleteRange
<1> HIDE DEF o
<1>3. o.ok /\ page' = PageOf(work, from, limit)
  BY <1>2
<1>4. work' = o.tree
  BY <1>2, <1>3 DEF perform, step, Commits
<1> QED
  BY <1>3, <1>4 DEF o

\* A page removes at most its limit, and everything up to where it stopped.
LEMMA PagesNext ==
    ASSUME work \in Sane, Next, page' # NoPage
    PROVE  LET gone == Stored(work) \ Stored(work)'
           IN  /\ Cardinality(gone) <= page'.limit
               /\ \A k \in gone : page'.from < k /\ k <= page'.key
               /\ \A k \in Stored(work)' : k > page'.from => (page'.more /\ k > page'.key)
               /\ \A k \in Stored(work)' : work.docs[k] = work'.docs[k]
<1>1. PICK from \in Keys \cup {0}, limit \in Limits :
         LET o == deleteRange(work, from, limit)
         IN  o.ok /\ work' = o.tree /\ page' = PageOf(work, from, limit)
  BY PageAfter
<1> DEFINE o == deleteRange(work, from, limit)
           ks == Removing(work, from, limit)
           all == RangeAfter(work, from)
<1>2. from \in Nat /\ limit \in Nat
  BY BoundsAssumption DEF Keys
<1>3. o = RemoveAll(work, ks)
  <2>1. ~Failed(work).ok
    BY OutcomeTypes
  <2> QED
    BY <1>1, <2>1 DEF deleteRange
<1>4. \A k \in Keys : work'.docs[k] = IF k \in ks THEN NoDoc ELSE work.docs[k]
  BY <1>1, <1>3, RemoveAllTakes
<1>5. /\ page'.from = from /\ page'.limit = limit
      /\ ks \subseteq all /\ Cardinality(ks) <= limit
      /\ \A k \in ks : from < k /\ k <= page'.key
      /\ \A k \in all \ ks : page'.more /\ k > page'.key
  BY <1>1, <1>2, PageIs
<1>6. all = {k \in Stored(work) : k > from}
  BY DEF RangeAfter
<1> HIDE DEF o, ks, all
<1>7. /\ Stored(work) = {k \in Keys : work.docs[k] # NoDoc}
      /\ Stored(work)' = {k \in Keys : work'.docs[k] # NoDoc}
  BY DEF Stored
<1>8. Stored(work) \ Stored(work)' = ks
  BY <1>4, <1>5, <1>6, <1>7
<1>9. \A k \in Stored(work)' : k \in Stored(work) /\ k \notin ks /\ work.docs[k] = work'.docs[k]
  BY <1>4, <1>7
<1> QED
  BY <1>5, <1>6, <1>8, <1>9

\* A caller that pages on from the key a deleteRange answered misses nothing
\* (runDeleteRange), whatever else callers do.
THEOREM PagesCoverAlways == Spec => PagesCover
<1>1. BothIn(Sane) /\ [Next]_vars =>
         [page' # NoPage =>
            LET gone == Stored(work) \ Stored(work)'
            IN  /\ Cardinality(gone) <= page'.limit
                /\ \A k \in gone : page'.from < k /\ k <= page'.key
                /\ \A k \in Stored(work)' : k > page'.from => (page'.more /\ k > page'.key)
                /\ \A k \in Stored(work)' : work.docs[k] = work'.docs[k]]_vars
  BY PagesNext DEF BothIn
<1> QED
  BY <1>1, SaneAlways, PTL DEF Spec, PagesCover

=============================================================================
