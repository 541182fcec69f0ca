------------------------- MODULE CollectionsTotals -------------------------
(***************************************************************************)
(* What Collections keeps of its counts and sums: its types, whatever      *)
(* callers do, and the totals of a rollup.                                 *)
(***************************************************************************)
EXTENDS CollectionsProofs

-----------------------------------------------------------------------------
(* Counts and sums over the keys.                                          *)

Numbers(v) == v \in [Keys -> Int]

\* Sum adds the values key by key.
LEMMA SumRuns ==
    ASSUME NEW v, Numbers(v)
    PROVE  \E f \in [0 .. MaxKey -> Int] :
              /\ f[0] = 0
              /\ \A n \in 1 .. MaxKey : f[n] = f[n - 1] + v[n]
              /\ Sum(v) = f[MaxKey]
<1>0. MaxKey \in Nat
  BY BoundsAssumption
<1>1. \A n \in 1 .. MaxKey : v[n] \in Int
  BY DEF Numbers, Keys
<1> DEFINE D == [n \in 1 .. MaxKey |-> [x \in Int |-> x + v[n]]]
<1>2. Rule(MaxKey, Int, D)
  BY <1>1 DEF Rule
<1>3. PICK h \in [0 .. MaxKey -> Int] :
         h[0] = 0 /\ \A n \in 1 .. MaxKey : h[n] = D[n][h[n - 1]]
  <2>1. PICK V, a : V = Int /\ a = 0
    OBVIOUS
  <2>2. a \in V /\ Rule(MaxKey, V, D)
    BY <1>2, <2>1
  <2> HIDE DEF D
  <2>3. \E f \in [0 .. MaxKey -> V] : f[0] = a /\ \A n \in 1 .. MaxKey : f[n] = D[n][f[n - 1]]
    BY <1>0, <2>2, Running
  <2> QED
    BY <2>1, <2>3
<1>4. ASSUME NEW n \in 1 .. MaxKey PROVE h[n] = h[n - 1] + v[n]
  <2>1. h[n - 1] \in Int
    BY <1>0
  <2> QED
    BY <1>3, <2>1
<1> HIDE DEF D
<1> DEFINE Body(x, n) == IF n = 0 THEN 0 ELSE x[n - 1] + v[n]
           F == CHOOSE x : x = [n \in 0 .. MaxKey |-> Body(x, n)]
<1>5. h = [n \in 0 .. MaxKey |-> Body(h, n)]
  <2>1. \A n \in 0 .. MaxKey : h[n] = Body(h, n)
    BY <1>0, <1>3, <1>4
  <2> HIDE DEF Body
  <2> QED
    BY <2>1
<1>6. F = [n \in 0 .. MaxKey |-> Body(F, n)]
  <2> HIDE DEF Body
  <2> QED
    BY <1>5
<1>7. Sum(v) = F[MaxKey]
  BY Zenon DEF Sum
<1> HIDE DEF F
<1>8. F[0] = 0 /\ \A n \in 1 .. MaxKey : F[n] = F[n - 1] + v[n]
  BY <1>0, <1>6
<1>9. \A n \in 0 .. MaxKey : F[n] = h[n]
  <2> DEFINE S == {n \in 0 .. MaxKey : F[n] = h[n]}
  <2>1. 0 \in S
    BY <1>0, <1>3, <1>8
  <2>2. \A n \in 1 .. MaxKey : n - 1 \in S => n \in S
    BY <1>4, <1>8
  <2> HIDE DEF S
  <2>3. \A n \in 0 .. MaxKey : n \in S
    BY <2>1, <2>2, <1>0, KeyByKey
  <2> QED
    BY <2>3 DEF S
<1>10. Sum(v) = h[MaxKey]
  BY <1>0, <1>7, <1>9
<1> QED
  BY <1>3, <1>4, <1>10

\* A sum is a number.
LEMMA SumTypes == ASSUME NEW v, Numbers(v) PROVE Sum(v) \in Int
BY SumRuns, BoundsAssumption

\* A sum of zeros is zero.
LEMMA SumOfNone ==
    ASSUME NEW v, Numbers(v), \A k \in Keys : v[k] = 0
    PROVE  Sum(v) = 0
<1>0. MaxKey \in Nat
  BY BoundsAssumption
<1>1. PICK f \in [0 .. MaxKey -> Int] :
              /\ f[0] = 0
              /\ \A n \in 1 .. MaxKey : f[n] = f[n - 1] + v[n]
              /\ Sum(v) = f[MaxKey]
  BY SumRuns
<1> DEFINE S == {n \in 0 .. MaxKey : f[n] = 0}
<1>2. 0 \in S /\ \A n \in 1 .. MaxKey : n - 1 \in S => n \in S
  <2>1. 0 \in S
    BY <1>0, <1>1
  <2>2. ASSUME NEW n \in 1 .. MaxKey, n - 1 \in S PROVE n \in S
    <3>1. f[n] = f[n - 1] + v[n] /\ f[n - 1] = 0 /\ v[n] = 0
      BY <1>1, <2>2 DEF Keys
    <3>2. f[n] = 0 /\ n \in 0 .. MaxKey
      BY <3>1, <1>0
    <3> QED
      BY <3>2
  <2> QED
    BY <2>1, <2>2
<1>3. \A n \in 0 .. MaxKey : n \in S
  <2> HIDE DEF S
  <2> QED
    BY <1>0, <1>2, KeyByKey
<1> QED
  BY <1>0, <1>1, <1>3

\* One value changes the sum by as much.
LEMMA SumOfOneMore ==
    ASSUME NEW v, Numbers(v), NEW w, Numbers(w), NEW k \in Keys,
           \A j \in Keys : j # k => w[j] = v[j]
    PROVE  Sum(w) = Sum(v) - v[k] + w[k]
<1>0. MaxKey \in Nat /\ v[k] \in Int /\ w[k] \in Int /\ k \in Int /\ 1 <= k /\ k <= MaxKey
  BY BoundsAssumption DEF Numbers, Keys
<1>1. PICK f \in [0 .. MaxKey -> Int] :
              /\ f[0] = 0
              /\ \A n \in 1 .. MaxKey : f[n] = f[n - 1] + v[n]
              /\ Sum(v) = f[MaxKey]
  BY SumRuns
<1>2. PICK g \in [0 .. MaxKey -> Int] :
              /\ g[0] = 0
              /\ \A n \in 1 .. MaxKey : g[n] = g[n - 1] + w[n]
              /\ Sum(w) = g[MaxKey]
  BY SumRuns
<1> DEFINE S == {n \in 0 .. MaxKey : IF n < k THEN g[n] = f[n] ELSE g[n] = f[n] - v[k] + w[k]}
<1>3. 0 \in S
  BY <1>0, <1>1, <1>2
<1>4. ASSUME NEW n \in 1 .. MaxKey, n - 1 \in S PROVE n \in S
  <2>1. /\ f[n] = f[n - 1] + v[n] /\ g[n] = g[n - 1] + w[n]
        /\ f[n - 1] \in Int /\ g[n - 1] \in Int /\ n \in Int /\ n \in Keys
    BY <1>0, <1>1, <1>2 DEF Keys
  <2>2. v[n] \in Int /\ w[n] \in Int
    BY <2>1 DEF Numbers
  <2>3. CASE n < k
    <3>1. w[n] = v[n] /\ g[n - 1] = f[n - 1]
      BY <1>0, <1>4, <2>1, <2>3
    <3>2. g[n] = f[n]
      BY <2>1, <2>2, <3>1
    <3> QED
      BY <2>3, <3>2
  <2>4. CASE n = k
    <3>1. g[n - 1] = f[n - 1]
      BY <1>0, <1>4, <2>1, <2>4
    <3>2. g[n] = f[n] - v[k] + w[k]
      <4>1. v[n] = v[k] /\ w[n] = w[k]
        BY <2>4
      <4>2. g[n] = f[n] - v[n] + w[n]
        BY <2>1, <2>2, <3>1
      <4> QED
        BY <4>1, <4>2
    <3> QED
      BY <1>0, <2>4, <3>2
  <2>5. CASE n > k
    <3>1. w[n] = v[n] /\ g[n - 1] = f[n - 1] - v[k] + w[k]
      BY <1>0, <1>4, <2>1, <2>5
    <3>2. g[n] = f[n] - v[k] + w[k]
      <4>2. g[n] = (f[n - 1] - v[k] + w[k]) + v[n]
        BY <2>1, <3>1, Zenon
      <4>3. (f[n - 1] - v[k] + w[k]) + v[n] = (f[n - 1] + v[n]) - v[k] + w[k]
        <5> DEFINE a == f[n - 1]  b == v[n]  c == v[k]  d == w[k]
        <5>1. a \in Int /\ b \in Int /\ c \in Int /\ d \in Int
          BY <1>0, <2>1, <2>2
        <5> HIDE DEF a, b, c, d
        <5>2. (a - c + d) + b = (a + b) - c + d
          BY <5>1
        <5> QED
          BY <5>2 DEF a, b, c, d
      <4> QED
        BY <2>1, <4>2, <4>3, Zenon
    <3> QED
      BY <1>0, <2>1, <2>5, <3>2
  <2> QED
    BY <1>0, <2>1, <2>3, <2>4, <2>5
<1>5. MaxKey \in S
  <2> HIDE DEF S
  <2>1. \A n \in 1 .. MaxKey : n - 1 \in S => n \in S
    BY <1>4
  <2>2. \A n \in 0 .. MaxKey : n \in S
    BY <1>0, <1>3, <2>1, KeyByKey
  <2> QED
    BY <1>0, <2>2
<1> QED
  BY <1>0, <1>1, <1>2, <1>5

\* The documents of a group, and what they come to.
Group(t, h) == {k \in Stored(t) : t.docs[k].h = h}

Values(t, ks) == [k \in Keys |-> IF k \in ks THEN t.docs[k].g ELSE 0]

One(d, h) == IF d.h = h THEN 1 ELSE 0

Part(d, h) == IF d.h = h THEN d.g ELSE 0

\* What the documents of some keys add up to is a number, and one a float holds
\* exactly when SumsFit.
LEMMA ValuesTypes ==
    ASSUME NEW t \in Sane, NEW ks
    PROVE  /\ Values(t, ks) \in [Keys -> {d.g : d \in Inputs} \cup {0}]
           /\ Numbers(Values(t, ks))
           /\ SumOf(t, ks) = Sum(Values(t, ks))
           /\ SumOf(t, ks) \in Int
           /\ SumsFit => SumOf(t, ks) \in -Exact .. Exact
<1>1. ASSUME NEW k \in Keys PROVE t.docs[k].g \in {d.g : d \in Inputs} \cup {0}
  <2>1. t.docs[k] \in Docs \cup {NoDoc}
    BY DEF Sane, Trees
  <2> QED
    BY <2>1 DEF Docs, NoDoc, Odd
<1>2. Values(t, ks) \in [Keys -> {d.g : d \in Inputs} \cup {0}]
  BY <1>1 DEF Values
<1>3. {d.g : d \in Inputs} \cup {0} \subseteq Int
  BY InputsAssumption
<1>4. Numbers(Values(t, ks))
  BY <1>2, <1>3 DEF Numbers
<1>5. SumOf(t, ks) = Sum(Values(t, ks))
  BY Zenon DEF SumOf, Values
<1>6. Sum(Values(t, ks)) \in Int
  BY <1>4, SumTypes
<1> QED
  BY <1>2, <1>4, <1>5, <1>6 DEF SumsFit

\* A group is a finite set of keys, and an empty one adds up to zero.
LEMMA GroupTypes ==
    ASSUME NEW t \in Sane, NEW h
    PROVE  /\ Group(t, h) \subseteq Keys /\ IsFiniteSet(Group(t, h))
           /\ Cardinality(Group(t, h)) \in Nat /\ Cardinality(Group(t, h)) <= MaxKey
           /\ Cardinality(Group(t, h)) = 0 => SumOf(t, Group(t, h)) = 0
<1>1. Group(t, h) \subseteq Keys
  BY DEF Group, Stored
<1>2. /\ IsFiniteSet(Group(t, h)) /\ Cardinality(Group(t, h)) \in Nat
      /\ Cardinality(Group(t, h)) <= MaxKey
  BY <1>1, KeySets
<1>3. ASSUME Cardinality(Group(t, h)) = 0 PROVE SumOf(t, Group(t, h)) = 0
  <2>1. Group(t, h) = {}
    BY <1>2, <1>3, FS_EmptySet
  <2>2. \A k \in Keys : Values(t, Group(t, h))[k] = 0
    BY <2>1 DEF Values
  <2> QED
    BY <2>2, ValuesTypes, SumOfNone
<1> QED
  BY <1>1, <1>2, <1>3

\* Changing one document changes the count and the sum of a group by what it
\* was and what it is.
LEMMA GroupChanges ==
    ASSUME NEW t \in Sane, NEW u \in Sane, NEW k \in Keys, NEW h \in Groups,
           \A j \in Keys : j # k => u.docs[j] = t.docs[j]
    PROVE  /\ Cardinality(Group(u, h)) =
                 Cardinality(Group(t, h)) - One(t.docs[k], h) + One(u.docs[k], h)
           /\ SumOf(u, Group(u, h)) = SumOf(t, Group(t, h)) - Part(t.docs[k], h) + Part(u.docs[k], h)
<1>1. h # 0
  BY InputsAssumption DEF Groups
<1>2. /\ k \in Group(t, h) <=> t.docs[k].h = h
      /\ k \in Group(u, h) <=> u.docs[k].h = h
  BY <1>1 DEF Group, Stored, NoDoc
<1>3. \A j \in Keys : j # k => (j \in Group(u, h) <=> j \in Group(t, h))
  BY DEF Group, Stored
<1> DEFINE a == Group(t, h)
           b == Group(u, h)
<1>4. a \subseteq Keys /\ b \subseteq Keys /\ IsFiniteSet(a) /\ IsFiniteSet(b)
      /\ Cardinality(a) \in Nat /\ Cardinality(b) \in Nat
  BY GroupTypes
<1>5. Cardinality(b) = Cardinality(a) - One(t.docs[k], h) + One(u.docs[k], h)
  <2> HIDE DEF a, b
  <2>1. a \ {k} = b \ {k}
    BY <1>3, <1>4 DEF a, b
  <2>2. Cardinality(a \ {k}) = IF k \in a THEN Cardinality(a) - 1 ELSE Cardinality(a)
    BY <1>4, FS_RemoveElement
  <2>3. Cardinality(b \ {k}) = IF k \in b THEN Cardinality(b) - 1 ELSE Cardinality(b)
    BY <1>4, FS_RemoveElement
  <2>4. One(t.docs[k], h) = (IF k \in a THEN 1 ELSE 0) /\ One(u.docs[k], h) = (IF k \in b THEN 1 ELSE 0)
    BY <1>2 DEF One, a, b
  <2> DEFINE ca == Cardinality(a)  cb == Cardinality(b)  c == Cardinality(a \ {k})
             oa == One(t.docs[k], h)  ob == One(u.docs[k], h)
  <2>5. ca \in Nat /\ cb \in Nat /\ oa \in {0, 1} /\ ob \in {0, 1}
    BY <1>4, <2>4
  <2>6. c = ca - oa /\ c = cb - ob
    <3>1. c = IF k \in b THEN cb - 1 ELSE cb
      BY <2>1, <2>3
    <3>2. c = (IF k \in a THEN ca - 1 ELSE ca) /\ ca - 0 = ca /\ cb - 0 = cb
      BY <2>2, <2>5
    <3> HIDE DEF ca, cb, c
    <3> QED
      BY <2>4, <3>1, <3>2, Zenon
  <2> HIDE DEF ca, cb, c, oa, ob
  <2>7. cb = ca - oa + ob
    BY <2>5, <2>6
  <2> QED
    BY <2>7 DEF ca, cb, oa, ob
<1>6. SumOf(u, b) = SumOf(t, a) - Part(t.docs[k], h) + Part(u.docs[k], h)
  <2> DEFINE v == Values(t, a)
             w == Values(u, b)
  <2>1. Numbers(v) /\ Numbers(w) /\ SumOf(t, a) = Sum(v) /\ SumOf(u, b) = Sum(w)
    BY ValuesTypes
  <2>2. v[k] = Part(t.docs[k], h) /\ w[k] = Part(u.docs[k], h)
    BY <1>2 DEF Values, Part
  <2>3. \A j \in Keys : j # k => w[j] = v[j]
    BY <1>3 DEF Values
  <2> HIDE DEF v, w, a, b
  <2>4. Sum(w) = Sum(v) - v[k] + w[k]
    BY <2>1, <2>3, SumOfOneMore
  <2> QED
    BY <2>1, <2>2, <2>4, Zenon
<1> QED
  BY <1>5, <1>6

\* Adding is exact while the result is in range.
LEMMA AddIsExact ==
    ASSUME NEW a \in Int, NEW b \in Int, a + b \in -Exact .. Exact
    PROVE  Add(a, b) = a + b
BY DEF Add

\* What a row becomes, counted and summed.
IsRow(row) == row \in [count : Nat, sum : Int]

ContributedAs(row, g, sign, new) ==
    /\ IsRow(new)
    /\ row.count + sign <= 0 => new.count = 0 /\ new.sum = 0
    /\ row.count + sign > 0 =>
          /\ new.count = row.count + sign
          /\ row.sum + sign * g \in -Exact .. Exact => new.sum = row.sum + sign * g

\* What contribute makes of a row: counted up or down, and gone at zero.
LEMMA ContributedIs ==
    ASSUME NEW row, IsRow(row), NEW g \in Int, NEW sign \in {-1, 1}
    PROVE  ContributedAs(row, g, sign, Contributed(row, g, sign))
<1> DEFINE new == Contributed(row, g, sign)
<1>0. row \in [count : Nat, sum : Int]
  BY DEF IsRow
<1>1. row.count \in Nat /\ row.sum \in Int /\ sign * g \in Int /\ row.count + sign \in Int
  BY <1>0
<1>2. CASE row.count + sign <= 0
  <2>1. new = [count |-> 0, sum |-> 0]
    BY <1>2 DEF Contributed, Nothing
  <2> QED
    BY <1>1, <1>2, <2>1 DEF ContributedAs, IsRow
<1>3. CASE row.count + sign > 0
  <2> DEFINE n == row.count + sign
             s == Add(row.sum, sign * g)
  <2>1. new = [count |-> n, sum |-> s]
    BY <1>1, <1>3 DEF Contributed
  <2>2. n \in Nat /\ s \in Int /\ n > 0
    <3>1. s \in Int
      <4> DEFINE x == sign * g
      <4>1. x \in Int
        BY <1>1
      <4> HIDE DEF x
      <4>2. Add(row.sum, x) \in Int
        BY <1>1, <4>1, AddTypes
      <4> QED
        BY <4>2 DEF x
    <3> QED
      BY <1>1, <1>3, <3>1
  <2>3. row.sum + sign * g \in -Exact .. Exact => s = row.sum + sign * g
    BY <1>1, AddIsExact
  <2>4. ~(row.count + sign <= 0)
    BY <1>1, <1>3
  <2>5. n = row.count + sign
    OBVIOUS
  <2> HIDE DEF n, s
  <2>6. new.count = n /\ new.sum = s /\ new \in [count : Nat, sum : Int]
    BY <2>1, <2>2
  <2> HIDE DEF new
  <2>7. ContributedAs(row, g, sign, new)
    BY <2>3, <2>4, <2>5, <2>6 DEF ContributedAs, IsRow
  <2> QED
    BY <2>7 DEF new
<1> QED
  BY <1>1, <1>2, <1>3

-----------------------------------------------------------------------------
(* Totals.                                                                 *)

CountOf(t, h) == t.totals[RowOf(t, h)].count

CountedRow(t, h) == CountOf(t, h) <= Cardinality(Group(t, h))

TalliedRow(t, h) ==
    CountOf(t, h) = Cardinality(Group(t, h)) /\ t.totals[RowOf(t, h)].sum = SumOf(t, Group(t, h))

\* No row counts more documents than there are, even after operations that
\* failed half way and callers that went on.
CountedTrees ==
    {t \in Sane : /\ \A r \in Rows : t.totals[r].count <= MaxKey
                  /\ t.rollup # Absent => \A h \in Groups : CountedRow(t, h)}

\* The rows of the rollup are exactly what the documents come to.
TalliedTrees == {t \in Sane : t.rollup # Absent => \A h \in Groups : TalliedRow(t, h)}

\* What moving one document in or out of its row does, when the documents
\* change by the same one.
Moves(t, u, k, d, sign) ==
    /\ t \in Sane /\ u \in Sane /\ t.rollup # Absent
    /\ u.cid = t.cid /\ u.rollup = t.rollup
    /\ u.totals = TotalsAfter(t, d, sign)
    /\ \A j \in Keys : j # k => u.docs[j] = t.docs[j]
    /\ \/ sign = 1 /\ t.docs[k] = NoDoc /\ u.docs[k] = d
       \/ sign = -1 /\ t.docs[k] = d /\ u.docs[k] = NoDoc

\* Taking a document out, or putting one in, moves every row as it moves the
\* group: counts stay within the group, and exact totals stay exact.
LEMMA MovesRow ==
    ASSUME NEW t, NEW u, NEW k \in Keys, NEW d \in Docs, NEW sign \in {-1, 1}, NEW h \in Groups,
           Moves(t, u, k, d, sign)
    PROVE  /\ CountedRow(t, h) => CountedRow(u, h)
           /\ SumsFit /\ TalliedRow(t, h) => TalliedRow(u, h)
           /\ sign = -1 => Cardinality(Group(u, h)) <= Cardinality(Group(t, h))
<1> DEFINE old == t.totals[RowOf(t, h)]
           row == u.totals[RowOf(u, h)]
           a == Cardinality(Group(t, h))
           b == Cardinality(Group(u, h))
           x == SumOf(t, Group(t, h))
           y == SumOf(u, Group(u, h))
<1>0. t \in Sane /\ u \in Sane /\ RowOf(u, h) = RowOf(t, h) /\ h # 0 /\ d.g \in Int
  BY InputsAssumption, DocTypes DEF Moves, RowOf, Groups
<1>1. /\ RowOf(t, h) \in Rows
      /\ row = IF h = d.h THEN Contributed(old, d.g, sign) ELSE old
  BY <1>0, TotalsAfterIs DEF Moves
<1>2. old \in [count : Nat, sum : Int]
  BY <1>0, <1>1 DEF Sane, Trees
<1>3. /\ a \in Nat /\ b \in Nat /\ x \in Int /\ y \in Int
      /\ b = 0 => y = 0
      /\ SumsFit => y \in -Exact .. Exact
  BY <1>0, GroupTypes, ValuesTypes
<1>4. /\ b = a - One(t.docs[k], h) + One(u.docs[k], h)
      /\ y = x - Part(t.docs[k], h) + Part(u.docs[k], h)
  BY <1>0, GroupChanges DEF Moves
<1>5. One(NoDoc, h) = 0 /\ Part(NoDoc, h) = 0
  BY <1>0 DEF One, Part, NoDoc
<1>6. CASE h = d.h
  <2>1. One(d, h) = 1 /\ Part(d, h) = d.g
    BY <1>6 DEF One, Part
  <2>2. b = a + sign /\ y = x + sign * d.g
    <3>1. CASE sign = 1
      BY <1>0, <1>3, <1>4, <1>5, <2>1, <3>1 DEF Moves
    <3>2. CASE sign = -1
      BY <1>0, <1>3, <1>4, <1>5, <2>1, <3>2 DEF Moves
    <3> QED
      BY <3>1, <3>2
  <2> DEFINE g == d.g
  <2>3. row = Contributed(old, g, sign) /\ g \in Int /\ y = x + sign * g
    BY <1>0, <1>1, <1>6, <2>2
  <2> HIDE DEF old, row, a, b, x, y, g
  <2>4. /\ row \in [count : Nat, sum : Int]
        /\ old.count + sign <= 0 => row.count = 0 /\ row.sum = 0
        /\ old.count + sign > 0 => /\ row.count = old.count + sign
                                   /\ old.sum + sign * g \in -Exact .. Exact => row.sum = old.sum + sign * g
    <3>1. ContributedAs(old, g, sign, Contributed(old, g, sign))
      BY <1>2, <2>3, ContributedIs DEF IsRow
    <3> QED
      BY <2>3, <3>1 DEF ContributedAs, IsRow
  <2>5. old.count \in Nat /\ old.sum \in Int /\ old.count + sign \in Int
    BY <1>2
  <2>6. old.count <= a => row.count <= b
    BY <1>3, <2>2, <2>4, <2>5
  <2>7. ASSUME SumsFit, old.count = a, old.sum = x PROVE row.count = b /\ row.sum = y
    <3>1. CASE old.count + sign <= 0
      BY <1>3, <2>2, <2>4, <2>5, <2>7, <3>1
    <3>2. CASE old.count + sign > 0
      BY <1>3, <2>2, <2>3, <2>4, <2>5, <2>7, <3>2
    <3> QED
      BY <2>5, <3>1, <3>2
  <2>8. sign = -1 => b <= a
    BY <1>3, <2>2
  <2> QED
    BY <2>6, <2>7, <2>8 DEF CountedRow, TalliedRow, CountOf, old, row, a, b, x, y
<1>7. CASE h # d.h
  <2>1. One(d, h) = 0 /\ Part(d, h) = 0
    BY <1>7 DEF One, Part
  <2>2. b = a /\ y = x
    BY <1>3, <1>4, <1>5, <2>1 DEF Moves
  <2>3. row = old
    BY <1>1, <1>7
  <2> HIDE DEF old, row, a, b, x, y
  <2> QED
    BY <1>3, <2>2, <2>3 DEF CountedRow, TalliedRow, CountOf, old, row, a, b, x, y
<1> QED
  BY <1>6, <1>7

\* A tree whose own rows are counted and whose other rows did not change is counted.
LEMMA CountedFrom ==
    ASSUME NEW t \in CountedTrees, NEW u \in Sane, u.cid = t.cid, u.rollup = t.rollup,
           \A r \in Rows : r[1] # t.cid \/ r[2] # t.rollup => u.totals[r] = t.totals[r],
           t.rollup # Absent => \A h \in Groups : CountedRow(u, h)
    PROVE  u \in CountedTrees
<1>1. ASSUME NEW r \in Rows PROVE u.totals[r].count <= MaxKey
  <2>1. CASE r[1] # t.cid \/ r[2] # t.rollup
    BY <2>1 DEF CountedTrees
  <2>2. CASE r[1] = t.cid /\ r[2] = t.rollup
    <3>1. r[2] # Absent /\ r[3] \in Groups /\ r = <<r[1], r[2], r[3]>>
      BY BoundsAssumption DEF Rows, Absent
    <3>2. CountedRow(u, r[3]) /\ RowOf(u, r[3]) = r
      BY <2>2, <3>1 DEF RowOf
    <3>3. u.totals[r].count \in Nat
      BY DEF Sane, Trees
    <3>4. u.totals[r].count <= Cardinality(Group(u, r[3]))
      BY <3>2 DEF CountedRow, CountOf
    <3>5. Cardinality(Group(u, r[3])) \in Nat /\ Cardinality(Group(u, r[3])) <= MaxKey
      BY GroupTypes
    <3> QED
      BY <3>3, <3>4, <3>5, BoundsAssumption
  <2> QED
    BY <2>1, <2>2
<1> QED
  BY <1>1 DEF CountedTrees

\* Removing a document takes it out of its group and off its row.
LEMMA WithoutMoves ==
    ASSUME NEW t \in Sane, t.cid # 0, t.rollup # Absent, NEW k \in Keys, t.docs[k] # NoDoc
    PROVE  t.docs[k] \in Docs /\ Moves(t, Without(t, k), k, t.docs[k], -1)
<1> DEFINE w == Without(t, k)
<1>1. t.docs \in [Keys -> Docs \cup {NoDoc}] /\ t.docs[k] \in Docs
  BY DEF Sane, Trees
<1>2. /\ SameCatalogue(t, w) /\ w.docs = [t.docs EXCEPT ![k] = NoDoc]
      /\ w.totals = TotalsAfter(t, t.docs[k], -1)
  BY WithoutIs
<1> HIDE DEF w
<1>3. w \in Sane /\ w.cid = t.cid /\ w.rollup = t.rollup
  BY <1>2 DEF SameCatalogue
<1>4. w.docs[k] = NoDoc /\ \A j \in Keys : j # k => w.docs[j] = t.docs[j]
  BY <1>1, <1>2
<1>5. Moves(t, w, k, t.docs[k], -1)
  BY <1>2, <1>3, <1>4 DEF Moves
<1> QED
  BY <1>1, <1>5 DEF w

\* Storing a document puts it in its group and on its row.
LEMMA WithMoves ==
    ASSUME NEW t \in Sane, t.cid # 0, t.rollup # Absent, NEW k \in Keys, t.docs[k] = NoDoc, NEW d \in Docs
    PROVE  Moves(t, With(t, k, d), k, d, 1)
<1> DEFINE w == With(t, k, d)
<1>1. t.docs \in [Keys -> Docs \cup {NoDoc}]
  BY DEF Sane, Trees
<1>2. /\ SameCatalogue(t, w) /\ w.docs = [t.docs EXCEPT ![k] = d]
      /\ w.totals = TotalsAfter(t, d, 1)
  BY WithIs
<1> HIDE DEF w
<1>3. w \in Sane /\ w.cid = t.cid /\ w.rollup = t.rollup
  BY <1>2 DEF SameCatalogue
<1>4. w.docs[k] = d /\ \A j \in Keys : j # k => w.docs[j] = t.docs[j]
  BY <1>1, <1>2
<1>5. Moves(t, w, k, d, 1)
  BY <1>2, <1>3, <1>4 DEF Moves
<1> QED
  BY <1>5 DEF w

\* Rows of no other rollup move.
LEMMA OtherRows ==
    ASSUME NEW t \in Sane, t.cid # 0, NEW k \in Keys
    PROVE  /\ \A r \in Rows : r[1] # t.cid \/ r[2] # t.rollup => Without(t, k).totals[r] = t.totals[r]
           /\ \A d \in Docs : \A r \in Rows :
                 r[1] # t.cid \/ r[2] # t.rollup => With(t, k, d).totals[r] = t.totals[r]
<1>1. t.docs[k] \in Docs \cup {NoDoc} /\ 1 \in {-1, 1} /\ -1 \in {-1, 1}
  BY DEF Sane, Trees
<1>2. \A r \in Rows : r[1] # t.cid \/ r[2] # t.rollup => Without(t, k).totals[r] = t.totals[r]
  <2>1. CASE t.docs[k] = NoDoc
    BY <2>1, WithoutIs
  <2>2. CASE t.docs[k] # NoDoc
    <3>1. Without(t, k).totals = TotalsAfter(t, t.docs[k], -1)
      BY <2>2, WithoutIs
    <3> QED
      BY <1>1, <2>2, <3>1, TotalsAfterIs
  <2> QED
    BY <2>1, <2>2
<1>3. ASSUME NEW d \in Docs
      PROVE  \A r \in Rows : r[1] # t.cid \/ r[2] # t.rollup => With(t, k, d).totals[r] = t.totals[r]
  <2>1. With(t, k, d).totals = TotalsAfter(t, d, 1)
    BY WithIs
  <2> QED
    BY <1>1, <2>1, TotalsAfterIs
<1> QED
  BY <1>2, <1>3

\* Removing a document leaves no row that counts more than its group.
LEMMA WithoutCounted ==
    ASSUME NEW t \in CountedTrees, t.cid # 0, NEW k \in Keys
    PROVE  /\ Without(t, k) \in CountedTrees
           /\ t.rollup # Absent => \A h \in Groups :
                 Cardinality(Group(Without(t, k), h)) <= Cardinality(Group(t, h))
<1>0. t \in Sane /\ (t.rollup # Absent => \A h \in Groups : CountedRow(t, h))
  BY DEF CountedTrees
<1>1. CASE t.docs[k] = NoDoc
  <2>1. Without(t, k) = t
    BY <1>1 DEF Without
  <2>2. \A h \in Groups : Cardinality(Group(t, h)) <= Cardinality(Group(t, h))
    BY <1>0, GroupTypes
  <2> QED
    BY <2>1, <2>2
<1>2. CASE t.docs[k] # NoDoc
  <2> DEFINE w == Without(t, k)
  <2>1. SameCatalogue(t, w) /\ \A r \in Rows : r[1] # t.cid \/ r[2] # t.rollup => w.totals[r] = t.totals[r]
    BY <1>0, WithoutIs, OtherRows
  <2>2. ASSUME t.rollup # Absent, NEW h \in Groups
        PROVE  CountedRow(w, h) /\ Cardinality(Group(w, h)) <= Cardinality(Group(t, h))
    <3>1. t.docs[k] \in Docs /\ Moves(t, w, k, t.docs[k], -1) /\ -1 \in {-1, 1}
      BY <1>0, <1>2, <2>2, WithoutMoves
    <3> HIDE DEF w
    <3> QED
      BY <1>0, <2>2, <3>1, MovesRow
  <2> HIDE DEF w
  <2>3. w \in Sane /\ w.cid = t.cid /\ w.rollup = t.rollup
    BY <2>1 DEF SameCatalogue
  <2>4. w \in CountedTrees
    BY <2>1, <2>2, <2>3, CountedFrom
  <2> QED
    BY <2>2, <2>4 DEF w
<1> QED
  BY <1>1, <1>2

\* Storing a document leaves no row that counts more than its group.
LEMMA WithCounted ==
    ASSUME NEW t \in CountedTrees, t.cid # 0, NEW k \in Keys, NEW d \in Docs, t.docs[k] = NoDoc
    PROVE  With(t, k, d) \in CountedTrees
<1> DEFINE w == With(t, k, d)
<1>0. t \in Sane /\ (t.rollup # Absent => \A h \in Groups : CountedRow(t, h))
  BY DEF CountedTrees
<1>1. SameCatalogue(t, w) /\ \A r \in Rows : r[1] # t.cid \/ r[2] # t.rollup => w.totals[r] = t.totals[r]
  <2>1. SameCatalogue(t, w)
    BY <1>0, WithIs
  <2>2. \A r \in Rows : r[1] # t.cid \/ r[2] # t.rollup => w.totals[r] = t.totals[r]
    BY <1>0, OtherRows
  <2> QED
    BY <2>1, <2>2
<1>2. ASSUME t.rollup # Absent, NEW h \in Groups PROVE CountedRow(w, h)
  <2>1. Moves(t, w, k, d, 1) /\ 1 \in {-1, 1}
    BY <1>0, <1>2, WithMoves
  <2> HIDE DEF w
  <2> QED
    BY <1>0, <1>2, <2>1, MovesRow
<1> HIDE DEF w
<1>3. w \in Sane /\ w.cid = t.cid /\ w.rollup = t.rollup
  BY <1>1 DEF SameCatalogue
<1>4. w \in CountedTrees
  BY <1>1, <1>2, <1>3, CountedFrom
<1> QED
  BY <1>4 DEF w

\* An operation that went through, or failed half way, on counted trees.
LEMMA RemoveCounted ==
    ASSUME NEW t \in CountedTrees, NEW k \in Keys
    PROVE  remove(t, k).tree \in CountedTrees
<1>1. t \in Sane
  BY DEF CountedTrees
<1>2. CASE remove(t, k).ok
  BY <1>1, <1>2, RemoveIs, WithoutCounted
<1>3. CASE ~remove(t, k).ok
  BY <1>1, <1>3, RemoveIs
<1> QED
  BY <1>2, <1>3

\* A write that failed after it took the old document off the totals leaves rows
\* that count less than their groups, never more (Collection.write).
LEMMA HalfWayCounted ==
    ASSUME NEW t \in CountedTrees, t.cid # 0, NEW k \in Keys
    PROVE  Replace(t, t.docs, Without(t, k).entries, Without(t, k).totals) \in CountedTrees
<1> DEFINE w == Without(t, k)
           u == Replace(t, t.docs, w.entries, w.totals)
<1>0. t \in Sane /\ (t.rollup # Absent => \A h \in Groups : CountedRow(t, h))
  BY DEF CountedTrees
<1>1. /\ w \in CountedTrees
      /\ t.rollup # Absent => \A h \in Groups : Cardinality(Group(w, h)) <= Cardinality(Group(t, h))
  BY WithoutCounted
<1>2. SameCatalogue(t, w)
  BY <1>0, WithoutIs
<1>3. \A r \in Rows : r[1] # t.cid \/ r[2] # t.rollup => w.totals[r] = t.totals[r]
  BY <1>0, OtherRows
<1> HIDE DEF w
<1>4. w \in Sane /\ w.cid = t.cid /\ w.rollup = t.rollup
  BY <1>2 DEF SameCatalogue
<1>5. Fits(t, t.docs, w.entries, w.totals)
  BY <1>0, <1>3, <1>4 DEF Fits, Sane, Trees, EntrySets
<1>6. SameCatalogue(t, u) /\ u.docs = t.docs /\ u.totals = w.totals
  BY <1>0, <1>5, Replaced
<1> HIDE DEF u
<1>7. u \in Sane /\ u.cid = t.cid /\ u.rollup = t.rollup
  BY <1>6 DEF SameCatalogue
<1>8. ASSUME t.rollup # Absent, NEW h \in Groups PROVE CountedRow(u, h)
  <2>1. CountedRow(w, h) /\ Cardinality(Group(w, h)) <= Cardinality(Group(t, h))
    BY <1>1, <1>4, <1>8 DEF CountedTrees
  <2>2. Group(u, h) = Group(t, h) /\ CountOf(u, h) = CountOf(w, h)
    BY <1>4, <1>6, <1>7 DEF Group, Stored, CountOf, RowOf
  <2>3. Cardinality(Group(w, h)) \in Nat /\ Cardinality(Group(t, h)) \in Nat
    BY <1>0, <1>4, GroupTypes
  <2>4. CountOf(w, h) \in Nat
    <3>1. RowOf(w, h) \in Rows
      <4>1. w.cid \in 1 .. MaxCollection /\ w.rollup \in 0 .. MaxId
        <5>1. t.cid \in 0 .. MaxCollection /\ t.rollup \in -1 .. MaxId
          BY <1>0 DEF Sane, Trees, Ids
        <5> QED
          BY <1>4, <1>8, <5>1, BoundsAssumption DEF Absent
      <4> QED
        BY <4>1 DEF RowOf, Rows
    <3> QED
      BY <1>4, <3>1 DEF CountOf, Sane, Trees
  <2>5. CountOf(u, h) <= Cardinality(Group(t, h))
    BY <2>1, <2>2, <2>3, <2>4 DEF CountedRow
  <2> QED
    BY <2>2, <2>5 DEF CountedRow
<1>9. u \in CountedTrees
  BY <1>3, <1>6, <1>7, <1>8, CountedFrom
<1> QED
  BY <1>9 DEF u, w

\* Collection.write leaves no row that counts more than its group, even when it
\* fails.
LEMMA WriteCounted ==
    ASSUME NEW t \in CountedTrees, NEW k \in Keys, NEW d \in Docs
    PROVE  write(t, k, d).tree \in CountedTrees
<1> DEFINE w == Without(t, k)
<1>1. t \in Sane /\ t.docs \in [Keys -> Docs \cup {NoDoc}]
  BY DEF CountedTrees, Sane, Trees
<1>2. CASE write(t, k, d).ok
  <2>1. t.cid # 0 /\ write(t, k, d).tree = With(w, k, d)
    BY <1>1, <1>2, WriteIs
  <2>2. w \in CountedTrees
    BY <2>1, WithoutCounted
  <2>3. w.cid # 0 /\ w.docs[k] = NoDoc
    BY <1>1, <2>1, WithoutIs DEF SameCatalogue
  <2> HIDE DEF w
  <2> QED
    BY <2>1, <2>2, <2>3, WithCounted
<1>3. CASE ~write(t, k, d).ok
  BY <1>1, <1>3, WriteIs, HalfWayCounted
<1> QED
  BY <1>2, <1>3

\* Nor does any other operation.
LEMMA OperationCounted ==
    ASSUME NEW t \in CountedTrees, NEW o, Operation(t, o)
    PROVE  o.tree \in CountedTrees
<1>0. t \in Sane /\ CountedTrees \subseteq Sane
  BY DEF CountedTrees
<1>1. ASSUME NEW k \in Keys, NEW d, Writable(t, d), o = write(t, k, d) PROVE o.tree \in CountedTrees
  BY <1>1, WriteCounted DEF Writable
<1>2. ASSUME NEW k \in Keys, o = remove(t, k) PROVE o.tree \in CountedTrees
  BY <1>2, RemoveCounted
<1>3. ASSUME NEW from, NEW limit, o = deleteRange(t, from, limit) PROVE o.tree \in CountedTrees
  BY <1>0, <1>3, RemoveCounted, DeleteRangeKeeps
<1>4. CASE o = Ok(t, 0) \/ o = Failed(t)
  BY <1>0, <1>4, OutcomeTypes
<1> QED
  BY <1>1, <1>2, <1>3, <1>4 DEF Operation

\* The same for exact totals, of operations that went through.
LEMMA WithoutTallied ==
    ASSUME SumsFit, NEW t \in TalliedTrees, t.cid # 0, NEW k \in Keys
    PROVE  Without(t, k) \in TalliedTrees
<1>0. t \in Sane /\ (t.rollup # Absent => \A h \in Groups : TalliedRow(t, h))
  BY DEF TalliedTrees
<1>1. CASE t.docs[k] = NoDoc
  BY <1>1 DEF Without
<1>2. CASE t.docs[k] # NoDoc
  <2> DEFINE w == Without(t, k)
  <2>1. SameCatalogue(t, w)
    BY <1>0, WithoutIs
  <2>2. ASSUME t.rollup # Absent, NEW h \in Groups PROVE TalliedRow(w, h)
    <3>1. t.docs[k] \in Docs /\ Moves(t, w, k, t.docs[k], -1) /\ -1 \in {-1, 1}
      BY <1>0, <1>2, <2>2, WithoutMoves
    <3> HIDE DEF w
    <3> QED
      BY <1>0, <2>2, <3>1, MovesRow
  <2> HIDE DEF w
  <2>3. w \in TalliedTrees
    BY <2>1, <2>2 DEF TalliedTrees, SameCatalogue
  <2> QED
    BY <2>3 DEF w
<1> QED
  BY <1>1, <1>2

\* Storing a document leaves the totals exact.
LEMMA WithTallied ==
    ASSUME SumsFit, NEW t \in TalliedTrees, t.cid # 0, NEW k \in Keys, NEW d \in Docs, t.docs[k] = NoDoc
    PROVE  With(t, k, d) \in TalliedTrees
<1> DEFINE w == With(t, k, d)
<1>0. t \in Sane /\ (t.rollup # Absent => \A h \in Groups : TalliedRow(t, h))
  BY DEF TalliedTrees
<1>1. SameCatalogue(t, w)
  BY <1>0, WithIs
<1>2. ASSUME t.rollup # Absent, NEW h \in Groups PROVE TalliedRow(w, h)
  <2>1. Moves(t, w, k, d, 1) /\ 1 \in {-1, 1}
    BY <1>0, <1>2, WithMoves
  <2> HIDE DEF w
  <2> QED
    BY <1>0, <1>2, <2>1, MovesRow
<1> HIDE DEF w
<1>3. w \in TalliedTrees
  BY <1>1, <1>2 DEF TalliedTrees, SameCatalogue
<1> QED
  BY <1>3 DEF w

\* Collection.remove leaves the totals exact, also when it fails.
LEMMA RemoveTallied ==
    ASSUME SumsFit, NEW t \in TalliedTrees, NEW k \in Keys
    PROVE  remove(t, k).tree \in TalliedTrees
<1>1. t \in Sane
  BY DEF TalliedTrees
<1>2. CASE remove(t, k).ok
  BY <1>1, <1>2, RemoveIs, WithoutTallied
<1>3. CASE ~remove(t, k).ok
  BY <1>1, <1>3, RemoveIs
<1> QED
  BY <1>2, <1>3

\* Every operation that succeeds leaves the totals exact.
LEMMA OperationTallied ==
    ASSUME SumsFit, NEW t \in TalliedTrees, NEW o, Operation(t, o), o.ok
    PROVE  o.tree \in TalliedTrees
<1>0. t \in Sane /\ TalliedTrees \subseteq Sane /\ t.docs \in [Keys -> Docs \cup {NoDoc}]
  BY DEF TalliedTrees, Sane, Trees
<1>1. ASSUME NEW k \in Keys, NEW d, Writable(t, d), o = write(t, k, d) PROVE o.tree \in TalliedTrees
  <2> DEFINE w == Without(t, k)
  <2>0. d \in Docs
    BY <1>1 DEF Writable
  <2>1. t.cid # 0 /\ o.tree = With(w, k, d)
    BY <1>0, <1>1, <2>0, WriteIs
  <2>2. w \in TalliedTrees
    BY <2>1, WithoutTallied
  <2>3. w.cid # 0 /\ w.docs[k] = NoDoc
    <3>1. SameCatalogue(t, w) /\ w.docs = [t.docs EXCEPT ![k] = NoDoc]
      BY <1>0, <2>1, WithoutIs
    <3> HIDE DEF w
    <3> QED
      BY <1>0, <2>1, <3>1 DEF SameCatalogue
  <2> HIDE DEF w
  <2> QED
    BY <2>0, <2>1, <2>2, <2>3, WithTallied
<1>2. ASSUME NEW k \in Keys, o = remove(t, k) PROVE o.tree \in TalliedTrees
  BY <1>2, RemoveTallied
<1>3. ASSUME NEW from, NEW limit, o = deleteRange(t, from, limit) PROVE o.tree \in TalliedTrees
  BY <1>0, <1>3, RemoveTallied, DeleteRangeKeeps
<1>4. CASE o = Ok(t, 0) \/ o = Failed(t)
  BY <1>0, <1>4, OutcomeTypes
<1> QED
  BY <1>1, <1>2, <1>3, <1>4 DEF Operation

\* The tree with the documents up to a key only.
UpTo(t, n) ==
    Replace(t, [k \in Keys |-> IF k <= n THEN t.docs[k] ELSE NoDoc], t.entries, t.totals)

\* The tree with the documents up to n only: what BuildTotals has counted by then.
LEMMA UpToIs ==
    ASSUME NEW t \in Sane, t.cid # 0, NEW n, NEW p, p = UpTo(t, n)
    PROVE  /\ SameCatalogue(t, p) /\ p.totals = t.totals
           /\ \A k \in Keys : p.docs[k] = IF k <= n THEN t.docs[k] ELSE NoDoc
<1> DEFINE docs == [k \in Keys |-> IF k <= n THEN t.docs[k] ELSE NoDoc]
<1>1. t.docs \in [Keys -> Docs \cup {NoDoc}]
  BY DEF Sane, Trees
<1>2. docs \in [Keys -> Docs \cup {NoDoc}] /\ \A k \in Keys : docs[k] = IF k <= n THEN t.docs[k] ELSE NoDoc
  BY <1>1
<1>3. p = Replace(t, docs, t.entries, t.totals)
  BY DEF UpTo
<1> HIDE DEF docs
<1>4. Fits(t, docs, t.entries, t.totals)
  BY <1>2 DEF Fits, Sane, Trees, EntrySets
<1>5. SameCatalogue(t, p) /\ p.docs = docs /\ p.totals = t.totals
  BY <1>3, <1>4, Replaced
<1> QED
  BY <1>2, <1>5

\* Rows of a rollup that nothing was counted in.
Blank(t) == t.rollup # Absent /\ \A h \in Groups : t.totals[RowOf(t, h)] = Nothing

\* Counting every stored document, in the order of the keys, gives exact
\* totals (buildRollup).
LEMMA BuildTotalsIs ==
    ASSUME NEW t \in Sane, t.cid # 0, Blank(t), NEW u, u = BuildTotals(t)
    PROVE  /\ SameCatalogue(t, u) /\ u.docs = t.docs
           /\ \A r \in Rows : r[1] # t.cid \/ r[2] # t.rollup => u.totals[r] = t.totals[r]
           /\ \A h \in Groups : CountedRow(u, h) /\ (SumsFit => TalliedRow(u, h))
<1>0. MaxKey \in Nat /\ t.rollup # Absent /\ t.docs \in [Keys -> Docs \cup {NoDoc}]
  BY BoundsAssumption DEF Blank, Sane, Trees
<1>1. PICK f \in [0 .. MaxKey -> Rebuilt(t)] :
              /\ f[0] = t
              /\ \A n \in 1 .. MaxKey :
                    f[n] = IF n \in Stored(t) THEN contribute(f[n - 1], t.docs[n], 1) ELSE f[n - 1]
              /\ BuildTotals(t) = f[MaxKey]
  BY BuildTotalsRuns
<1>2. \A n \in 0 .. MaxKey : SameCatalogue(t, f[n]) /\ f[n].docs = t.docs /\ f[n] \in Sane
                             /\ f[n].cid = t.cid /\ f[n].rollup = t.rollup
  BY DEF Rebuilt, SameCatalogue
<1> DEFINE p(n) == UpTo(f[n], n)
           Others(n) == \A r \in Rows : r[1] # t.cid \/ r[2] # t.rollup => f[n].totals[r] = t.totals[r]
           Good(n) == \A h \in Groups : CountedRow(p(n), h) /\ (SumsFit => TalliedRow(p(n), h))
           S == {n \in 0 .. MaxKey : Others(n) /\ Good(n)}
<1>3. ASSUME NEW n \in 0 .. MaxKey
      PROVE  /\ p(n) \in Sane /\ p(n).cid = t.cid /\ p(n).rollup = t.rollup
             /\ p(n).totals = f[n].totals
             /\ \A k \in Keys : p(n).docs[k] = IF k <= n THEN t.docs[k] ELSE NoDoc
  <2>1. f[n] \in Sane /\ f[n].cid # 0 /\ f[n].docs = t.docs /\ f[n].cid = t.cid /\ f[n].rollup = t.rollup
    BY <1>2
  <2> QED
    BY <2>1, UpToIs DEF SameCatalogue
<1>4. 0 \in S
  <2>0. 0 \in 0 .. MaxKey
    BY <1>0
  <2> DEFINE q == p(0)
  <2>1. /\ q \in Sane /\ q.cid = t.cid /\ q.rollup = t.rollup /\ q.totals = t.totals
        /\ \A k \in Keys : q.docs[k] = NoDoc
    BY <1>1, <1>3, <2>0 DEF Keys
  <2> HIDE DEF q
  <2>2. ASSUME NEW h \in Groups PROVE CountedRow(q, h) /\ TalliedRow(q, h)
    <3>1. Group(q, h) = {}
      BY <2>1 DEF Group, Stored
    <3>2. Cardinality(Group(q, h)) = 0
      BY <3>1, FS_EmptySet
    <3>3. SumOf(q, Group(q, h)) = 0
      BY <2>1, <3>2, GroupTypes
    <3>4. q.totals[RowOf(q, h)] = Nothing
      BY <2>1 DEF Blank, RowOf
    <3> QED
      BY <3>2, <3>3, <3>4 DEF CountedRow, TalliedRow, CountOf, Nothing
  <2>3. Good(0)
    BY <2>2 DEF q
  <2>4. Others(0)
    BY <1>1
  <2> QED
    BY <2>0, <2>3, <2>4
<1>5. ASSUME NEW n \in 1 .. MaxKey, n - 1 \in S PROVE n \in S
  <2>0. n - 1 \in 0 .. MaxKey /\ n \in 0 .. MaxKey /\ n \in Keys
    BY <1>0 DEF Keys
  <2> DEFINE a == p(n - 1)
             b == p(n)
             d == t.docs[n]
  <2>1. Others(n - 1) /\ \A h \in Groups : CountedRow(a, h) /\ (SumsFit => TalliedRow(a, h))
    BY <1>5
  <2>2. /\ a \in Sane /\ a.cid = t.cid /\ a.rollup = t.rollup /\ a.totals = f[n - 1].totals
        /\ \A k \in Keys : a.docs[k] = IF k <= n - 1 THEN t.docs[k] ELSE NoDoc
    BY <1>3, <2>0
  <2>3. /\ b \in Sane /\ b.cid = t.cid /\ b.rollup = t.rollup /\ b.totals = f[n].totals
        /\ \A k \in Keys : b.docs[k] = IF k <= n THEN t.docs[k] ELSE NoDoc
    BY <1>3, <2>0
  <2>4. \A k \in Keys : k # n => (k <= n <=> k <= n - 1)
    BY <2>0 DEF Keys
  <2>5. ~(n <= n - 1) /\ n <= n
    BY <2>0
  <2> HIDE DEF a, b, d
  <2>6. /\ \A k \in Keys : k # n => b.docs[k] = a.docs[k]
        /\ a.docs[n] = NoDoc /\ b.docs[n] = d
    BY <2>0, <2>2, <2>3, <2>4, <2>5 DEF d
  <2>7. CASE n \in Stored(t)
    <3>1. d \in Docs
      BY <1>0, <2>0, <2>7 DEF d, Stored
    <3>2. f[n].totals = TotalsAfter(f[n - 1], d, 1)
      <4>1. f[n] = contribute(f[n - 1], d, 1)
        BY <1>1, <2>7 DEF d
      <4>2. f[n - 1] \in Sane /\ f[n - 1].cid # 0
        BY <1>2, <2>0
      <4> QED
        BY <3>1, <4>1, <4>2, ContributeKeeps
    <3>3. TotalsAfter(a, d, 1) = TotalsAfter(f[n - 1], d, 1)
      BY <1>2, <2>0, <2>2 DEF TotalsAfter, RowOf
    <3>4. Moves(a, b, n, d, 1) /\ 1 \in {-1, 1}
      BY <1>0, <2>2, <2>3, <2>6, <3>2, <3>3 DEF Moves
    <3>5. \A h \in Groups : CountedRow(b, h) /\ (SumsFit => TalliedRow(b, h))
      BY <2>0, <2>1, <3>1, <3>4, MovesRow
    <3>6. ASSUME NEW r \in Rows, r[1] # t.cid \/ r[2] # t.rollup PROVE f[n].totals[r] = t.totals[r]
      <4>1. TotalsAfter(a, d, 1)[r] = a.totals[r]
        BY <2>2, <3>1, <3>4, <3>6, TotalsAfterIs
      <4> QED
        BY <2>1, <2>2, <3>2, <3>3, <3>6, <4>1
    <3> QED
      BY <2>0, <3>5, <3>6 DEF b
  <2>8. CASE n \notin Stored(t)
    <3>1. f[n] = f[n - 1] /\ d = NoDoc
      BY <1>1, <2>0, <2>8 DEF d, Stored
    <3>2. \A k \in Keys : b.docs[k] = a.docs[k]
      BY <2>6, <3>1
    <3>3. ASSUME NEW h \in Groups PROVE CountedRow(b, h) /\ (SumsFit => TalliedRow(b, h))
      <4>1. Group(b, h) = Group(a, h)
        BY <3>2 DEF Group, Stored
      <4>2. Values(b, Group(b, h)) = Values(a, Group(a, h))
        BY <3>2, <4>1 DEF Values
      <4>3. SumOf(b, Group(b, h)) = SumOf(a, Group(a, h))
        BY <2>2, <2>3, <4>2, ValuesTypes
      <4>4. b.totals[RowOf(b, h)] = a.totals[RowOf(a, h)]
        BY <2>2, <2>3, <3>1 DEF RowOf
      <4> QED
        BY <2>1, <4>1, <4>3, <4>4 DEF CountedRow, TalliedRow, CountOf
    <3> QED
      BY <2>0, <2>1, <3>1, <3>3 DEF b
  <2> QED
    BY <2>7, <2>8
<1>6. MaxKey \in S
  <2> HIDE DEF S
  <2>1. \A n \in 1 .. MaxKey : n - 1 \in S => n \in S
    BY <1>5
  <2>2. \A n \in 0 .. MaxKey : n \in S
    BY <1>0, <1>4, <2>1, KeyByKey
  <2> QED
    BY <1>0, <2>2
<1>7. MaxKey \in 0 .. MaxKey /\ u = f[MaxKey]
  BY <1>0, <1>1
<1>8. SameCatalogue(t, u) /\ u.docs = t.docs /\ u \in Sane /\ u.cid = t.cid /\ u.rollup = t.rollup
  BY <1>2, <1>7
<1>9. ASSUME NEW h \in Groups PROVE CountedRow(u, h) /\ (SumsFit => TalliedRow(u, h))
  <2> DEFINE b == p(MaxKey)
  <2>1. CountedRow(b, h) /\ (SumsFit => TalliedRow(b, h))
    BY <1>6
  <2>2. /\ b \in Sane /\ b.cid = t.cid /\ b.rollup = t.rollup /\ b.totals = u.totals
        /\ \A k \in Keys : b.docs[k] = t.docs[k]
    BY <1>3, <1>7 DEF Keys
  <2> HIDE DEF b
  <2>3. Group(b, h) = Group(u, h)
    BY <1>8, <2>2 DEF Group, Stored
  <2>4. Values(b, Group(b, h)) = Values(u, Group(u, h))
    BY <1>8, <2>2, <2>3 DEF Values
  <2>5. SumOf(b, Group(b, h)) = SumOf(u, Group(u, h))
    BY <1>8, <2>2, <2>4, ValuesTypes
  <2>6. b.totals[RowOf(b, h)] = u.totals[RowOf(u, h)]
    BY <1>8, <2>2 DEF RowOf
  <2> QED
    BY <2>1, <2>3, <2>5, <2>6 DEF CountedRow, TalliedRow, CountOf
<1>10. \A r \in Rows : r[1] # t.cid \/ r[2] # t.rollup => u.totals[r] = t.totals[r]
  BY <1>6, <1>7
<1> QED
  BY <1>8, <1>9, <1>10

\* Declarations keep counts and totals.
LEMMA NumberedBlank ==
    ASSUME NEW t \in Sane, t.cid # 0, t.nextRollup <= MaxId, NEW u, u = RollupNumbered(t)
    PROVE  Blank(u)
<1>1. t \in Trees /\ Ordered(t)
  BY DEF Sane
<1>2. u.cid = t.cid /\ u.rollup = t.nextRollup /\ u.rollup # Absent /\ u.totals = t.totals
  BY RollupNumberedIs
<1>3. t.cid \in 1 .. MaxCollection /\ t.nextRollup \in 0 .. MaxId
  BY <1>1, BoundsAssumption DEF Trees
<1>4. ASSUME NEW h \in Groups PROVE u.totals[RowOf(u, h)] = Nothing
  <2> DEFINE r == RowOf(u, h)
  <2>1. r \in Rows /\ r[1] = t.cid /\ r[2] = t.nextRollup
    BY <1>2, <1>3 DEF RowOf, Rows
  <2> HIDE DEF r
  <2>2. r[2] >= t.nextRollup
    BY <1>3, <2>1
  <2>3. t.totals[r] = Nothing
    BY <1>1, <2>1, <2>2 DEF Ordered
  <2> QED
    BY <1>2, <2>3 DEF r
<1> QED
  BY <1>2, <1>4 DEF Blank

\* An empty row counts nothing, which is exact for an empty group.
LEMMA NothingCounted ==
    ASSUME NEW t \in Sane, NEW h \in Groups, t.totals[RowOf(t, h)] = Nothing
    PROVE  CountedRow(t, h) /\ (Group(t, h) = {} => TalliedRow(t, h))
<1>1. CountOf(t, h) = 0 /\ t.totals[RowOf(t, h)].sum = 0
  BY DEF CountOf, Nothing
<1>2. Cardinality(Group(t, h)) \in Nat /\ (Cardinality(Group(t, h)) = 0 => SumOf(t, Group(t, h)) = 0)
  BY GroupTypes
<1>3. Group(t, h) = {} => Cardinality(Group(t, h)) = 0
  BY FS_EmptySet
<1> QED
  BY <1>1, <1>2, <1>3 DEF CountedRow, TalliedRow

\* Whether totals are right depends on nothing but documents, rollup and rows.
LEMMA SameTotals ==
    ASSUME NEW t, NEW u, SameCounting(t, u)
    PROVE  /\ t \in CountedTrees => u \in CountedTrees
           /\ t \in TalliedTrees => u \in TalliedTrees
<1>1. /\ u \in Sane /\ u.rollup = t.rollup /\ u.totals = t.totals
      /\ \A h : RowOf(u, h) = RowOf(t, h) /\ Group(u, h) = Group(t, h)
      /\ \A ks : Values(u, ks) = Values(t, ks)
  BY DEF SameCounting, RowOf, Group, Stored, Values
<1>2. ASSUME t \in Sane, NEW h PROVE SumOf(u, Group(u, h)) = SumOf(t, Group(t, h))
  BY <1>1, <1>2, ValuesTypes
<1>3. \A h : CountedRow(t, h) => CountedRow(u, h)
  BY <1>1 DEF CountedRow, CountOf
<1>4. ASSUME t \in Sane, NEW h, TalliedRow(t, h) PROVE TalliedRow(u, h)
  BY <1>1, <1>2, <1>4 DEF TalliedRow, CountOf
<1> QED
  BY <1>1, <1>3, <1>4 DEF CountedTrees, TalliedTrees

\* Adding, dropping or leaving a rollup leaves the totals right.
LEMMA RollupPartCounted ==
    ASSUME NEW t \in Sane, t.cid # 0, NEW r \in BOOLEAN,
           r /\ t.rollup = Absent => t.nextRollup <= MaxId,
           NEW o, o = RollupPart(t, r), o.ok
    PROVE  /\ t \in CountedTrees => o.tree \in CountedTrees
           /\ SumsFit /\ t \in TalliedTrees => o.tree \in TalliedTrees
<1>1. CASE r /\ t.rollup = Absent
  <2> DEFINE n == RollupNumbered(t)
             u == BuildTotals(n)
  <2>1. /\ n \in Sane /\ n.cid = t.cid /\ n.rollup # Absent /\ n.totals = t.totals /\ Blank(n)
    BY <1>1, RollupNumberedIs, NumberedBlank
  <2>2. o.tree = u
    BY <1>1, WithRollupIs DEF RollupPart
  <2>3. /\ SameCatalogue(n, u)
        /\ \A x \in Rows : x[1] # n.cid \/ x[2] # n.rollup => u.totals[x] = n.totals[x]
        /\ \A h \in Groups : CountedRow(u, h) /\ (SumsFit => TalliedRow(u, h))
    BY <2>1, BuildTotalsIs
  <2> HIDE DEF n, u
  <2>4. \A h \in Groups : CountedRow(n, h)
    BY <2>1, NothingCounted DEF Blank
  <2>5. u \in Sane /\ u.cid = n.cid /\ u.rollup = n.rollup
    BY <2>3 DEF SameCatalogue
  <2>6. ASSUME t \in CountedTrees PROVE u \in CountedTrees
    <3>1. n \in CountedTrees
      BY <2>1, <2>4, <2>6 DEF CountedTrees
    <3> QED
      BY <2>3, <2>5, <3>1, CountedFrom
  <2>7. SumsFit => u \in TalliedTrees
    BY <2>3, <2>5 DEF TalliedTrees
  <2> QED
    BY <2>2, <2>6, <2>7
<1>2. CASE ~r /\ t.rollup # Absent
  <2> DEFINE u == WithoutTotals(t)
  <2>1. SameIndexing(t, u) /\ u.rollup = Absent /\ \A x \in Rows : u.totals[x] = t.totals[x] \/ u.totals[x] = Nothing
    BY WithoutTotalsIs
  <2>2. u \in Sane
    BY <2>1 DEF SameIndexing
  <2>3. o.tree = u
    BY <1>2, <2>2, OutcomeTypes DEF RollupPart
  <2> HIDE DEF u
  <2>4. Nothing.count <= MaxKey
    BY BoundsAssumption DEF Nothing
  <2>5. t \in CountedTrees => \A x \in Rows : u.totals[x].count <= MaxKey
    BY <2>1, <2>4 DEF CountedTrees
  <2> QED
    BY <2>1, <2>2, <2>3, <2>5 DEF CountedTrees, TalliedTrees
<1>3. CASE ~(r /\ t.rollup = Absent) /\ ~(~r /\ t.rollup # Absent)
  <2>1. o.tree = t
    BY <1>3, OutcomeTypes DEF RollupPart
  <2> QED
    BY <2>1
<1> QED
  BY <1>1, <1>2, <1>3

\* A new collection counts nothing yet: its number was never used.
LEMMA CreatedCounted ==
    ASSUME NEW t \in Sane, Free(t), NEW u, BareAs(t, u)
    PROVE  /\ t \in CountedTrees => u \in CountedTrees
           /\ u \in TalliedTrees
<1>1. /\ t \in Trees /\ Ordered(t) /\ t.next <= MaxCollection
      /\ u \in Sane /\ u.cid = t.next /\ Stored(u) = {} /\ u.totals = t.totals
  BY DEF Sane, Free, BareAs
<1>2. t.next \in 1 .. MaxCollection /\ u.rollup \in -1 .. MaxId
  BY <1>1, BoundsAssumption DEF Sane, Trees, Ids
<1>3. ASSUME u.rollup # Absent, NEW h \in Groups PROVE CountedRow(u, h) /\ TalliedRow(u, h)
  <2> DEFINE x == RowOf(u, h)
  <2>1. u.rollup \in 0 .. MaxId
    BY <1>2, <1>3, BoundsAssumption DEF Absent
  <2>2. x \in Rows /\ x[1] = t.next
    BY <1>1, <1>2, <2>1 DEF RowOf, Rows
  <2>3. x[1] >= t.next
    BY <1>2, <2>2
  <2> HIDE DEF x
  <2>4. u.totals[x] = Nothing
    BY <1>1, <2>2, <2>3 DEF Ordered
  <2>5. Group(u, h) = {}
    BY <1>1 DEF Group
  <2> QED
    BY <1>1, <2>4, <2>5, NothingCounted DEF x
<1> QED
  BY <1>1, <1>3 DEF CountedTrees, TalliedTrees

\* A declaration that succeeds leaves the totals right.
LEMMA DeclareCounted ==
    ASSUME NEW t \in Sane, NEW i \in BOOLEAN, NEW q \in BOOLEAN, NEW r \in BOOLEAN,
           MayDeclare(t, i, r), declare(t, i, q, r).ok
    PROVE  /\ t \in CountedTrees => declare(t, i, q, r).tree \in CountedTrees
           /\ SumsFit /\ t \in TalliedTrees => declare(t, i, q, r).tree \in TalliedTrees
<1> DEFINE o == declare(t, i, q, r)
<1>1. CASE t.cid = 0
  <2>1. o = Created(t, i, q, r) /\ Free(t)
    BY <1>1 DEF declare, MayDeclare, Free
  <2>2. BareAs(t, Created(t, i, q, r).tree)
    BY <2>1, CreatedIs
  <2> HIDE DEF o
  <2>3. /\ t \in CountedTrees => o.tree \in CountedTrees
        /\ o.tree \in TalliedTrees
    BY <2>1, <2>2, CreatedCounted
  <2> QED
    BY <2>3 DEF o
<1>2. CASE t.cid # 0
  <2> DEFINE u == RollupPart(t, r).tree
  <2>1. o = Redeclared(t, i, q, r)
    BY <1>2 DEF declare
  <2>2. /\ o \in Outcomes /\ RollupPart(t, r).ok
        /\ \/ i /\ t.index = Absent /\ o = WithIndex(u, q)
           \/ o.tree = WithoutEntries(u)
           \/ o.tree = u
    BY <1>2, <2>1, RedeclaredIs DEF MayDeclare
  <2>3. SameIndexing(t, u) /\ u.nextIndex = t.nextIndex
    BY <1>2, RollupPartIs DEF MayDeclare
  <2>4. /\ t \in CountedTrees => u \in CountedTrees
        /\ SumsFit /\ t \in TalliedTrees => u \in TalliedTrees
    BY <1>2, <2>2, RollupPartCounted DEF MayDeclare
  <2> HIDE DEF u
  <2>5. u \in Sane /\ u.cid # 0
    BY <1>2, <2>3 DEF SameIndexing
  <2>6. SameCounting(u, o.tree)
    <3>1. CASE i /\ t.index = Absent /\ o = WithIndex(u, q)
      <4>1. u.nextIndex <= MaxId /\ o.ok
        BY <2>3, <3>1 DEF MayDeclare
      <4> HIDE DEF o
      <4> QED
        BY <2>5, <3>1, <4>1, WithIndexIs
    <3>2. CASE o.tree = WithoutEntries(u)
      BY <2>5, <3>2, WithoutEntriesIs
    <3>3. CASE o.tree = u
      BY <2>5, <3>3 DEF SameCounting
    <3> QED
      BY <2>2, <3>1, <3>2, <3>3
  <2> HIDE DEF o
  <2>7. /\ t \in CountedTrees => o.tree \in CountedTrees
        /\ SumsFit /\ t \in TalliedTrees => o.tree \in TalliedTrees
    BY <2>4, <2>6, SameTotals
  <2> QED
    BY <2>7 DEF o
<1> QED
  BY <1>1, <1>2

\* Dropping a collection leaves the totals right: its rollup is gone.
LEMMA DropCounted ==
    ASSUME NEW t \in Sane, t.cid # 0
    PROVE  /\ t \in CountedTrees => drop(t) \in CountedTrees
           /\ drop(t) \in TalliedTrees
<1>1. drop(t) \in Sane /\ drop(t).rollup = Absent /\ drop(t).totals = t.totals
  BY DropIs
<1> QED
  BY <1>1 DEF CountedTrees, TalliedTrees

-----------------------------------------------------------------------------
(* The theorems on types and totals.                                       *)

Flags == dirty \in BOOLEAN /\ half \in BOOLEAN /\ steps \in Absent .. MaxSteps

\* The bookkeeping of batches, pages and failures keeps its type.
LEMMA FlagsNext ==
    ASSUME work \in Sane, Flags, [Next]_vars
    PROVE  Flags'
<1>0. MaxSteps \in Nat /\ Absent = -1
  BY BoundsAssumption DEF Absent
<1>a. Absent \in Absent .. MaxSteps
  BY <1>0
<1>1. CASE UNCHANGED vars
  BY <1>1 DEF vars, Flags
<1>2. ASSUME NEW t, Commits(t) PROVE dirty' \in BOOLEAN /\ half' \in BOOLEAN
  BY <1>2 DEF Commits
<1>3. CASE Operates
  <2>1. PICK o : perform(o) \/ step(o)
    BY <1>3 DEF Operates
  <2>2. CASE perform(o)
    <3>1. steps' = steps
      BY <2>2 DEF perform
    <3>2. CASE o.ok /\ o.changed > 0
      BY <1>2, <2>2, <3>1, <3>2 DEF perform, Flags
    <3>3. CASE ~(o.ok /\ o.changed > 0)
      <4>1. dirty' = (dirty \/ o.tree # work) /\ half' = (half \/ o.tree # work)
        BY <2>2, <3>3 DEF perform
      <4>2. dirty' \in BOOLEAN /\ half' \in BOOLEAN
        BY <4>1
      <4> QED
        BY <3>1, <4>2 DEF Flags
    <3> QED
      BY <3>2, <3>3
  <2>3. CASE step(o)
    <3>1. CASE o.ok
      <4>1. dirty' = (dirty \/ o.changed > 0) /\ half' = half
        BY <2>3, <3>1 DEF step
      <4>2. dirty' \in BOOLEAN
        BY <4>1
      <4>3. steps' \in Absent .. MaxSteps
        BY <1>0, <2>3, <3>1 DEF step
      <4> QED
        BY <4>1, <4>2, <4>3 DEF Flags
    <3>2. CASE ~o.ok
      BY <1>a, <2>3, <3>2, Zenon DEF step, Abandon, Flags
    <3> QED
      BY <3>1, <3>2
  <2> QED
    BY <2>1, <2>2, <2>3
<1>4. CASE BatchBegins
  BY <1>0, <1>4 DEF BatchBegins, Flags
<1>5. CASE BatchEnds
  <2>1. steps' \in Absent .. MaxSteps
    BY <1>0, <1>5 DEF BatchEnds
  <2>2. CASE dirty
    BY <1>2, <1>5, <2>1, <2>2 DEF BatchEnds, Flags
  <2>3. CASE ~dirty
    BY <1>5, <2>1, <2>3 DEF BatchEnds, Flags
  <2> QED
    BY <2>2, <2>3
<1>6. CASE Declares
  <2>1. PICK i, q, r \in BOOLEAN : Declare(i, q, r)
    BY <1>6 DEF Declares
  <2> DEFINE o == declare(work, i, q, r)
  <2>2. steps' = steps /\ IF o.ok THEN Commits(o.tree) ELSE Abandon /\ UNCHANGED disk
    BY <2>1 DEF Declare
  <2> HIDE DEF o
  <2> QED
    BY <1>2, <2>2 DEF Abandon, Flags
<1>7. CASE Drop
  BY <1>2, <1>7 DEF Drop, Flags
<1>8. CASE Restart
  BY <1>a, <1>8, Zenon DEF Restart, Abandon, Flags
<1> QED
  BY <1>1, <1>3, <1>4, <1>5, <1>6, <1>7, <1>8, NextIs

\* Operations, declarations and drops all keep counts within their groups, even
\* when they fail.
LEMMA CountedClosed == ClosedAll(CountedTrees)
<1>1. CountedTrees \subseteq Sane
  BY DEF CountedTrees
<1>2. EmptyTree \in CountedTrees
  <2>1. \A r \in Rows : EmptyTree.totals[r] = Nothing
    BY EmptyTreeIs
  <2>2. Nothing.count <= MaxKey
    BY BoundsAssumption DEF Nothing
  <2> QED
    BY <2>1, <2>2, EmptyTreeIs DEF CountedTrees
<1>3. \A t \in CountedTrees : \A o : Operation(t, o) => o.tree \in CountedTrees
  BY OperationCounted
<1>4. \A t \in CountedTrees : \A i, q, r \in BOOLEAN :
         MayDeclare(t, i, r) /\ declare(t, i, q, r).ok => declare(t, i, q, r).tree \in CountedTrees
  BY <1>1, DeclareCounted
<1>5. \A t \in CountedTrees : t.cid # 0 => drop(t) \in CountedTrees
  BY <1>1, DropCounted
<1> QED
  BY <1>1, <1>2, <1>3, <1>4, <1>5 DEF ClosedAll, Closed

\* A counted tree has the types of TypeOK.
LEMMA CountedTypes ==
    ASSUME NEW t \in CountedTrees
    PROVE  /\ t.cid \in 0..MaxCollection /\ t.next \in 1..MaxCollection + 1
           /\ t.index \in Ids /\ t.rollup \in Ids
           /\ t.nextIndex \in 0..MaxId + 1 /\ t.nextRollup \in 0..MaxId + 1
           /\ t.docs \in [Keys -> Docs \cup {NoDoc}]
           /\ \A r \in DOMAIN t.totals : t.totals[r].count \in 0..Cardinality(Keys)
           /\ t.entries \subseteq (1..MaxCollection) \X (0..MaxId) \X (UNION Elements) \X Keys
<1>1. t \in Trees
  BY DEF CountedTrees, Sane
<1>2. ASSUME NEW r \in DOMAIN t.totals PROVE t.totals[r].count \in 0 .. Cardinality(Keys)
  <2>1. r \in Rows /\ t.totals[r].count \in Nat
    BY <1>1 DEF Trees
  <2>2. t.totals[r].count <= MaxKey
    BY <2>1 DEF CountedTrees
  <2> QED
    BY <2>1, <2>2, KeysFinite, BoundsAssumption
<1> QED
  BY <1>1, <1>2 DEF Trees

\* Two counted trees are all that TypeOK asks for.
LEMMA CountedOK == BothIn(CountedTrees) /\ Flags => TypeOK
BY CountedTypes DEF BothIn, Flags, TypeOK

\* Every tree is well formed, its entries of the numbers given so far, and no
\* total counts more documents than there are keys: whatever callers do,
\* operations that failed half way included (Collection.write, contribute).
THEOREM TypeOKAlways == Spec => []TypeOK
<1>1. Init => BothIn(CountedTrees) /\ Flags
  <2>1. Init => BothIn(CountedTrees)
    BY CountedClosed, BothInInit
  <2>2. Init => Flags
    <3>1. Absent \in Absent .. MaxSteps
      BY BoundsAssumption DEF Absent
    <3> QED
      BY <3>1, Zenon DEF Init, Flags
  <2> QED
    BY <2>1, <2>2
<1>2. BothIn(CountedTrees) /\ Flags /\ [Next]_vars => (BothIn(CountedTrees) /\ Flags)'
  <2>1. BothIn(CountedTrees) /\ [Next]_vars => BothIn(CountedTrees)'
    BY CountedClosed, BothInNext
  <2>2. BothIn(CountedTrees) => work \in Sane
    BY DEF BothIn, CountedTrees
  <2>3. work \in Sane /\ Flags /\ [Next]_vars => Flags'
    BY FlagsNext
  <2> QED
    BY <2>1, <2>2, <2>3
<1> QED
  BY <1>1, <1>2, CountedOK, PTL DEF Spec

\* Operations, declarations and drops that succeed keep totals exact.
LEMMA TalliedClosed ==
    ASSUME SumsFit PROVE Closed(TalliedTrees)
<1>1. TalliedTrees \subseteq Sane
  BY DEF TalliedTrees
<1>2. EmptyTree \in TalliedTrees
  BY EmptyTreeIs DEF TalliedTrees
<1>3. \A t \in TalliedTrees : \A o : Operation(t, o) /\ o.ok => o.tree \in TalliedTrees
  BY OperationTallied
<1>4. \A t \in TalliedTrees : \A i, q, r \in BOOLEAN :
         MayDeclare(t, i, r) /\ declare(t, i, q, r).ok => declare(t, i, q, r).tree \in TalliedTrees
  BY <1>1, DeclareCounted
<1>5. \A t \in TalliedTrees : t.cid # 0 => drop(t) \in TalliedTrees
  BY <1>1, DropCounted
<1> QED
  BY <1>1, <1>2, <1>3, <1>4, <1>5 DEF Closed

\* Exact totals are what TotalsFollow asks for.
LEMMA TalliedFollows == Kept(TalliedTrees) => TotalsFollow
<1>1. SUFFICES ASSUME Kept(TalliedTrees), disk.rollup # Absent, NEW h \in Groups
      PROVE  LET ks == {k \in Stored(disk) : disk.docs[k].h = h}
                 row == disk.totals[<<disk.cid, disk.rollup, h>>]
             IN  row.count = Cardinality(ks) /\ row.sum = SumOf(disk, ks)
  BY Zenon DEF TotalsFollow
<1>2. TalliedRow(disk, h)
  BY <1>1 DEF Kept, TalliedTrees
<1> QED
  BY <1>2, Zenon DEF TalliedRow, CountOf, RowOf, Group

\* The totals are the count and the sum of the stored documents, by group
\* (contribute, buildRollup): for callers that stop after an operation that
\* failed half way, and as long as no sum is too large for a float64 to hold
\* exactly.
THEOREM TotalsFollowAlways == (~CarryOn /\ SumsFit) => (Spec => []TotalsFollow)
<1>1. SUFFICES ASSUME ~CarryOn, SumsFit PROVE Spec => []TotalsFollow
  OBVIOUS
<1>2. Closed(TalliedTrees)
  BY <1>1, TalliedClosed
<1>3. Init => Kept(TalliedTrees)
  BY <1>2, KeptInit
<1>4. Kept(TalliedTrees) /\ [Next]_vars => Kept(TalliedTrees)'
  BY <1>1, <1>2, KeptNext
<1> QED
  BY <1>3, <1>4, TalliedFollows, PTL DEF Spec

=============================================================================
