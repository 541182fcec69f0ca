------------------------- MODULE ReplicationProofs -------------------------
(***************************************************************************)
(* What is proved about module Replication, for every set of followers,    *)
(* every choice of whom they follow, every cap on the log and batch size,  *)
(* and every bound.                                                        *)
(***************************************************************************)
EXTENDS Replication, TLAPS, NaturalsInduction, WellFoundedInduction

-----------------------------------------------------------------------------
(* One database.                                                           *)

\* The numbers of the entries kept of n.
Kept(n) == {l \in 1 .. n : Retain = 0 \/ l + Retain > n}

\* A database is what it remembers of write ids and the entries that made it:
\* its counter and its log follow from them.
Rec(n, log, done, data) == [latest |-> n, log |-> log, done |-> done, data |-> data]

LogOf(s) == [l \in Kept(Len(s)) |-> s[l]]

Made(d, s) == Rec(Len(s), LogOf(s), d, s)

Dbs == {Made(d, s) : d \in [WriteIds -> Nat], s \in Seq(Entries)}

\* The earliest entry kept of n.
Oldest(n) == IF n = 0 THEN 0 ELSE IF Retain = 0 \/ n <= Retain THEN 1 ELSE n - Retain + 1

\* A write id is forgotten with an entry of its own that goes when there are n.
Forgotten(s, n, w) == Retain > 0 /\ n > Retain /\ s[n - Retain].id = w

\* What is remembered once e has been put after s.
NextDone(d, s, e) ==
    [w \in WriteIds |->
        IF Forgotten(s, Len(s) + 1, w) THEN Unknown
        ELSE IF w = e.id THEN Len(s) + 1 ELSE d[w]]

\* The parts of a database.
LEMMA DbParts ==
    ASSUME NEW db \in Dbs
    PROVE  /\ db.done \in [WriteIds -> Nat]
           /\ db.data \in Seq(Entries)
           /\ db.latest = Len(db.data)
           /\ db.latest \in Nat
           /\ db.log = LogOf(db.data)
           /\ db = Made(db.done, db.data)
<1>1. PICK d \in [WriteIds -> Nat], s \in Seq(Entries) : db = Made(d, s)
  BY DEF Dbs
<1>2. db.done = d /\ db.data = s /\ db.latest = Len(s)
      /\ db.log = LogOf(s)
  BY <1>1 DEF Made, Rec
<1>3. Len(s) \in Nat
  OBVIOUS
<1> QED
  BY <1>1, <1>2, <1>3

\* What is made of ids and entries is a database, with these parts.
LEMMA MadeIsDb ==
    ASSUME NEW d \in [WriteIds -> Nat], NEW s \in Seq(Entries)
    PROVE  /\ Made(d, s) \in Dbs
           /\ Made(d, s).done = d /\ Made(d, s).data = s /\ Made(d, s).latest = Len(s)
           /\ Made(d, s).log = LogOf(s)
<1>1. Made(d, s) \in Dbs
  BY DEF Dbs
<1>2. /\ Made(d, s).done = d /\ Made(d, s).data = s /\ Made(d, s).latest = Len(s)
      /\ Made(d, s).log = LogOf(s)
  BY DEF Made, Rec
<1> QED
  BY <1>1, <1>2

\* A database just created is one.
LEMMA EmptyIsMade == EmptyDb \in Dbs /\ EmptyDb.data = <<>> /\ EmptyDb.latest = 0
                     /\ EmptyDb.done = [w \in WriteIds |-> 0]
<1>1. Kept(0) = {}
  BY DEF Kept
<1>2. <<>> \in Seq(Entries) /\ Len(<<>>) = 0
  OBVIOUS
<1>3. [l \in Kept(0) |-> <<>>[l]] = <<>>
  BY <1>1
<1>4. [w \in WriteIds |-> Unknown] \in [WriteIds -> Nat]
  BY DEF Unknown
<1>5. EmptyDb = Made([w \in WriteIds |-> Unknown], <<>>)
  BY <1>2, <1>3 DEF EmptyDb, Made, Rec, LogOf
<1>6. EmptyDb.data = <<>> /\ EmptyDb.latest = 0 /\ EmptyDb.done = [w \in WriteIds |-> 0]
  BY DEF EmptyDb, Unknown
<1> QED
  BY <1>2, <1>4, <1>5, <1>6, MadeIsDb

\* OldestLSN is the earliest number kept.
LEMMA OldestIs ==
    ASSUME NEW db \in Dbs
    PROVE  OldestLSN(db) = Oldest(db.latest)
<1> DEFINE n == db.latest
<1>1. n \in Nat /\ DOMAIN db.log = Kept(n)
  BY DbParts DEF LogOf
<1>2. CASE n = 0
  BY <1>1, <1>2 DEF OldestLSN, Oldest, Kept
<1>3. CASE n # 0
  <2>1. Oldest(n) \in Kept(n) /\ \A k \in Kept(n) : Oldest(n) <= k
    BY <1>1, <1>3, RetainAssumption DEF Oldest, Kept
  <2>2. Kept(n) # {} /\ Kept(n) \subseteq Nat
    BY <2>1 DEF Kept
  <2>3. OldestLSN(db) = CHOOSE l \in Kept(n) : \A k \in Kept(n) : l <= k
    BY <1>1, <2>2 DEF OldestLSN
  <2> DEFINE c == CHOOSE l \in Kept(n) : \A k \in Kept(n) : l <= k
  <2>4. c \in Kept(n) /\ \A k \in Kept(n) : c <= k
    BY <2>1
  <2> HIDE DEF c
  <2>5. c = Oldest(n)
    BY <2>1, <2>2, <2>4
  <2> QED
    BY <2>3, <2>5 DEF c
<1> QED
  BY <1>2, <1>3

\* Records of four fields are equal when their fields are.
LEMMA SameFields ==
    ASSUME NEW A, NEW B, NEW C, NEW D,
           NEW q \in [latest : A, log : B, done : C, data : D],
           NEW r \in [latest : A, log : B, done : C, data : D],
           q.latest = r.latest, q.log = r.log, q.done = r.done, q.data = r.data
    PROVE  q = r
OBVIOUS

\* Records with some of their fields replaced.
LEMMA Replaced ==
    ASSUME NEW a, NEW b, NEW c, NEW d, NEW x, NEW y, NEW z, NEW v,
           NEW r, r = [latest |-> a, log |-> b, done |-> c, data |-> d]
    PROVE  /\ r.latest = a /\ r.log = b /\ r.done = c /\ r.data = d
           /\ [r EXCEPT !.latest = x, !.log = y, !.data = z]
                = [latest |-> x, log |-> y, done |-> c, data |-> z]
           /\ [r EXCEPT !.log = y, !.done = v]
                = [latest |-> a, log |-> y, done |-> v, data |-> d]
           /\ [r EXCEPT !.done = v] = [latest |-> a, log |-> b, done |-> v, data |-> d]
<1> DEFINE A == {a, x}
           B == {b, y}
           C == {c, v}
           D == {d, z}
           Recs == [latest : A, log : B, done : C, data : D]
<1>1. r.latest = a /\ r.log = b /\ r.done = c /\ r.data = d /\ r \in Recs
  OBVIOUS
<1>2. a \in A /\ x \in A /\ b \in B /\ y \in B /\ c \in C /\ v \in C /\ d \in D /\ z \in D
  OBVIOUS
<1> HIDE DEF A, B, C, D
<1>3. [r EXCEPT !.latest = x, !.log = y, !.data = z]
        = [latest |-> x, log |-> y, done |-> c, data |-> z]
  <2> DEFINE e == [r EXCEPT !.latest = x, !.log = y, !.data = z]
             g == [latest |-> x, log |-> y, done |-> c, data |-> z]
  <2>1. e \in Recs /\ e.latest = x /\ e.log = y /\ e.done = c /\ e.data = z
    BY <1>1, <1>2
  <2>2. g \in Recs /\ g.latest = x /\ g.log = y /\ g.done = c /\ g.data = z
    BY <1>2
  <2> HIDE DEF e, g
  <2>3. e = g
    BY <2>1, <2>2, SameFields
  <2> QED
    BY <2>3 DEF e, g
<1>4. [r EXCEPT !.log = y, !.done = v] = [latest |-> a, log |-> y, done |-> v, data |-> d]
  <2> DEFINE e == [r EXCEPT !.log = y, !.done = v]
             g == [latest |-> a, log |-> y, done |-> v, data |-> d]
  <2>1. e \in Recs /\ e.latest = a /\ e.log = y /\ e.done = v /\ e.data = d
    BY <1>1, <1>2
  <2>2. g \in Recs /\ g.latest = a /\ g.log = y /\ g.done = v /\ g.data = d
    BY <1>2
  <2> HIDE DEF e, g
  <2>3. e = g
    BY <2>1, <2>2, SameFields
  <2> QED
    BY <2>3 DEF e, g
<1>5. [r EXCEPT !.done = v] = [latest |-> a, log |-> b, done |-> v, data |-> d]
  <2> DEFINE e == [r EXCEPT !.done = v]
             g == [latest |-> a, log |-> b, done |-> v, data |-> d]
  <2>1. e \in Recs /\ e.latest = a /\ e.log = b /\ e.done = v /\ e.data = d
    BY <1>1, <1>2
  <2>2. g \in Recs /\ g.latest = a /\ g.log = b /\ g.done = v /\ g.data = d
    BY <1>2
  <2> HIDE DEF e, g
  <2>3. e = g
    BY <2>1, <2>2, SameFields
  <2> QED
    BY <2>3 DEF e, g
<1> QED
  BY <1>1, <1>3, <1>4, <1>5

NewLog(b, n, e) == [l \in DOMAIN b \cup {n} |-> IF l = n THEN e ELSE b[l]]

Noted(c, n, e) == [w \in WriteIds |-> IF w = e.id THEN n ELSE c[w]]

Doomed(b, n) == {l \in DOMAIN b : l <= n - Retain}

Cut(b, n) == [l \in DOMAIN b \ Doomed(b, n) |-> b[l]]

CutDone(b, c, n) ==
    [w \in WriteIds |-> IF \E l \in Doomed(b, n) : b[l].id = w THEN Unknown ELSE c[w]]

\* What Written makes of each part.
LEMMA WrittenIs ==
    ASSUME NEW a, NEW b, NEW c, NEW d, NEW n, NEW e
    PROVE  Written(Rec(a, b, c, d), n, e) = Rec(n, NewLog(b, n, e), c, Append(d, e))
<1>1. PICK r : r = [latest |-> a, log |-> b, done |-> c, data |-> d]
  OBVIOUS
<1>2. r.log = b /\ r.data = d
  BY <1>1
<1>3. PICK y : y = NewLog(b, n, e)
  OBVIOUS
<1>4. PICK z : z = Append(d, e)
  OBVIOUS
<1>5. Written(r, n, e)
        = [r EXCEPT !.latest = n,
                    !.log = [l \in DOMAIN r.log \cup {n} |-> IF l = n THEN e ELSE r.log[l]],
                    !.data = Append(r.data, e)]
  BY Zenon DEF Written
<1>6. [l \in DOMAIN r.log \cup {n} |-> IF l = n THEN e ELSE r.log[l]] = y
  BY <1>2, <1>3 DEF NewLog
<1>7. Written(r, n, e) = [r EXCEPT !.latest = n, !.log = y, !.data = z]
  BY <1>2, <1>4, <1>5, <1>6, Zenon
<1>8. Written(r, n, e) = [latest |-> n, log |-> y, done |-> c, data |-> z]
  BY <1>1, <1>7, Replaced
<1> QED
  BY <1>1, <1>3, <1>4, <1>8, Zenon DEF Rec

\* What noteWrite makes of each part.
LEMMA NoteIs ==
    ASSUME NEW a, NEW b, NEW c \in [WriteIds -> Nat], NEW d, NEW n, NEW e \in Entries
    PROVE  noteWrite(Rec(a, b, c, d), n, e) = Rec(a, b, Noted(c, n, e), d)
<1>1. PICK r : r = [latest |-> a, log |-> b, done |-> c, data |-> d]
  OBVIOUS
<1>2. r.done = c
  BY <1>1
<1>3. PICK y : y = Noted(c, n, e)
  OBVIOUS
<1>4. CASE e.id = NoId
  <2>1. y = c
    BY <1>3, <1>4, NoIdAssumption DEF Noted
  <2>2. noteWrite(r, n, e) = r
    BY <1>4 DEF noteWrite
  <2> QED
    BY <1>1, <1>3, <2>1, <2>2, Zenon DEF Rec
<1>5. CASE e.id # NoId
  <2>1. [c EXCEPT ![e.id] = n] = y
    BY <1>3, <1>5 DEF Entries, Noted
  <2>2. noteWrite(r, n, e) = [r EXCEPT !.done = [r.done EXCEPT ![e.id] = n]]
    BY <1>5, Zenon DEF noteWrite
  <2>3. noteWrite(r, n, e) = [r EXCEPT !.done = y]
    BY <1>2, <2>1, <2>2, Zenon
  <2>4. noteWrite(r, n, e) = [latest |-> a, log |-> b, done |-> y, data |-> d]
    BY <1>1, <2>3, Replaced
  <2> QED
    BY <1>1, <1>3, <2>4, Zenon DEF Rec
<1> QED
  BY <1>4, <1>5

\* What trim makes of each part.
LEMMA TrimIs ==
    ASSUME NEW a, NEW b, NEW c, NEW d
    PROVE  /\ Retain = 0 \/ a <= Retain => trim(Rec(a, b, c, d)) = Rec(a, b, c, d)
           /\ ~(Retain = 0 \/ a <= Retain) =>
                  trim(Rec(a, b, c, d)) = Rec(a, Cut(b, a), CutDone(b, c, a), d)
<1>1. PICK r : r = [latest |-> a, log |-> b, done |-> c, data |-> d]
  OBVIOUS
<1>2. r.latest = a /\ r.log = b /\ r.done = c
  BY <1>1
<1>3. PICK y : y = Cut(b, a)
  OBVIOUS
<1>4. PICK v : v = CutDone(b, c, a)
  OBVIOUS
<1>5. CASE Retain = 0 \/ a <= Retain
  <2>1. trim(r) = r
    BY <1>2, <1>5, Zenon DEF trim
  <2> QED
    BY <1>1, <1>5, <2>1, Zenon DEF Rec
<1>6. CASE ~(Retain = 0 \/ a <= Retain)
  <2>1. {l \in DOMAIN r.log : l <= r.latest - Retain} = Doomed(b, a)
    BY <1>2, Zenon DEF Doomed
  <2>2. ~(Retain = 0 \/ r.latest <= Retain)
    BY <1>2, <1>6, Zenon
  <2>3. trim(r) = [r EXCEPT !.log = [l \in DOMAIN r.log \ Doomed(b, a) |-> r.log[l]],
                            !.done = [w \in WriteIds |->
                                        IF \E l \in Doomed(b, a) : r.log[l].id = w
                                        THEN Unknown ELSE r.done[w]]]
    BY <2>1, <2>2, Zenon DEF trim
  <2>4. [l \in DOMAIN r.log \ Doomed(b, a) |-> r.log[l]] = y
    BY <1>2, <1>3 DEF Cut
  <2>5. [w \in WriteIds |->
           IF \E l \in Doomed(b, a) : r.log[l].id = w THEN Unknown ELSE r.done[w]] = v
    BY <1>2, <1>4 DEF CutDone
  <2>6. trim(r) = [r EXCEPT !.log = y, !.done = v]
    BY <2>3, <2>4, <2>5, Zenon
  <2>7. trim(r) = [latest |-> a, log |-> y, done |-> v, data |-> d]
    BY <1>1, <2>6, Replaced
  <2> QED
    BY <1>1, <1>3, <1>4, <1>6, <2>7, Zenon DEF Rec
<1> QED
  BY <1>5, <1>6

\* Apply, and record, put one entry at the end and forget at most one write id.
LEMMA ApplyIs ==
    ASSUME NEW d \in [WriteIds -> Nat], NEW s \in Seq(Entries), NEW e \in Entries
    PROVE  Apply(Made(d, s), Len(s) + 1, e) = Made(NextDone(d, s, e), Append(s, e))
<1> DEFINE n == Len(s) + 1
           t == Append(s, e)
           full == NewLog(LogOf(s), n, e)
           noted == Noted(d, n, e)
<1>1. /\ Len(s) \in Nat /\ n \in Nat /\ n > 0 /\ t \in Seq(Entries) /\ Len(t) = n /\ t[n] = e
      /\ \A l \in 1 .. Len(s) : t[l] = s[l]
      /\ n = Len(s) + 1
  OBVIOUS
<1>2. Apply(Made(d, s), n, e) = trim(Rec(n, full, noted, t))
  BY WrittenIs, NoteIs DEF Apply, Made
<1>3. /\ DOMAIN full = Kept(Len(s)) \cup {n}
      /\ \A l \in Kept(Len(s)) \cup {n} : full[l] = t[l]
  BY <1>1 DEF NewLog, LogOf, Kept
<1>4. NextDone(d, s, e) = [w \in WriteIds |-> IF Forgotten(s, n, w) THEN Unknown ELSE noted[w]]
  BY DEF NextDone, Noted
<1>5. noted = [w \in WriteIds |-> noted[w]]
  BY DEF Noted
<1>6. full = [l \in DOMAIN full |-> full[l]]
  BY DEF NewLog
<1> HIDE DEF full, noted
<1>7. CASE Retain = 0 \/ n <= Retain
  <2>1. Kept(Len(s)) \cup {n} = Kept(n)
    BY <1>1, <1>7, RetainAssumption DEF Kept
  <2>2. NextDone(d, s, e) = noted
    <3>1. \A w \in WriteIds : ~Forgotten(s, n, w)
      BY <1>1, <1>7, RetainAssumption DEF Forgotten
    <3> QED
      BY <1>4, <1>5, <3>1
  <2>3. full = LogOf(t)
    BY <1>1, <1>3, <1>6, <2>1 DEF LogOf
  <2>4. trim(Rec(n, full, noted, t)) = Rec(n, full, noted, t)
    BY <1>7, TrimIs
  <2> QED
    BY <1>1, <1>2, <2>2, <2>3, <2>4, Zenon DEF Made
<1>8. CASE ~(Retain = 0 \/ n <= Retain)
  <2>1. /\ Doomed(full, n) = {n - Retain}
        /\ n - Retain \in 1 .. Len(s) /\ n - Retain \in Kept(Len(s))
    BY <1>1, <1>3, <1>8, RetainAssumption DEF Kept, Doomed
  <2>2. DOMAIN full \ Doomed(full, n) = Kept(n)
    <3>1. \A l : l \in (Kept(Len(s)) \cup {n}) \ {n - Retain} <=> l \in Kept(n)
      BY <1>1, <1>8, RetainAssumption DEF Kept
    <3> QED
      BY <1>3, <2>1, <3>1
  <2>3. Cut(full, n) = LogOf(t)
    BY <1>1, <1>3, <2>2 DEF Cut, LogOf
  <2>4. CutDone(full, noted, n) = NextDone(d, s, e)
    <3>1. full[n - Retain] = s[n - Retain]
      BY <1>1, <1>3, <2>1
    <3>2. \A w \in WriteIds : (\E l \in Doomed(full, n) : full[l].id = w) <=> Forgotten(s, n, w)
      BY <1>1, <1>8, <2>1, <3>1, RetainAssumption DEF Forgotten
    <3> QED
      BY <1>4, <3>2 DEF CutDone
  <2>5. trim(Rec(n, full, noted, t)) = Rec(n, Cut(full, n), CutDone(full, noted, n), t)
    BY <1>8, TrimIs
  <2> QED
    BY <1>1, <1>2, <2>3, <2>4, <2>5, Zenon DEF Made
<1> QED
  BY <1>7, <1>8

\* What is remembered stays a number for every write id.
LEMMA NextDoneType ==
    ASSUME NEW d \in [WriteIds -> Nat], NEW s \in Seq(Entries), NEW e \in Entries
    PROVE  NextDone(d, s, e) \in [WriteIds -> Nat]
<1>1. Len(s) + 1 \in Nat
  OBVIOUS
<1> QED
  BY <1>1 DEF NextDone, Unknown

\* One entry more.
LEMMA ApplyFacts ==
    ASSUME NEW db \in Dbs, NEW e \in Entries
    PROVE  LET r == Apply(db, db.latest + 1, e) IN
           /\ r \in Dbs
           /\ r.data = Append(db.data, e)
           /\ r.latest = db.latest + 1
           /\ r.done = NextDone(db.done, db.data, e)
           /\ record(db, e) = r
<1> DEFINE d == db.done
           s == db.data
           r == Apply(db, db.latest + 1, e)
<1>1. d \in [WriteIds -> Nat] /\ s \in Seq(Entries) /\ db = Made(d, s) /\ db.latest = Len(s)
  BY DbParts
<1> HIDE DEF d, s
<1>2. r = Made(NextDone(d, s, e), Append(s, e))
  BY <1>1, ApplyIs
<1>3. NextDone(d, s, e) \in [WriteIds -> Nat] /\ Append(s, e) \in Seq(Entries)
      /\ Len(Append(s, e)) = Len(s) + 1
  BY <1>1, NextDoneType
<1>4. record(db, e) = r
  BY DEF record, Apply
<1> HIDE DEF r
<1>5. r \in Dbs /\ r.data = Append(s, e) /\ r.latest = Len(s) + 1 /\ r.done = NextDone(d, s, e)
  BY <1>2, <1>3, MadeIsDb
<1> QED
  BY <1>1, <1>4, <1>5 DEF r, d, s

\* The same for an entry that is handed the next number.
LEMMA RecordFacts ==
    ASSUME NEW db \in Dbs, NEW e \in Entries
    PROVE  /\ record(db, e) \in Dbs
           /\ record(db, e).data = Append(db.data, e)
           /\ record(db, e).done = NextDone(db.done, db.data, e)
<1>1. PICK r : r = Apply(db, db.latest + 1, e)
  OBVIOUS
<1>2. r \in Dbs /\ r.data = Append(db.data, e) /\ r.done = NextDone(db.done, db.data, e)
      /\ record(db, e) = r
  BY <1>1, ApplyFacts
<1> QED
  BY <1>2

-----------------------------------------------------------------------------
(* An operation that writes n entries.                                     *)

\* Every non-empty set of naturals has a least member.
LEMMA LeastNatural ==
    ASSUME NEW T, T \subseteq Nat, T # {}
    PROVE  \E k \in T : \A j \in T : k <= j
<1>1. PICK k \in T : \A j \in T : ~(<<j, k>> \in OpToRel(<, Nat))
  BY NatLessThanWellFounded, WFMin
<1>2. ASSUME NEW j \in T PROVE k <= j
  <2>1. k \in Nat /\ j \in Nat
    OBVIOUS
  <2>2. ~(j < k)
    BY <1>1, <2>1 DEF OpToRel
  <2> QED
    BY <2>1, <2>2
<1> QED
  BY <1>2

\* The function recordAll is defined by exists.
LEMMA RecordingExists ==
    ASSUME NEW n \in Nat, NEW db, NEW e
    PROVE  \E g : g = [i \in 0 .. n |-> IF i = 0 THEN db ELSE record(g[i - 1], e)]
<1> DEFINE Has(k) == \E g : g = [i \in 0 .. k |-> IF i = 0 THEN db ELSE record(g[i - 1], e)]
           T == {k \in Nat : ~Has(k)}
<1>1. SUFFICES ASSUME T # {} PROVE FALSE
  OBVIOUS
<1>2. PICK k \in T : \A j \in T : k <= j
  BY <1>1, LeastNatural
<1>3. CASE k = 0
  <2> DEFINE g == [i \in 0 .. 0 |-> db]
  <2>1. g = [i \in 0 .. 0 |-> IF i = 0 THEN db ELSE record(g[i - 1], e)]
    OBVIOUS
  <2>2. Has(0)
    BY <2>1
  <2> QED
    BY <1>2, <1>3, <2>2
<1>4. CASE k # 0
  <2>1. k - 1 \in Nat /\ ~(k <= k - 1) /\ k \in Nat
    BY <1>2, <1>4
  <2>2. Has(k - 1)
    BY <1>2, <2>1
  <2>3. PICK g : g = [i \in 0 .. (k - 1) |-> IF i = 0 THEN db ELSE record(g[i - 1], e)]
    BY <2>2
  <2> DEFINE h == [i \in 0 .. k |-> IF i = k THEN record(g[k - 1], e) ELSE g[i]]
  <2>4. \A i \in 0 .. k : h[i] = IF i = 0 THEN db ELSE record(h[i - 1], e)
    <3> SUFFICES ASSUME NEW i \in 0 .. k
                 PROVE  h[i] = IF i = 0 THEN db ELSE record(h[i - 1], e)
      OBVIOUS
    <3>1. CASE i = k
      <4>1. i # 0 /\ i - 1 \in 0 .. k /\ i - 1 # k
        BY <1>4, <2>1, <3>1
      <4> QED
        BY <3>1, <4>1
    <3>2. CASE i # k
      <4>1. i \in 0 .. (k - 1)
        BY <2>1, <3>2
      <4>2. g[i] = IF i = 0 THEN db ELSE record(g[i - 1], e)
        BY <2>3, <4>1
      <4>3. i # 0 => i - 1 \in 0 .. k /\ i - 1 # k
        BY <2>1, <4>1
      <4> QED
        BY <3>2, <4>2, <4>3
    <3> QED
      BY <3>1, <3>2
  <2>5. h = [i \in 0 .. k |-> IF i = 0 THEN db ELSE record(h[i - 1], e)]
    <3>1. h = [i \in 0 .. k |-> h[i]]
      OBVIOUS
    <3> QED
      BY <2>4, <3>1
  <2>6. Has(k)
    BY <2>5
  <2> QED
    BY <1>2, <2>6
<1> QED
  BY <1>3, <1>4

\* What holds of the database before and is kept by each entry holds after all
\* of them.
LEMMA RecordAllIn ==
    ASSUME NEW n \in Nat, NEW db, NEW e, NEW S, db \in S[0],
           \A i \in 1 .. n : \A d \in S[i - 1] : record(d, e) \in S[i]
    PROVE  recordAll(db, e, n) \in S[n]
<1> DEFINE f == CHOOSE g : g = [i \in 0 .. n |-> IF i = 0 THEN db ELSE record(g[i - 1], e)]
<1>1. f = [i \in 0 .. n |-> IF i = 0 THEN db ELSE record(f[i - 1], e)]
  BY RecordingExists
<1>2. recordAll(db, e, n) = f[n]
  BY Zenon DEF recordAll
<1> HIDE DEF f
<1> DEFINE T == {k \in Nat : k <= n /\ f[k] \notin S[k]}
<1>3. SUFFICES ASSUME T # {} PROVE FALSE
  BY <1>2
<1>4. PICK k \in T : \A j \in T : k <= j
  BY <1>3, LeastNatural
<1>5. CASE k = 0
  <2>1. f[0] = db
    BY <1>1
  <2> QED
    BY <1>4, <1>5, <2>1
<1>6. CASE k # 0
  <2>1. k \in 1 .. n /\ k - 1 \in Nat /\ k - 1 <= n /\ ~(k <= k - 1) /\ k \in 0 .. n
    BY <1>4, <1>6
  <2>2. f[k - 1] \in S[k - 1]
    BY <1>4, <2>1
  <2>3. f[k] = record(f[k - 1], e)
    BY <1>1, <1>6, <2>1
  <2> QED
    BY <1>4, <2>1, <2>2, <2>3
<1> QED
  BY <1>5, <1>6

\* An entry the id of entry i was on has aged out, with n entries in all.
Aged(s, n, i) == Retain # 0 /\ \E k \in 1 .. i : s[k].id = s[i].id /\ k + Retain <= n

\* A write id leads to the last entry it is on, which is kept, or to nothing,
\* when an entry it was on has aged out.
Remembers(db) ==
    \A w \in WriteIds :
        /\ db.done[w] # Unknown =>
               /\ db.done[w] \in Kept(Len(db.data))
               /\ db.data[db.done[w]].id = w
               /\ \A i \in 1 .. Len(db.data) : db.data[i].id = w => i <= db.done[w]
        /\ db.done[w] = Unknown =>
               \A i \in 1 .. Len(db.data) :
                  db.data[i].id = w => Aged(db.data, Len(db.data), i)

\* One entry more keeps it so (noteWrite and trim).
LEMMA RemembersMore ==
    ASSUME NEW db \in Dbs, NEW new \in Dbs, Remembers(db), NEW e \in Entries,
           new.data = Append(db.data, e), new.done = NextDone(db.done, db.data, e)
    PROVE  Remembers(new)
<1> DEFINE s == db.data
           t == new.data
           n == Len(s)
<1>1. s \in Seq(Entries) /\ n \in Nat /\ db.done \in [WriteIds -> Nat] /\ Retain \in Nat
  BY DbParts, RetainAssumption
<1>2. Len(t) = n + 1 /\ t[n + 1] = e /\ \A i \in 1 .. n : t[i] = s[i]
  BY <1>1
<1>3. ASSUME NEW w \in WriteIds, Forgotten(s, n + 1, w)
      PROVE  /\ new.done[w] = Unknown
             /\ \A i \in 1 .. (n + 1) : t[i].id = w => Aged(t, n + 1, i)
  <2>1. new.done[w] = Unknown
    BY <1>3 DEF NextDone
  <2>2. PICK q : q = (n + 1) - Retain
    OBVIOUS
  <2>3. Retain > 0 /\ q \in 1 .. n /\ q + Retain = n + 1 /\ s[q].id = w
    BY <1>1, <1>3, <2>2 DEF Forgotten
  <2>4. t[q].id = w
    BY <1>2, <2>3
  <2>5. ASSUME NEW i \in 1 .. (n + 1), t[i].id = w PROVE Aged(t, n + 1, i)
    <3>1. CASE i >= q
      <4>1. q \in 1 .. i /\ t[q].id = t[i].id /\ q + Retain <= n + 1
        BY <1>1, <2>3, <2>4, <2>5, <3>1
      <4> QED
        BY <2>3, <4>1 DEF Aged
    <3>2. CASE ~(i >= q)
      <4>1. i \in 1 .. i /\ i + Retain <= n + 1
        BY <1>1, <2>3, <3>2
      <4> QED
        BY <2>3, <4>1 DEF Aged
    <3> QED
      BY <3>1, <3>2
  <2> QED
    BY <2>1, <2>5
<1>4. ASSUME NEW w \in WriteIds, ~Forgotten(s, n + 1, w), w = e.id
      PROVE  /\ new.done[w] = n + 1 /\ n + 1 # Unknown
             /\ n + 1 \in Kept(n + 1) /\ t[n + 1].id = w
             /\ \A i \in 1 .. (n + 1) : i <= n + 1
  <2>1. new.done[w] = n + 1
    BY <1>4 DEF NextDone
  <2> QED
    BY <1>1, <1>2, <1>4, <2>1 DEF Kept, Unknown
<1>5. ASSUME NEW w \in WriteIds, ~Forgotten(s, n + 1, w), w # e.id, db.done[w] # Unknown
      PROVE  /\ new.done[w] = db.done[w]
             /\ db.done[w] \in Kept(n + 1) /\ t[db.done[w]].id = w
             /\ \A i \in 1 .. (n + 1) : t[i].id = w => i <= db.done[w]
  <2>1. new.done[w] = db.done[w]
    BY <1>5 DEF NextDone
  <2>2. /\ db.done[w] \in Kept(n) /\ s[db.done[w]].id = w
        /\ \A i \in 1 .. n : s[i].id = w => i <= db.done[w]
    BY <1>5 DEF Remembers
  <2>3. db.done[w] \in 1 .. n
    BY <2>2 DEF Kept
  <2>4. db.done[w] \in Kept(n + 1)
    <3>1. CASE Retain = 0
      BY <1>1, <2>3, <3>1 DEF Kept
    <3>2. CASE Retain # 0
      <4>1. db.done[w] + Retain > n
        BY <2>2, <3>2 DEF Kept
      <4>2. db.done[w] + Retain # n + 1
        <5> SUFFICES ASSUME db.done[w] + Retain = n + 1 PROVE FALSE
          OBVIOUS
        <5>1. (n + 1) - Retain = db.done[w] /\ Retain > 0 /\ n + 1 > Retain
          BY <1>1, <2>3, <3>2
        <5> QED
          BY <1>5, <2>2, <5>1 DEF Forgotten
      <4> QED
        BY <1>1, <2>3, <4>1, <4>2 DEF Kept
    <3> QED
      BY <3>1, <3>2
  <2>5. t[db.done[w]].id = w
    BY <1>2, <2>2, <2>3
  <2>6. ASSUME NEW i \in 1 .. (n + 1), t[i].id = w PROVE i <= db.done[w]
    <3>1. i \in 1 .. n
      BY <1>1, <1>2, <1>5, <2>6
    <3> QED
      BY <1>2, <2>2, <2>6, <3>1
  <2> QED
    BY <2>1, <2>4, <2>5, <2>6
<1>6. ASSUME NEW w \in WriteIds, ~Forgotten(s, n + 1, w), w # e.id, db.done[w] = Unknown
      PROVE  /\ new.done[w] = Unknown
             /\ \A i \in 1 .. (n + 1) : t[i].id = w => Aged(t, n + 1, i)
  <2>1. new.done[w] = Unknown
    BY <1>6 DEF NextDone
  <2>2. ASSUME NEW i \in 1 .. (n + 1), t[i].id = w PROVE Aged(t, n + 1, i)
    <3>1. i \in 1 .. n
      BY <1>1, <1>2, <1>6, <2>2
    <3>2. s[i].id = w
      BY <1>2, <2>2, <3>1
    <3>3. Aged(s, n, i)
      BY <1>6, <3>1, <3>2 DEF Remembers
    <3>4. PICK k \in 1 .. i : s[k].id = s[i].id /\ k + Retain <= n
      BY <3>3 DEF Aged
    <3>5. k \in 1 .. n /\ k + Retain <= n + 1
      BY <1>1, <3>1, <3>4
    <3>6. t[k].id = t[i].id
      BY <1>2, <3>1, <3>4, <3>5
    <3> QED
      BY <3>3, <3>5, <3>6 DEF Aged
  <2> QED
    BY <2>1, <2>2
<1>7. ASSUME NEW w \in WriteIds
      PROVE  /\ new.done[w] # Unknown =>
                    /\ new.done[w] \in Kept(Len(t))
                    /\ t[new.done[w]].id = w
                    /\ \A i \in 1 .. Len(t) : t[i].id = w => i <= new.done[w]
             /\ new.done[w] = Unknown =>
                    \A i \in 1 .. Len(t) : t[i].id = w => Aged(t, Len(t), i)
  <2> HIDE DEF s, t, n
  <2>1. CASE Forgotten(s, n + 1, w)
    BY <1>2, <1>3, <2>1
  <2>2. CASE ~Forgotten(s, n + 1, w) /\ w = e.id
    BY <1>2, <1>4, <2>2
  <2>3. CASE ~Forgotten(s, n + 1, w) /\ w # e.id /\ db.done[w] # Unknown
    BY <1>2, <1>5, <2>3
  <2>4. CASE ~Forgotten(s, n + 1, w) /\ w # e.id /\ db.done[w] = Unknown
    BY <1>2, <1>6, <2>4
  <2> QED
    BY <2>1, <2>2, <2>3, <2>4
<1> QED
  BY <1>7 DEF Remembers

\* A database n entries e further on.
Further(db, e, n) ==
    {r \in Dbs :
        /\ Len(r.data) = Len(db.data) + n
        /\ \A i \in 1 .. Len(db.data) : r.data[i] = db.data[i]
        /\ \A i \in 1 .. n : r.data[Len(db.data) + i] = e
        /\ (\A w \in WriteIds : db.done[w] <= Len(db.data)) =>
               \A w \in WriteIds : r.done[w] <= Len(r.data)
        /\ Remembers(db) => Remembers(r)}

\* An operation adds its entries after those that were there (perform, record).
LEMMA RecordAllFacts ==
    ASSUME NEW db \in Dbs, NEW e \in Entries, NEW n \in Nat
    PROVE  recordAll(db, e, n) \in Further(db, e, n)
<1> DEFINE S == [i \in 0 .. n |-> Further(db, e, i)]
<1>0. db.data \in Seq(Entries) /\ Len(db.data) \in Nat /\ db.done \in [WriteIds -> Nat]
  BY DbParts
<1>1. db \in S[0]
  BY <1>0 DEF Further
<1>2. ASSUME NEW i \in 1 .. n, NEW d \in S[i - 1]
      PROVE  record(d, e) \in S[i]
  <2>1. i - 1 \in 0 .. n /\ i \in 0 .. n /\ i - 1 \in Nat /\ i \in Nat /\ i > 0
    OBVIOUS
  <2>2. d \in Further(db, e, i - 1)
    BY <2>1
  <2>3. d \in Dbs /\ d.data \in Seq(Entries) /\ Len(d.data) \in Nat
        /\ d.done \in [WriteIds -> Nat] /\ d.latest = Len(d.data)
    BY <2>2, DbParts DEF Further
  <2> DEFINE r == record(d, e)
  <2>4. r \in Dbs /\ r.data = Append(d.data, e) /\ r.done = NextDone(d.done, d.data, e)
    BY <2>3, RecordFacts
  <2> HIDE DEF r
  <2>5. Len(d.data) = Len(db.data) + (i - 1)
    BY <2>2 DEF Further
  <2>6. Len(r.data) = Len(db.data) + i /\ Len(r.data) = Len(d.data) + 1
    BY <1>0, <2>1, <2>3, <2>4, <2>5
  <2>7. \A j \in 1 .. Len(db.data) : r.data[j] = db.data[j]
    <3> SUFFICES ASSUME NEW j \in 1 .. Len(db.data) PROVE r.data[j] = db.data[j]
      OBVIOUS
    <3>1. j \in 1 .. Len(d.data) /\ d.data[j] = db.data[j]
      BY <1>0, <2>1, <2>2, <2>5 DEF Further
    <3> QED
      BY <2>3, <2>4, <3>1
  <2>8. \A j \in 1 .. i : r.data[Len(db.data) + j] = e
    <3> SUFFICES ASSUME NEW j \in 1 .. i PROVE r.data[Len(db.data) + j] = e
      OBVIOUS
    <3>1. CASE j = i
      <4>1. Len(db.data) + j = Len(d.data) + 1
        BY <1>0, <2>1, <2>5, <3>1
      <4> QED
        BY <2>3, <2>4, <4>1
    <3>2. CASE j # i
      <4>1. j \in 1 .. (i - 1) /\ Len(db.data) + j \in 1 .. Len(d.data)
        BY <1>0, <2>1, <2>5, <3>2
      <4>2. d.data[Len(db.data) + j] = e
        BY <2>2, <4>1 DEF Further
      <4> QED
        BY <2>3, <2>4, <4>1, <4>2
    <3> QED
      BY <3>1, <3>2
  <2>9. ASSUME \A w \in WriteIds : db.done[w] <= Len(db.data), NEW w \in WriteIds
        PROVE  r.done[w] <= Len(r.data)
    <3>1. d.done[w] <= Len(d.data) /\ d.done[w] \in Nat
      BY <2>2, <2>3, <2>9 DEF Further
    <3>2. r.done[w] \in {Unknown, Len(d.data) + 1, d.done[w]}
      BY <2>4 DEF NextDone
    <3> QED
      BY <2>3, <2>6, <3>1, <3>2 DEF Unknown
  <2>10. Remembers(db) => Remembers(r)
    <3>1. Remembers(db) => Remembers(d)
      BY <2>2 DEF Further
    <3> QED
      BY <2>3, <2>4, <3>1, RemembersMore
  <2>11. r \in Further(db, e, i)
    BY <2>4, <2>6, <2>7, <2>8, <2>9, <2>10 DEF Further
  <2> QED
    BY <2>1, <2>11 DEF r
<1>3. recordAll(db, e, n) \in S[n]
  <2> HIDE DEF S
  <2> QED
    BY <1>1, <1>2, RecordAllIn
<1> QED
  BY <1>3

-----------------------------------------------------------------------------
(* The inductive invariant.                                                *)

Message == [lsn : Nat, entry : Entries]

\* What a follower follows.
Of(f) == work[Upstream[f]]

\* The first entries of t are those of s.
Begins(s, t) == Len(s) <= Len(t) /\ \A i \in 1 .. Len(s) : s[i] = t[i]

\* m is entry l of what f follows.
Sent(f, m, l) == m.lsn = l /\ l <= Of(f).latest /\ m.entry = Of(f).data[l]

\* Entry l, which f needs next, is gone where it follows.
Gone(f, l) == l < Oldest(Of(f).latest)

Types ==
    /\ work \in [Nodes -> Dbs]
    /\ up \subseteq Nodes
    /\ role \in [Followers -> {"idle", "following", "stopped"}]
    /\ stream \in [Followers -> {"none", "waiting", "drain", "send", "blocked"}]
    /\ cursor \in [Followers -> Nat]
    /\ batch \in [Followers -> Seq(Message)]
    /\ woken \in [Followers -> BOOLEAN]
    /\ wire \in [Followers -> Seq(Message)]
    /\ minted \in Nat

\* No server works on more than it has committed.
Committed == disk = work

\* Entries come from operations that were performed, and write ids lead to
\* entries that were written.
Numbers ==
    \A n \in Nodes :
        /\ Len(work[n].data) <= MaxEntries
        /\ \A i \in 1 .. Len(work[n].data) : work[n].data[i].op \in 1 .. minted
        /\ \A w \in WriteIds : work[n].done[w] <= Len(work[n].data)

\* A feed runs on a live connection.
Running(f) ==
    /\ stream[f] # "none" => role[f] = "following" /\ {f, Upstream[f]} \subseteq up
    /\ role[f] # "following" => wire[f] = <<>>
    /\ batch[f] # <<>> => stream[f] = "send"
    /\ woken[f] => stream[f] \in {"drain", "send", "blocked"}

\* What is on its way to a follower continues what it holds.
Continues(f) ==
    /\ \A i \in 1 .. Len(wire[f]) :
          \/ Sent(f, wire[f][i], work[f].latest + i)
          \/ /\ wire[f][i] = TooFarBehind
             /\ i = Len(wire[f])
             /\ stream[f] = "none"
             /\ Gone(f, work[f].latest + i)
    /\ \A i \in 1 .. Len(batch[f]) : Sent(f, batch[f][i], cursor[f] + i - 1)
    /\ cursor[f] = IF stream[f] = "none" THEN 0 ELSE work[f].latest + Len(wire[f]) + 1

Link(f) ==
    /\ Begins(work[f].data, Of(f).data)
    /\ Running(f)
    /\ Continues(f)
    /\ role[f] = "stopped" => Gone(f, work[f].latest + 1)

IInv == Types /\ Committed /\ Numbers /\ \A f \in Followers : Link(f)

\* The log only trims from the front.
LEMMA OldestGrows ==
    ASSUME NEW m \in Nat, NEW n \in Nat, m <= n
    PROVE  Oldest(m) <= Oldest(n) /\ Oldest(m) \in Nat /\ Oldest(n) \in Nat
BY RetainAssumption DEF Oldest

\* CanFollow, in terms of the earliest number kept.
LEMMA CanFollowIs ==
    ASSUME NEW db \in Dbs, NEW from \in Nat, from > 0
    PROVE  CanFollow(db, from) <=> from >= Oldest(db.latest)
<1>1. db.latest \in Nat
  BY DbParts
<1>2. OldestLSN(db) = Oldest(db.latest)
  BY OldestIs
<1>3. Oldest(db.latest) = 0 <=> db.latest = 0
  BY <1>1, RetainAssumption DEF Oldest
<1> QED
  BY <1>1, <1>2, <1>3 DEF CanFollow

\* Who is who.
LEMMA NodesFacts ==
    /\ Leader \in Nodes
    /\ Followers \subseteq Nodes
    /\ \A f \in Followers : f \in Nodes /\ f # Leader /\ Upstream[f] \in Nodes
BY LeaderAssumption, UpstreamAssumption DEF Nodes

\* The databases a follower has to do with.
LEMMA LinkTypes ==
    ASSUME Types, NEW f \in Followers
    PROVE  /\ work[f] \in Dbs /\ Of(f) \in Dbs
           /\ work[f].data \in Seq(Entries) /\ Of(f).data \in Seq(Entries)
           /\ work[f].latest = Len(work[f].data) /\ work[f].latest \in Nat
           /\ Of(f).latest = Len(Of(f).data) /\ Of(f).latest \in Nat
           /\ wire[f] \in Seq(Message) /\ batch[f] \in Seq(Message)
           /\ Len(wire[f]) \in Nat /\ Len(batch[f]) \in Nat
           /\ cursor[f] \in Nat
<1>1. work[f] \in Dbs /\ Of(f) \in Dbs
  BY NodesFacts DEF Types, Of
<1>2. wire[f] \in Seq(Message) /\ batch[f] \in Seq(Message) /\ cursor[f] \in Nat
  BY DEF Types
<1> HIDE DEF Message
<1>3. Len(wire[f]) \in Nat /\ Len(batch[f]) \in Nat
  BY <1>2
<1> QED
  BY <1>1, <1>2, <1>3, DbParts

\* What is followed may grow, be told about, and a feed that does not run needs
\* nobody: nothing that is said of a follower is disturbed.
LEMMA LinkStays ==
    ASSUME Types, Types', NEW f \in Followers, Link(f),
           work'[f] = work[f], Begins(Of(f).data, Of(f)'.data),
           role'[f] = role[f], stream'[f] = stream[f], cursor'[f] = cursor[f],
           batch'[f] = batch[f], wire'[f] = wire[f],
           woken'[f] => woken[f] \/ stream[f] \in {"drain", "send", "blocked"},
           stream[f] # "none" => {f, Upstream[f]} \subseteq up'
    PROVE  Link(f)'
<1>1. /\ work[f].latest = Len(work[f].data) /\ work[f].latest \in Nat
      /\ Of(f).latest = Len(Of(f).data) /\ Of(f).latest \in Nat
      /\ Len(wire[f]) \in Nat /\ Len(batch[f]) \in Nat /\ cursor[f] \in Nat
  BY LinkTypes
<1>2. Of(f)'.latest = Len(Of(f)'.data) /\ Of(f)'.latest \in Nat
  <2>1. Of(f)' \in Dbs
    BY NodesFacts DEF Types, Of
  <2> QED
    BY <2>1, DbParts
<1>3. Of(f).latest <= Of(f)'.latest
  BY <1>1, <1>2 DEF Begins
<1>4. Begins(work[f].data, Of(f).data)'
  BY <1>1, <1>2, <1>3 DEF Link, Begins
<1>5. ASSUME NEW m, NEW l \in Nat, l > 0, Sent(f, m, l) PROVE Sent(f, m, l)'
  BY <1>1, <1>2, <1>3, <1>5 DEF Sent, Begins
<1>6. ASSUME NEW l \in Nat, Gone(f, l) PROVE Gone(f, l)'
  <2>1. Oldest(Of(f).latest) <= Oldest(Of(f)'.latest) /\ Oldest(Of(f).latest) \in Nat
        /\ Oldest(Of(f)'.latest) \in Nat
    BY <1>1, <1>2, <1>3, OldestGrows
  <2>2. Oldest(Of(f).latest)' = Oldest(Of(f)'.latest)
    BY DEF Oldest
  <2> QED
    BY <1>6, <2>1, <2>2 DEF Gone
<1>7. Running(f)'
  BY DEF Link, Running
<1>8. Continues(f)'
  <2>1. ASSUME NEW i \in 1 .. Len(wire[f])
        PROVE  \/ Sent(f, wire[f][i], work[f].latest + i)'
               \/ /\ wire[f][i] = TooFarBehind
                  /\ i = Len(wire[f])
                  /\ stream[f] = "none"
                  /\ Gone(f, work[f].latest + i)'
    <3> DEFINE m == wire[f][i]
               l == work[f].latest + i
    <3>1. l \in Nat /\ l > 0
      BY <1>1
    <3>2. Sent(f, m, l) \/ (m = TooFarBehind /\ i = Len(wire[f]) /\ stream[f] = "none" /\ Gone(f, l))
      BY DEF Link, Continues
    <3>3. m' = m /\ l' = l
      OBVIOUS
    <3> HIDE DEF m, l
    <3>4. Sent(f, m, l) => Sent(f, m, l)'
      BY <1>5, <3>1, <3>3 DEF Sent
    <3>5. Gone(f, l) => Gone(f, l)'
      BY <1>6, <3>1, <3>3 DEF Gone
    <3> QED
      BY <3>2, <3>4, <3>5 DEF m, l
  <2>2. ASSUME NEW i \in 1 .. Len(batch[f])
        PROVE  Sent(f, batch[f][i], cursor[f] + i - 1)'
    <3> DEFINE m == batch[f][i]
               l == cursor[f] + i - 1
    <3>1. l \in Nat /\ l > 0
      <4>1. batch[f] # <<>>
        OBVIOUS
      <4>2. stream[f] # "none"
        BY <4>1 DEF Link, Running
      <4>3. cursor[f] = work[f].latest + Len(wire[f]) + 1
        BY <4>2 DEF Link, Continues
      <4> DEFINE a == work[f].latest
                 b == Len(wire[f])
      <4>4. a \in Nat /\ b \in Nat /\ cursor[f] = a + b + 1
        BY <1>1, <4>3
      <4>5. i \in Nat /\ i > 0 /\ cursor[f] \in Nat
        BY <1>1
      <4> HIDE DEF a, b
      <4>6. cursor[f] > 0
        BY <4>4
      <4> QED
        BY <4>5, <4>6
    <3>2. Sent(f, m, l)
      BY DEF Link, Continues
    <3>3. m' = m /\ l' = l
      OBVIOUS
    <3> HIDE DEF m, l
    <3>4. Sent(f, m, l)'
      BY <1>5, <3>1, <3>2, <3>3 DEF Sent
    <3> QED
      BY <3>4 DEF m, l
  <2>3. cursor'[f] = IF stream'[f] = "none" THEN 0 ELSE work'[f].latest + Len(wire'[f]) + 1
    BY DEF Link, Continues
  <2> QED
    BY <2>1, <2>2, <2>3 DEF Continues
<1>9. role'[f] = "stopped" => Gone(f, work[f].latest + 1)'
  <2>1. work[f].latest + 1 \in Nat
    BY <1>1
  <2>2. role[f] = "stopped" => Gone(f, work[f].latest + 1)
    BY DEF Link
  <2> QED
    BY <1>6, <2>1, <2>2 DEF Gone
<1> QED
  BY <1>4, <1>7, <1>8, <1>9 DEF Link

\* What a feed collects is what follows its cursor, in order (log.go, Changes).
LEMMA ChangesFacts ==
    ASSUME NEW db \in Dbs, NEW from \in Nat, from > 0, CanFollow(db, from)
    PROVE  LET c == Changes(db, from, BatchSize) IN
           /\ c \in Seq(Message)
           /\ \A i \in 1 .. Len(c) : /\ c[i].lsn = from + i - 1
                                     /\ from + i - 1 <= db.latest
                                     /\ c[i].entry = db.data[from + i - 1]
<1> DEFINE n == db.latest
           last == IF n < from + BatchSize - 1 THEN n ELSE from + BatchSize - 1
           k == IF last >= from THEN last - from + 1 ELSE 0
           m(i) == [lsn |-> from + i - 1, entry |-> db.log[from + i - 1]]
           c == Changes(db, from, BatchSize)
<1>1. /\ n \in Nat /\ db.data \in Seq(Entries) /\ Len(db.data) = n
      /\ db.log = LogOf(db.data)
  BY DbParts
<1>2. from >= Oldest(n)
  BY CanFollowIs
<1>3. k \in Nat /\ \A i \in 1 .. k : from + i - 1 \in Nat /\ from + i - 1 \in 1 .. n
  BY <1>1, BatchAssumption
<1>4. \A i \in 1 .. k : from + i - 1 \in Kept(n)
  BY <1>1, <1>2, <1>3, RetainAssumption DEF Kept, Oldest
<1>5. \A i \in 1 .. k : db.log[from + i - 1] = db.data[from + i - 1]
                        /\ db.data[from + i - 1] \in Entries
  BY <1>1, <1>3, <1>4 DEF LogOf
<1>6. c = [i \in 1 .. k |-> m(i)]
  BY DEF Changes
<1>7. \A i \in 1 .. k : m(i) \in Message /\ m(i).lsn = from + i - 1
                        /\ m(i).entry = db.data[from + i - 1]
  BY <1>3, <1>5 DEF Message
<1> HIDE DEF c, k, m, n
<1>8. c \in Seq(Message) /\ Len(c) = k /\ \A i \in 1 .. k : c[i] = m(i)
  <2>1. c \in [1 .. k -> Message] /\ \A i \in 1 .. k : c[i] = m(i)
    BY <1>6, <1>7
  <2>2. k \in Nat
    BY <1>3
  <2> HIDE DEF Message
  <2>3. c \in Seq(Message) /\ Len(c) = k
    BY <2>1, <2>2
  <2> QED
    BY <2>1, <2>3
<1>9. \A i \in 1 .. k : from + i - 1 <= n
  BY <1>1, <1>3
<1> QED
  BY <1>7, <1>8, <1>9 DEF c, n

-----------------------------------------------------------------------------
(* Each step keeps the invariant.                                          *)

\* A step that leaves the databases and the operations alone.
LEMMA FeedOnly ==
    ASSUME IInv, Types', UNCHANGED <<stores, minted>>, \A f \in Followers : Link(f)'
    PROVE  IInv'
BY DEF IInv, Committed, Numbers, stores

\* A connection that is another's is not touched.
LEMMA OthersStay ==
    ASSUME Types, Types', NEW g \in Followers, Link(g), work' = work, up \subseteq up',
           role'[g] = role[g], stream'[g] = stream[g], cursor'[g] = cursor[g],
           batch'[g] = batch[g], wire'[g] = wire[g], woken'[g] => woken[g]
    PROVE  Link(g)'
<1>1. Of(g).data \in Seq(Entries) /\ Len(Of(g).data) \in Nat
  BY LinkTypes
<1>2. Of(g)' = Of(g)
  BY DEF Of
<1>3. Begins(Of(g).data, Of(g)'.data)
  BY <1>1, <1>2 DEF Begins
<1>4. stream[g] # "none" => {g, Upstream[g]} \subseteq up'
  BY DEF Link, Running
<1> QED
  BY <1>3, <1>4, LinkStays

\* A connection that has ended leaves nothing behind.
LEMMA ClosedLink ==
    ASSUME NEW f \in Followers, Link(f), work' = work,
           role'[f] \in {"idle", "stopped"},
           role'[f] = "stopped" => Gone(f, work[f].latest + 1),
           stream'[f] = "none", cursor'[f] = 0, batch'[f] = <<>>, ~woken'[f], wire'[f] = <<>>
    PROVE  Link(f)'
<1>1. Of(f)' = Of(f)
  BY DEF Of
<1>2. Begins(work[f].data, Of(f).data)'
  BY <1>1 DEF Link, Begins
<1>3. Running(f)'
  BY DEF Running
<1>4. Continues(f)'
  BY DEF Continues
<1>5. (role[f] = "stopped" => Gone(f, work[f].latest + 1))'
  BY <1>1 DEF Gone, Oldest
<1> QED
  BY <1>2, <1>3, <1>4, <1>5 DEF Link

\* once returns, for whatever reason.
LEMMA InvDisconnected ==
    ASSUME IInv, NEW f \in Followers, NEW next \in {"idle", "stopped"},
           Disconnected(f, next), UNCHANGED <<stores, up, minted>>,
           next = "stopped" => Gone(f, work[f].latest + 1)
    PROVE  IInv'
<1>1. Types
  BY DEF IInv
<1>2. work' = work /\ up' = up
  BY DEF stores
<1>3. Types'
  BY <1>1, <1>2 DEF Types, Disconnected
<1>4. ASSUME NEW g \in Followers PROVE Link(g)'
  <2>1. Link(g)
    BY DEF IInv
  <2>2. CASE g = f
    <3>1. /\ role'[f] = next /\ stream'[f] = "none" /\ cursor'[f] = 0 /\ batch'[f] = <<>>
          /\ ~woken'[f] /\ wire'[f] = <<>>
      BY <1>1 DEF Disconnected, Types
    <3> QED
      BY <1>2, <2>1, <2>2, <3>1, ClosedLink
  <2>3. CASE g # f
    <3>1. /\ role'[g] = role[g] /\ stream'[g] = stream[g] /\ cursor'[g] = cursor[g]
          /\ batch'[g] = batch[g] /\ wire'[g] = wire[g] /\ woken'[g] = woken[g]
      BY <1>1, <2>3 DEF Disconnected, Types
    <3> QED
      BY <1>1, <1>2, <1>3, <2>1, <3>1, OthersStay
  <2> QED
    BY <2>2, <2>3
<1> QED
  BY <1>3, <1>4, FeedOnly

\* Only one follower's connection changes, and it stays well-formed.
LEMMA OneFeed ==
    ASSUME IInv, NEW f \in Followers, UNCHANGED <<stores, up, minted>>, Types', Link(f)',
           \A g \in Followers \ {f} :
               /\ role'[g] = role[g] /\ stream'[g] = stream[g] /\ cursor'[g] = cursor[g]
               /\ batch'[g] = batch[g] /\ wire'[g] = wire[g] /\ woken'[g] = woken[g]
    PROVE  IInv'
<1>1. Types
  BY DEF IInv
<1>2. work' = work /\ up' = up
  BY DEF stores
<1>3. ASSUME NEW g \in Followers PROVE Link(g)'
  <2>1. Link(g)
    BY DEF IInv
  <2>2. CASE g = f
    BY <2>2
  <2>3. CASE g # f
    BY <1>1, <1>2, <2>1, <2>3, OthersStay
  <2> QED
    BY <2>2, <2>3
<1> QED
  BY <1>3, FeedOnly

\* The databases being what they were, so is what is said of them.
LEMMA SameData ==
    ASSUME NEW f \in Followers, work' = work
    PROVE  /\ Of(f)' = Of(f)
           /\ Begins(work[f].data, Of(f).data)' <=> Begins(work[f].data, Of(f).data)
           /\ \A m, l : Sent(f, m, l)' <=> Sent(f, m, l)
           /\ \A l : Gone(f, l)' <=> Gone(f, l)
BY DEF Of, Begins, Sent, Gone, Oldest

\* Initially nothing is written and nobody is connected.
LEMMA InvInit == Init => IInv
<1> SUFFICES ASSUME Init PROVE IInv
  OBVIOUS
<1>1. Types
  BY EmptyIsMade DEF Init, Types
<1>2. Committed
  BY DEF Init, Committed
<1>3. \A n \in Nodes : work[n] = EmptyDb
  BY DEF Init
<1>4. Len(EmptyDb.data) = 0 /\ EmptyDb.latest = 0 /\ \A w \in WriteIds : EmptyDb.done[w] = 0
  BY EmptyIsMade
<1>5. Numbers
  BY <1>3, <1>4, BoundsAssumption DEF Numbers
<1>6. ASSUME NEW f \in Followers PROVE Link(f)
  <2>1. work[f] = EmptyDb /\ Of(f) = EmptyDb
    BY <1>3, NodesFacts DEF Of
  <2>2. Begins(work[f].data, Of(f).data)
    BY <1>4, <2>1 DEF Begins
  <2>3. Running(f) /\ role[f] # "stopped"
    BY DEF Init, Running
  <2>4. Continues(f)
    BY DEF Init, Continues
  <2> QED
    BY <2>2, <2>3, <2>4 DEF Link
<1> QED
  BY <1>1, <1>2, <1>5, <1>6 DEF IInv

\* A follower asks for what comes after what it holds.
LEMMA InvSubscribe ==
    ASSUME IInv, NEW f \in Followers, Subscribe(f)
    PROVE  IInv'
<1> DEFINE from == work[f].latest + 1
<1>1. Types /\ Link(f) /\ UNCHANGED <<stores, up, minted, batch, woken, wire>> /\ work' = work
  BY DEF IInv, Subscribe, ops, stores
<1>2. /\ work[f].latest \in Nat /\ Of(f) \in Dbs /\ Of(f).latest \in Nat
      /\ from \in Nat /\ from > 0
  BY <1>1, LinkTypes
<1>3. CanFollow(Of(f), from) <=> ~Gone(f, from)
  <2>1. Oldest(Of(f).latest) \in Nat
    BY <1>2, OldestGrows
  <2> QED
    BY <1>2, <2>1, CanFollowIs DEF Gone
<1>4. wire[f] = <<>> /\ batch[f] = <<>> /\ ~woken[f] /\ stream[f] = "none" /\ cursor[f] = 0
  BY <1>1 DEF Link, Running, Continues, Subscribe, Types
<1>5. CASE CanFollow(Of(f), from)
  <2>1. /\ role' = [role EXCEPT ![f] = "following"]
        /\ stream' = [stream EXCEPT ![f] = "waiting"]
        /\ cursor' = [cursor EXCEPT ![f] = from]
    BY <1>5 DEF Subscribe, Of
  <2>2. Types'
    BY <1>1, <1>2, <2>1 DEF Types
  <2>3. role'[f] = "following" /\ stream'[f] = "waiting" /\ cursor'[f] = from
    BY <1>1, <2>1 DEF Types
  <2>4. Begins(work[f].data, Of(f).data)'
    BY <1>1, SameData DEF Link
  <2>5. Running(f)'
    BY <1>1, <1>4, <2>3 DEF Running, Subscribe
  <2>6. Continues(f)'
    BY <1>1, <1>2, <1>4, <2>3 DEF Continues
  <2>7. Link(f)'
    BY <2>3, <2>4, <2>5, <2>6 DEF Link
  <2> QED
    BY <1>1, <2>1, <2>2, <2>7, OneFeed DEF Types
<1>6. CASE ~CanFollow(Of(f), from)
  <2>1. role' = [role EXCEPT ![f] = "stopped"] /\ UNCHANGED <<stream, cursor>>
    BY <1>6 DEF Subscribe, Of
  <2>2. Types'
    BY <1>1, <2>1 DEF Types
  <2>3. role'[f] = "stopped"
    BY <1>1, <2>1 DEF Types
  <2>4. Gone(f, work[f].latest + 1)
    BY <1>3, <1>6
  <2>5. Link(f)'
    BY <1>1, <1>4, <2>1, <2>3, <2>4, ClosedLink
  <2> QED
    BY <1>1, <2>1, <2>2, <2>5, OneFeed DEF Types
<1> QED
  BY <1>5, <1>6

\* A feed takes its channel.
LEMMA InvWaiting ==
    ASSUME IInv, NEW f \in Followers, waiting(f)
    PROVE  IInv'
<1>1. /\ Types /\ Link(f) /\ work' = work
      /\ UNCHANGED <<stores, up, minted, role, cursor, batch, woken, wire>>
      /\ stream[f] = "waiting" /\ stream' = [stream EXCEPT ![f] = "drain"]
  BY DEF IInv, waiting, ops, stores
<1>2. Types'
  BY <1>1 DEF Types
<1>3. stream'[f] = "drain"
  BY <1>1 DEF Types
<1>4. Running(f)'
  BY <1>1, <1>3 DEF Link, Running
<1>5. Continues(f)'
  BY <1>1, <1>3, SameData DEF Link, Continues
<1>6. Link(f)'
  BY <1>1, <1>4, <1>5, SameData DEF Link
<1> QED
  BY <1>1, <1>2, <1>6, OneFeed DEF Types

\* A feed is woken.
LEMMA InvWake ==
    ASSUME IInv, NEW f \in Followers, Wake(f)
    PROVE  IInv'
<1>1. /\ Types /\ Link(f) /\ work' = work
      /\ UNCHANGED <<stores, up, minted, role, cursor, batch, wire>>
      /\ stream[f] = "blocked" /\ stream' = [stream EXCEPT ![f] = "waiting"]
      /\ woken' = [woken EXCEPT ![f] = FALSE]
  BY DEF IInv, Wake, ops, stores
<1>2. Types'
  BY <1>1 DEF Types
<1>3. stream'[f] = "waiting" /\ ~woken'[f]
  BY <1>1 DEF Types
<1>4. Running(f)'
  BY <1>1, <1>3 DEF Link, Running
<1>5. Continues(f)'
  BY <1>1, <1>3, SameData DEF Link, Continues
<1>6. Link(f)'
  BY <1>1, <1>4, <1>5, SameData DEF Link
<1> QED
  BY <1>1, <1>2, <1>6, OneFeed DEF Types

\* A feed collects a batch, or finds its place gone.
LEMMA InvDrain ==
    ASSUME IInv, NEW f \in Followers, drain(f)
    PROVE  IInv'
<1>1. /\ Types /\ Link(f) /\ work' = work /\ stream[f] = "drain"
      /\ UNCHANGED <<stores, up, minted, role>>
  BY DEF IInv, drain, ops, stores
<1>2. /\ work[f].latest \in Nat /\ Of(f) \in Dbs /\ Of(f).latest \in Nat
      /\ wire[f] \in Seq(Message) /\ Len(wire[f]) \in Nat /\ cursor[f] \in Nat
  BY <1>1, LinkTypes
<1>3. /\ batch[f] = <<>> /\ role[f] = "following" /\ {f, Upstream[f]} \subseteq up
      /\ cursor[f] = work[f].latest + Len(wire[f]) + 1
      /\ \A i \in 1 .. Len(wire[f]) : Sent(f, wire[f][i], work[f].latest + i)
  BY <1>1 DEF Link, Running, Continues
<1>4. cursor[f] > 0
  <2> DEFINE a == work[f].latest
             b == Len(wire[f])
  <2>1. a \in Nat /\ b \in Nat /\ cursor[f] = a + b + 1
    BY <1>2, <1>3
  <2> HIDE DEF a, b
  <2> QED
    BY <2>1
<1>5. CASE CanFollow(Of(f), cursor[f])
  <2> DEFINE c == Changes(Of(f), cursor[f], BatchSize)
  <2>1. /\ stream' = [stream EXCEPT ![f] = "send"]
        /\ batch' = [batch EXCEPT ![f] = c]
        /\ UNCHANGED <<cursor, woken, wire>>
    BY <1>5 DEF drain, Of
  <2>2. c \in Seq(Message)
        /\ \A i \in 1 .. Len(c) : /\ c[i].lsn = cursor[f] + i - 1
                                  /\ cursor[f] + i - 1 <= Of(f).latest
                                  /\ c[i].entry = Of(f).data[cursor[f] + i - 1]
    BY <1>2, <1>4, <1>5, ChangesFacts
  <2> HIDE DEF c
  <2>3. Types'
    BY <1>1, <2>1, <2>2 DEF Types
  <2>4. stream'[f] = "send" /\ batch'[f] = c /\ cursor'[f] = cursor[f] /\ wire'[f] = wire[f]
    BY <1>1, <2>1 DEF Types
  <2>5. \A i \in 1 .. Len(c) : Sent(f, c[i], cursor[f] + i - 1)
    BY <2>2 DEF Sent
  <2>6. \A i \in 1 .. Len(batch'[f]) : Sent(f, batch[f][i], cursor[f] + i - 1)'
    BY <1>1, <2>4, <2>5, SameData
  <2>7. \A i \in 1 .. Len(wire'[f]) : Sent(f, wire[f][i], work[f].latest + i)'
    BY <1>1, <1>3, <2>4, SameData
  <2>8. cursor'[f] = work'[f].latest + Len(wire'[f]) + 1
    BY <1>1, <1>3, <2>4
  <2>9. Continues(f)'
    BY <2>4, <2>6, <2>7, <2>8 DEF Continues
  <2>10. Running(f)'
    BY <1>1, <1>3, <2>1, <2>4 DEF Running
  <2>11. Link(f)'
    BY <1>1, <1>3, <2>9, <2>10, SameData DEF Link
  <2> QED
    BY <1>1, <2>1, <2>3, <2>11, OneFeed DEF Types
<1>6. CASE ~CanFollow(Of(f), cursor[f])
  <2>1. /\ stream' = [stream EXCEPT ![f] = "none"]
        /\ cursor' = [cursor EXCEPT ![f] = 0]
        /\ woken' = [woken EXCEPT ![f] = FALSE]
        /\ wire' = [wire EXCEPT ![f] = Append(@, TooFarBehind)]
        /\ UNCHANGED batch
    BY <1>6 DEF drain, Of
  <2>2. TooFarBehind \in Message
    BY DEF TooFarBehind, Message, Entries
  <2> DEFINE w == Append(wire[f], TooFarBehind)
  <2>3. w \in Seq(Message) /\ Len(w) = Len(wire[f]) + 1 /\ w[Len(wire[f]) + 1] = TooFarBehind
        /\ \A i \in 1 .. Len(wire[f]) : w[i] = wire[f][i]
    <3> HIDE DEF Message, TooFarBehind
    <3> QED
      BY <1>2, <2>2
  <2>4. wire' = [wire EXCEPT ![f] = w]
    BY <2>1
  <2> HIDE DEF w
  <2>5. Types'
    BY <1>1, <2>1, <2>3, <2>4 DEF Types
  <2>6. stream'[f] = "none" /\ batch'[f] = <<>> /\ cursor'[f] = 0 /\ wire'[f] = w /\ ~woken'[f]
    BY <1>1, <1>3, <2>1, <2>4 DEF Types
  <2>7. Gone(f, cursor[f])
    <3>1. Oldest(Of(f).latest) \in Nat
      BY <1>2, OldestGrows
    <3> QED
      BY <1>2, <1>4, <1>6, <3>1, CanFollowIs DEF Gone
  <2>8. cursor[f] = work[f].latest + Len(w)
    BY <1>2, <1>3, <2>3
  <2>9. ASSUME NEW i \in 1 .. Len(w)
        PROVE  \/ Sent(f, w[i], work[f].latest + i)
               \/ /\ w[i] = TooFarBehind
                  /\ i = Len(w)
                  /\ Gone(f, work[f].latest + i)
    <3>1. CASE i = Len(w)
      BY <2>3, <2>7, <2>8, <3>1
    <3>2. CASE i # Len(w)
      <4>1. i \in 1 .. Len(wire[f])
        BY <1>2, <2>3, <3>2
      <4> QED
        BY <1>3, <2>3, <4>1
    <3> QED
      BY <3>1, <3>2
  <2>10. Continues(f)'
    <3>1. \A i \in 1 .. Len(w) : Sent(f, w[i], work[f].latest + i)
                                   => Sent(f, wire[f][i], work[f].latest + i)'
      BY <1>1, <2>6, SameData
    <3>2. \A i \in 1 .. Len(w) : Gone(f, work[f].latest + i) => Gone(f, work[f].latest + i)'
      BY <1>1, SameData
    <3> QED
      BY <2>6, <2>9, <3>1, <3>2 DEF Continues
  <2>11. Running(f)'
    BY <1>1, <1>3, <2>6 DEF Running
  <2>12. Link(f)'
    BY <1>1, <1>3, <2>10, <2>11, SameData DEF Link
  <2> QED
    BY <1>1, <2>1, <2>4, <2>5, <2>12, OneFeed DEF Types
<1> QED
  BY <1>5, <1>6

\* What was collected is sent, and the cursor moves past it.
LEMMA InvSend ==
    ASSUME IInv, NEW f \in Followers, send(f)
    PROVE  IInv'
<1> DEFINE b == batch[f]
           w == wire[f] \o b
<1>1. /\ Types /\ Link(f) /\ work' = work /\ stream[f] = "send"
      /\ UNCHANGED <<stores, up, minted, role>>
      /\ wire' = [wire EXCEPT ![f] = w]
      /\ cursor' = [cursor EXCEPT ![f] = cursor[f] + Len(b)]
      /\ batch' = [batch EXCEPT ![f] = <<>>]
  BY DEF IInv, send, ops, stores
<1>2. /\ work[f].latest \in Nat /\ Of(f).latest \in Nat
      /\ wire[f] \in Seq(Message) /\ Len(wire[f]) \in Nat /\ cursor[f] \in Nat
      /\ b \in Seq(Message) /\ Len(b) \in Nat
  BY <1>1, LinkTypes
<1>3. /\ role[f] = "following" /\ {f, Upstream[f]} \subseteq up
      /\ cursor[f] = work[f].latest + Len(wire[f]) + 1
      /\ \A i \in 1 .. Len(wire[f]) : Sent(f, wire[f][i], work[f].latest + i)
      /\ \A i \in 1 .. Len(b) : Sent(f, b[i], cursor[f] + i - 1)
  BY <1>1 DEF Link, Running, Continues
<1>4. /\ w \in Seq(Message) /\ Len(w) = Len(wire[f]) + Len(b)
      /\ \A i \in 1 .. Len(wire[f]) : w[i] = wire[f][i]
      /\ \A i \in 1 .. Len(w) : i > Len(wire[f]) => w[i] = b[i - Len(wire[f])]
  <2> HIDE DEF Message, b
  <2> QED
    BY <1>2
<1> HIDE DEF b, w
<1>5. \/ /\ stream' = [stream EXCEPT ![f] = "waiting"]
         /\ woken' = [woken EXCEPT ![f] = FALSE]
      \/ stream' = [stream EXCEPT ![f] = "blocked"] /\ UNCHANGED woken
  BY DEF send
<1>6. Types'
  <2>1. <<>> \in Seq(Message) /\ cursor[f] + Len(b) \in Nat
    BY <1>2
  <2> QED
    BY <1>1, <1>4, <1>5, <2>1 DEF Types
<1>7. /\ wire'[f] = w /\ cursor'[f] = cursor[f] + Len(b) /\ batch'[f] = <<>>
      /\ stream'[f] \in {"waiting", "blocked"}
      /\ woken'[f] => stream'[f] = "blocked"
  BY <1>1, <1>5 DEF Types
<1>8. ASSUME NEW i \in 1 .. Len(w)
      PROVE  Sent(f, w[i], work[f].latest + i)
  <2>1. CASE i <= Len(wire[f])
    BY <1>2, <1>3, <1>4, <2>1
  <2>2. CASE i > Len(wire[f])
    <3> DEFINE j == i - Len(wire[f])
               a == work[f].latest
    <3>1. j \in 1 .. Len(b) /\ w[i] = b[j]
      BY <1>2, <1>4, <2>2
    <3>2. cursor[f] + j - 1 = a + i
      <4> DEFINE k == Len(wire[f])
                 c == cursor[f]
      <4>1. a \in Nat /\ c = a + k + 1 /\ i \in Nat /\ k \in Nat /\ j = i - k
        BY <1>2, <1>3, <1>4
      <4> HIDE DEF a, k, c, j
      <4>2. c + j - 1 = a + i
        BY <4>1
      <4> QED
        BY <4>2 DEF c
    <3> HIDE DEF j
    <3> QED
      BY <1>3, <3>1, <3>2
  <2> QED
    BY <1>2, <1>4, <2>1, <2>2
<1>9. cursor'[f] = work'[f].latest + Len(wire'[f]) + 1
  <2>1. work'[f].latest = work[f].latest /\ wire'[f] = w
    BY <1>1, <1>7
  <2> DEFINE a == work[f].latest
  <2>2. a \in Nat /\ cursor[f] = a + Len(wire[f]) + 1
    BY <1>2, <1>3
  <2> HIDE DEF a
  <2>3. cursor[f] + Len(b) = a + Len(w) + 1
    BY <1>2, <1>4, <2>2
  <2> QED
    BY <1>7, <2>1, <2>3 DEF a
<1>10. \A i \in 1 .. Len(wire'[f]) : Sent(f, wire[f][i], work[f].latest + i)'
  BY <1>1, <1>7, <1>8, SameData
<1>11. Continues(f)'
  BY <1>7, <1>9, <1>10 DEF Continues
<1>12. Running(f)'
  BY <1>1, <1>3, <1>7 DEF Running
<1>13. Link(f)'
  BY <1>1, <1>3, <1>11, <1>12, SameData DEF Link
<1>14. \A g \in Followers \ {f} :
          /\ role'[g] = role[g] /\ stream'[g] = stream[g] /\ cursor'[g] = cursor[g]
          /\ batch'[g] = batch[g] /\ wire'[g] = wire[g] /\ woken'[g] = woken[g]
  BY <1>1, <1>5 DEF Types
<1> QED
  BY <1>1, <1>6, <1>13, <1>14, OneFeed

\* A server's log grows, and whoever follows it is told.
LEMMA LinkGrows ==
    ASSUME Types, Types', NEW n \in Nodes, NEW g \in Followers, g # n, Link(g),
           NEW new, work' = [work EXCEPT ![n] = new], Begins(work[n].data, new.data),
           UNCHANGED <<up, role, stream, cursor, batch>>, wire'[g] = wire[g],
           woken'[g] => woken[g] \/ stream[g] \in {"drain", "send", "blocked"}
    PROVE  Link(g)'
<1>1. Of(g).data \in Seq(Entries) /\ Len(Of(g).data) \in Nat
  BY LinkTypes
<1>2. work'[g] = work[g]
  BY NodesFacts DEF Types
<1>3. Begins(Of(g).data, Of(g)'.data)
  <2>1. CASE Upstream[g] = n
    BY <2>1, NodesFacts DEF Of, Types
  <2>2. CASE Upstream[g] # n
    <3>1. Of(g)' = Of(g)
      BY <2>2, NodesFacts DEF Of, Types
    <3> QED
      BY <1>1, <3>1 DEF Begins
  <2> QED
    BY <2>1, <2>2
<1>4. stream[g] # "none" => {g, Upstream[g]} \subseteq up'
  BY DEF Link, Running
<1> QED
  BY <1>2, <1>3, <1>4, LinkStays

\* What notify does to one feed.
LEMMA Notified ==
    ASSUME NEW n, NEW g \in Followers, woken' = notify(n)
    PROVE  /\ woken'[g] => woken[g] \/ stream[g] \in {"drain", "send", "blocked"}
           /\ woken'[g] => woken[g] \/ Upstream[g] = n
BY DEF notify

\* notify keeps the types.
LEMMA NotifyType ==
    ASSUME NEW n, woken \in [Followers -> BOOLEAN]
    PROVE  notify(n) \in [Followers -> BOOLEAN]
BY Zenon DEF notify

\* The leader answers a write again, or writes its entries and commits.
LEMMA InvInvoke ==
    ASSUME IInv, NEW w \in WriteIds \cup {NoId}, NEW n \in 1 .. MaxOp, invoke(w, n)
    PROVE  IInv'
<1> DEFINE old == work[Leader]
           e == [op |-> minted + 1, id |-> w]
           new == recordAll(old, e, n)
<1>1. /\ Types /\ woken' = notify(Leader)
      /\ UNCHANGED <<up, role, stream, cursor, batch, wire, faults>>
  BY DEF IInv, invoke
<1>2. CASE Wrote(work[Leader], w)
  <2>1. UNCHANGED <<stores, minted>> /\ work' = work
    BY <1>2 DEF invoke, stores
  <2>2. woken' \in [Followers -> BOOLEAN]
    BY <1>1, NotifyType DEF Types
  <2>3. Types'
    BY <1>1, <2>1, <2>2 DEF Types
  <2>4. ASSUME NEW g \in Followers PROVE Link(g)'
    <3>1. Link(g) /\ Of(g)' = Of(g) /\ work'[g] = work[g]
      BY <2>1 DEF IInv, Of
    <3>2. Of(g).data \in Seq(Entries) /\ Len(Of(g).data) \in Nat
      BY <1>1, LinkTypes
    <3>3. Begins(Of(g).data, Of(g)'.data)
      BY <3>1, <3>2 DEF Begins
    <3>4. woken'[g] => woken[g] \/ stream[g] \in {"drain", "send", "blocked"}
      BY <1>1, Notified
    <3>5. stream[g] # "none" => {g, Upstream[g]} \subseteq up'
      BY <1>1, <3>1 DEF Link, Running
    <3> QED
      BY <1>1, <2>3, <3>1, <3>3, <3>4, <3>5, LinkStays
  <2> QED
    BY <2>1, <2>3, <2>4, FeedOnly
<1>3. CASE ~Wrote(work[Leader], w)
  <2>1. /\ old.latest + n <= MaxEntries
        /\ work' = [work EXCEPT ![Leader] = new]
        /\ disk' = [disk EXCEPT ![Leader] = work'[Leader]]
        /\ minted' = minted + 1
    BY <1>3 DEF invoke
  <2>2. /\ n \in Nat /\ minted \in Nat /\ e \in Entries /\ e.op = minted + 1
        /\ old \in Dbs /\ Leader \in Nodes /\ work \in [Nodes -> Dbs]
    BY <1>1, BoundsAssumption, NodesFacts DEF Entries, Types
  <2>3. new \in Further(old, e, n)
    BY <2>2, RecordAllFacts
  <2>4. old.latest = Len(old.data) /\ Len(old.data) \in Nat
    BY <2>2, DbParts
  <2> HIDE DEF e, new
  <2>5. /\ new \in Dbs /\ Len(new.data) = Len(old.data) + n
        /\ \A i \in 1 .. Len(old.data) : new.data[i] = old.data[i]
        /\ \A i \in 1 .. n : new.data[Len(old.data) + i] = e
    BY <2>3 DEF Further
  <2>6. work'[Leader] = new /\ \A m \in Nodes \ {Leader} : work'[m] = work[m]
    BY <2>1, <2>2
  <2>7. Types'
    <3>1. woken' \in [Followers -> BOOLEAN]
      BY <1>1, NotifyType DEF Types
    <3> QED
      BY <1>1, <2>1, <2>2, <2>5, <3>1 DEF Types
  <2>8. Committed'
    BY <2>1, <2>6 DEF IInv, Committed
  <2>9. Numbers'
    <3> SUFFICES ASSUME NEW m \in Nodes
                 PROVE  /\ Len(work'[m].data) <= MaxEntries
                        /\ \A i \in 1 .. Len(work'[m].data) : work'[m].data[i].op \in 1 .. minted'
                        /\ \A v \in WriteIds : work'[m].done[v] <= Len(work'[m].data)
      BY DEF Numbers
    <3>1. /\ Len(work[m].data) <= MaxEntries
          /\ \A i \in 1 .. Len(work[m].data) : work[m].data[i].op \in 1 .. minted
          /\ \A v \in WriteIds : work[m].done[v] <= Len(work[m].data)
      BY DEF IInv, Numbers
    <3>2. CASE m # Leader
      <4>1. work'[m] = work[m]
        BY <2>6, <3>2
      <4> QED
        BY <2>1, <2>2, <3>1, <4>1
    <3>3. CASE m = Leader
      <4>1. work'[m] = new
        BY <2>6, <3>3
      <4>2. Len(new.data) <= MaxEntries
        BY <2>1, <2>4, <2>5
      <4>3. \A v \in WriteIds : new.done[v] <= Len(new.data)
        BY <2>3, <3>1, <3>3 DEF Further
      <4>4. ASSUME NEW i \in 1 .. Len(new.data) PROVE new.data[i].op \in 1 .. (minted + 1)
        <5>1. CASE i <= Len(old.data)
          <6>1. i \in 1 .. Len(old.data)
            BY <2>2, <2>4, <2>5, <5>1
          <6>2. new.data[i] = old.data[i] /\ old.data[i].op \in 1 .. minted
            BY <2>5, <3>1, <3>3, <6>1
          <6> QED
            BY <2>2, <6>2
        <5>2. CASE i > Len(old.data)
          <6> DEFINE j == i - Len(old.data)
          <6>1. j \in 1 .. n /\ Len(old.data) + j = i
            BY <2>2, <2>4, <2>5, <5>2
          <6> HIDE DEF j
          <6>2. new.data[i] = e
            BY <2>5, <6>1
          <6> QED
            BY <2>2, <6>2
        <5> QED
          BY <2>2, <2>4, <2>5, <5>1, <5>2
      <4> QED
        BY <2>1, <4>1, <4>2, <4>3, <4>4
    <3> QED
      BY <3>2, <3>3
  <2>10. ASSUME NEW g \in Followers PROVE Link(g)'
    <3>1. Link(g) /\ g # Leader
      BY NodesFacts DEF IInv
    <3>2. Begins(work[Leader].data, new.data)
      BY <2>2, <2>4, <2>5 DEF Begins
    <3>3. woken'[g] => woken[g] \/ stream[g] \in {"drain", "send", "blocked"}
      BY <1>1, Notified
    <3> QED
      BY <1>1, <2>1, <2>2, <2>7, <3>1, <3>2, <3>3, LinkGrows
  <2> QED
    BY <2>7, <2>8, <2>9, <2>10 DEF IInv
<1> QED
  BY <1>2, <1>3

\* The first thing on the connection: the entry a copy needs next, or the news
\* that it is gone.
LEMMA HeadFacts ==
    ASSUME IInv, NEW f \in Followers, wire[f] # <<>>
    PROVE  LET m == Head(wire[f])
               l == work[f].latest + 1
           IN  /\ m = wire[f][1] /\ m \in Message
               /\ m = TooFarBehind => Gone(f, l)
               /\ m # TooFarBehind => Sent(f, m, l)
<1> DEFINE m == Head(wire[f])
           l == work[f].latest + 1
<1>1. Types /\ Link(f)
  BY DEF IInv
<1>2. /\ work[f].latest \in Nat /\ wire[f] \in Seq(Message)
      /\ Len(wire[f]) \in Nat /\ l \in Nat /\ l > 0
  BY <1>1, LinkTypes
<1>3. Len(wire[f]) > 0 /\ m = wire[f][1] /\ m \in Message /\ 1 \in 1 .. Len(wire[f])
  <2> HIDE DEF Message
  <2> QED
    BY <1>2
<1>4. Sent(f, m, l) \/ (m = TooFarBehind /\ Gone(f, l))
  BY <1>1, <1>3 DEF Link, Continues
<1>5. m = TooFarBehind => ~Sent(f, m, l)
  BY <1>2 DEF Sent, TooFarBehind
<1> QED
  BY <1>3, <1>4, <1>5

\* What an entry that arrives does: it follows, so it is applied and committed.
LEMMA EntryArrives ==
    ASSUME IInv, NEW f \in Followers, NextChange(f), Head(wire[f]) # TooFarBehind
    PROVE  LET e == Head(wire[f]).entry
               new == Apply(work[f], work[f].latest + 1, e)
           IN  /\ e \in Entries /\ new \in Dbs
               /\ new.data = Append(work[f].data, e)
               /\ new.latest = work[f].latest + 1
               /\ new.done = NextDone(work[f].done, work[f].data, e)
               /\ Len(work[f].data) + 1 <= Len(Of(f).data)
               /\ e = Of(f).data[Len(work[f].data) + 1]
               /\ Upstream[f] # f
               /\ role[f] = "following" /\ wire[f] # <<>>
               /\ work' = [work EXCEPT ![f] = new]
               /\ disk' = [disk EXCEPT ![f] = new]
               /\ wire' = [wire EXCEPT ![f] = Tail(@)]
               /\ woken' = notify(f)
               /\ UNCHANGED <<up, role, stream, cursor, batch, minted, acked>>
<1> DEFINE m == Head(wire[f])
           e == m.entry
           l == work[f].latest + 1
           new == Apply(work[f], l, e)
<1>1. Types /\ wire[f] # <<>> /\ role[f] = "following"
  BY DEF IInv, NextChange
<1>2. m \in Message /\ Sent(f, m, l)
  BY <1>1, HeadFacts
<1>3. /\ work[f] \in Dbs /\ work[f].latest \in Nat /\ l \in Nat /\ ~(l <= work[f].latest)
      /\ work[f].latest = Len(work[f].data) /\ Of(f).latest = Len(Of(f).data)
  BY <1>1, LinkTypes
<1>4. m.lsn = l /\ e \in Entries /\ l <= Of(f).latest /\ e = Of(f).data[l]
  BY <1>2 DEF Sent, Message
<1>5. ApplyEntry(f, m) /\ UNCHANGED <<up, minted, acked>>
  BY DEF NextChange, ops
<1>6. Follows(work[f], m.lsn) /\ ~AlreadyHere(work[f], m.lsn)
  BY <1>3, <1>4 DEF Follows, AlreadyHere
<1>7. /\ wire' = [wire EXCEPT ![f] = Tail(@)]
      /\ work' = [work EXCEPT ![f] = Apply(@, m.lsn, m.entry)]
      /\ disk' = [disk EXCEPT ![f] = work'[f]]
      /\ woken' = notify(f)
      /\ UNCHANGED <<role, stream, cursor, batch>>
  BY <1>5, <1>6 DEF ApplyEntry
<1>8. work' = [work EXCEPT ![f] = new] /\ disk' = [disk EXCEPT ![f] = new]
  <2>1. work' = [work EXCEPT ![f] = new]
    BY <1>4, <1>7
  <2>2. work'[f] = new
    BY <1>1, <2>1, NodesFacts DEF Types
  <2> QED
    BY <1>7, <2>1, <2>2
<1>9. /\ new \in Dbs /\ new.data = Append(work[f].data, e) /\ new.latest = l
      /\ new.done = NextDone(work[f].done, work[f].data, e)
  BY <1>3, <1>4, ApplyFacts
<1>10. Upstream[f] # f
  BY <1>3, <1>4 DEF Of
<1> QED
  BY <1>1, <1>3, <1>4, <1>5, <1>7, <1>8, <1>9, <1>10

\* The next thing on the connection is read.
LEMMA InvNextChange ==
    ASSUME IInv, NEW f \in Followers, NextChange(f)
    PROVE  IInv'
<1>1. Types /\ Link(f) /\ wire[f] # <<>> /\ UNCHANGED <<up, minted>>
  BY DEF IInv, NextChange, ops
<1>2. CASE Head(wire[f]) = TooFarBehind
  <2>1. Disconnected(f, "stopped") /\ UNCHANGED stores
    BY <1>2 DEF NextChange
  <2>2. Gone(f, work[f].latest + 1)
    BY <1>1, <1>2, HeadFacts
  <2> QED
    BY <1>1, <2>1, <2>2, InvDisconnected
<1>3. CASE Head(wire[f]) # TooFarBehind
  <2> DEFINE e == Head(wire[f]).entry
             old == work[f]
             new == Apply(old, old.latest + 1, e)
             t == Tail(wire[f])
  <2>1. /\ e \in Entries /\ new \in Dbs
        /\ new.data = Append(old.data, e) /\ new.latest = old.latest + 1
        /\ new.done = NextDone(old.done, old.data, e)
        /\ Len(old.data) + 1 <= Len(Of(f).data)
        /\ e = Of(f).data[Len(old.data) + 1]
        /\ Upstream[f] # f /\ role[f] = "following"
        /\ work' = [work EXCEPT ![f] = new] /\ disk' = [disk EXCEPT ![f] = new]
        /\ wire' = [wire EXCEPT ![f] = t]
        /\ woken' = notify(f)
        /\ UNCHANGED <<up, role, stream, cursor, batch, minted>>
    BY <1>3, EntryArrives
  <2> HIDE DEF new
  <2>2. /\ old \in Dbs /\ old.data \in Seq(Entries) /\ Len(old.data) \in Nat
        /\ old.latest = Len(old.data) /\ Of(f).latest \in Nat /\ Len(Of(f).data) = Of(f).latest
        /\ wire[f] \in Seq(Message) /\ Len(wire[f]) \in Nat /\ cursor[f] \in Nat
    BY <1>1, LinkTypes
  <2>3. /\ t \in Seq(Message) /\ Len(t) = Len(wire[f]) - 1 /\ Len(t) \in Nat
        /\ \A i \in 1 .. Len(t) : t[i] = wire[f][i + 1]
    <3> HIDE DEF Message
    <3> QED
      BY <1>1, <2>2
  <2>4. /\ Len(new.data) = Len(old.data) + 1 /\ new.data[Len(old.data) + 1] = e
        /\ \A i \in 1 .. Len(old.data) : new.data[i] = old.data[i]
    BY <2>1, <2>2
  <2> HIDE DEF t, e
  <2>5. /\ work'[f] = new /\ wire'[f] = t /\ Of(f)' = Of(f)
        /\ \A m \in Nodes \ {f} : work'[m] = work[m]
    BY <1>1, <2>1, NodesFacts DEF Types, Of
  <2>6. Types'
    <3>1. woken' \in [Followers -> BOOLEAN]
      BY <1>1, <2>1, NotifyType DEF Types
    <3> QED
      BY <1>1, <2>1, <2>3, <3>1, NodesFacts DEF Types
  <2>7. Committed'
    BY <2>1 DEF IInv, Committed
  <2>8. Numbers'
    <3> SUFFICES ASSUME NEW m \in Nodes
                 PROVE  /\ Len(work'[m].data) <= MaxEntries
                        /\ \A i \in 1 .. Len(work'[m].data) : work'[m].data[i].op \in 1 .. minted'
                        /\ \A v \in WriteIds : work'[m].done[v] <= Len(work'[m].data)
      BY DEF Numbers
    <3>1. \A x \in Nodes :
             /\ Len(work[x].data) <= MaxEntries
             /\ \A i \in 1 .. Len(work[x].data) : work[x].data[i].op \in 1 .. minted
             /\ \A v \in WriteIds : work[x].done[v] <= Len(work[x].data)
      BY DEF IInv, Numbers
    <3>2. CASE m # f
      <4>1. work'[m] = work[m]
        BY <2>5, <3>2
      <4> QED
        BY <2>1, <3>1, <4>1
    <3>3. CASE m = f
      <4>1. Upstream[f] \in Nodes /\ f \in Nodes
        BY NodesFacts
      <4>2. Len(Of(f).data) <= MaxEntries
            /\ \A i \in 1 .. Len(Of(f).data) : Of(f).data[i].op \in 1 .. minted
        BY <3>1, <4>1 DEF Of
      <4>3. Len(new.data) <= MaxEntries
        BY <2>1, <2>2, <2>4, <4>2, BoundsAssumption
      <4>4. e.op \in 1 .. minted
        <5>1. Len(old.data) + 1 \in 1 .. Len(Of(f).data)
          BY <2>1, <2>2
        <5> QED
          BY <2>1, <4>2, <5>1
      <4>5. \A i \in 1 .. Len(old.data) : old.data[i].op \in 1 .. minted
        BY <3>1, <4>1
      <4>6. ASSUME NEW i \in 1 .. Len(new.data) PROVE new.data[i].op \in 1 .. minted
        <5>1. i \in 1 .. Len(old.data) \/ i = Len(old.data) + 1
          BY <2>2, <2>4
        <5>2. CASE i \in 1 .. Len(old.data)
          <6>1. new.data[i] = old.data[i]
            BY <2>4, <5>2
          <6> QED
            BY <4>5, <5>2, <6>1
        <5>3. CASE i = Len(old.data) + 1
          BY <2>4, <4>4, <5>3
        <5> QED
          BY <5>1, <5>2, <5>3
      <4>7. ASSUME NEW v \in WriteIds PROVE new.done[v] <= Len(new.data)
        <5>1. old.done[v] <= Len(old.data) /\ old.done[v] \in Nat
          BY <2>2, <3>1, <4>1, DbParts
        <5>2. new.done[v] \in {Unknown, Len(old.data) + 1, old.done[v]}
          BY <2>1 DEF NextDone
        <5> QED
          BY <2>2, <2>4, <5>1, <5>2 DEF Unknown
      <4> QED
        BY <2>1, <2>5, <3>3, <4>3, <4>6, <4>7
    <3> QED
      BY <3>2, <3>3
  <2>9. Link(f)'
    <3>1. Begins(new.data, Of(f).data)
      <4>1. Begins(old.data, Of(f).data)
        BY <1>1 DEF Link
      <4> QED
        BY <2>1, <2>2, <2>4, <4>1 DEF Begins
    <3>2. Begins(work[f].data, Of(f).data)'
      BY <2>5, <3>1 DEF Begins
    <3>3. Running(f)'
      <4>1. woken'[f] => woken[f]
        BY <2>1, Notified
      <4> QED
        BY <1>1, <2>1, <4>1 DEF Link, Running
    <3>4. ASSUME NEW i \in 1 .. Len(t)
          PROVE  \/ Sent(f, wire[f][i], work[f].latest + i)'
                 \/ /\ t[i] = TooFarBehind /\ i = Len(t) /\ stream[f] = "none"
                    /\ Gone(f, work[f].latest + i)'
      <4> DEFINE k == i + 1
                 l == old.latest + k
      <4>1. k \in 1 .. Len(wire[f]) /\ t[i] = wire[f][k] /\ new.latest + i = l
            /\ (k = Len(wire[f]) <=> i = Len(t))
        <5> DEFINE a == old.latest
                   b == Len(wire[f])
                   c == Len(t)
        <5>1. /\ a \in Nat /\ b \in Nat /\ c \in Nat /\ c = b - 1 /\ new.latest = a + 1
              /\ i \in Nat /\ i > 0 /\ i <= c /\ t[i] = wire[f][i + 1] /\ l = a + (i + 1)
          BY <2>1, <2>2, <2>3
        <5> HIDE DEF a, b, c, l
        <5>2. i + 1 \in 1 .. b /\ new.latest + i = l /\ (i + 1 = b <=> i = c)
          BY <5>1
        <5> QED
          BY <5>1, <5>2 DEF b, c
      <4>2. \/ Sent(f, wire[f][k], l)
            \/ /\ wire[f][k] = TooFarBehind /\ k = Len(wire[f]) /\ stream[f] = "none"
               /\ Gone(f, l)
        BY <1>1, <4>1 DEF Link, Continues
      <4> HIDE DEF k, l
      <4>3. work'[f].latest + i = l /\ wire'[f][i] = wire[f][k]
        BY <2>5, <4>1
      <4>4. Sent(f, wire[f][k], l) => Sent(f, wire[f][i], work[f].latest + i)'
        BY <2>5, <4>3 DEF Sent
      <4>5. Gone(f, l) => Gone(f, work[f].latest + i)'
        BY <2>5, <4>3 DEF Gone, Oldest
      <4> QED
        BY <4>1, <4>2, <4>4, <4>5
    <3>5. ASSUME NEW i \in 1 .. Len(batch[f]) PROVE Sent(f, batch[f][i], cursor[f] + i - 1)'
      <4>1. Sent(f, batch[f][i], cursor[f] + i - 1)
        BY <1>1 DEF Link, Continues
      <4> QED
        BY <2>1, <2>5, <4>1 DEF Sent
    <3>6. cursor[f] = IF stream[f] = "none" THEN 0 ELSE new.latest + Len(t) + 1
      <4>1. CASE stream[f] = "none"
        BY <1>1, <4>1 DEF Link, Continues
      <4>2. CASE stream[f] # "none"
        <5> DEFINE a == old.latest
                   b == Len(wire[f])
        <5>1. cursor[f] = a + b + 1
          BY <1>1, <4>2 DEF Link, Continues
        <5>2. a \in Nat /\ b \in Nat /\ new.latest = a + 1 /\ Len(t) = b - 1
          BY <2>1, <2>2, <2>3
        <5> HIDE DEF a, b
        <5>3. cursor[f] = new.latest + Len(t) + 1
          BY <5>1, <5>2
        <5> QED
          BY <4>2, <5>3
      <4> QED
        BY <4>1, <4>2
    <3>7. Continues(f)'
      BY <2>1, <2>5, <3>4, <3>5, <3>6 DEF Continues
    <3> QED
      BY <2>1, <3>2, <3>3, <3>7 DEF Link
  <2>10. ASSUME NEW g \in Followers PROVE Link(g)'
    <3>1. CASE g = f
      BY <2>9, <3>1
    <3>2. CASE g # f
      <4>1. Link(g) /\ f \in Nodes
        BY NodesFacts DEF IInv
      <4>2. Begins(work[f].data, new.data)
        BY <2>2, <2>4 DEF Begins
      <4>3. woken'[g] => woken[g] \/ stream[g] \in {"drain", "send", "blocked"}
        BY <2>1, Notified
      <4>4. wire'[g] = wire[g]
        BY <1>1, <2>1, <3>2 DEF Types
      <4> QED
        BY <1>1, <2>1, <2>6, <3>2, <4>1, <4>2, <4>3, <4>4, LinkGrows
    <3> QED
      BY <3>1, <3>2
  <2> QED
    BY <2>6, <2>7, <2>8, <2>10 DEF IInv
<1> QED
  BY <1>2, <1>3

\* A connection is lost, closed or given up after a failed apply: what is
\* rolled back was never more than what is committed.
LEMMA InvCloses ==
    ASSUME IInv, NEW f \in Followers, HangUp(f) \/ Drop(f) \/ ApplyFails(f)
    PROVE  IInv'
<1>1. Disconnected(f, "idle") /\ UNCHANGED <<up, minted>>
  BY DEF HangUp, Drop, ApplyFails, ops
<1>2. UNCHANGED stores
  <2>1. CASE HangUp(f) \/ Drop(f)
    BY <2>1 DEF HangUp, Drop
  <2>2. CASE ApplyFails(f)
    <3>1. work' = [work EXCEPT ![f] = work[f]] /\ disk' = disk /\ work \in [Nodes -> Dbs]
      BY <2>2 DEF ApplyFails, IInv, Committed, Types
    <3> QED
      BY <3>1, NodesFacts DEF stores
  <2> QED
    BY <2>1, <2>2
<1> QED
  BY <1>1, <1>2, InvDisconnected

\* A server is started again.
LEMMA InvRestart ==
    ASSUME IInv, NEW n \in Nodes, Restart(n)
    PROVE  IInv'
<1>1. /\ Types /\ up' = up \cup {n} /\ UNCHANGED <<stores, minted>> /\ work' = work
      /\ UNCHANGED <<role, stream, cursor, batch, woken, wire>>
  BY DEF IInv, Restart, stores, ops, feed
<1>2. Types'
  BY <1>1 DEF Types
<1>3. ASSUME NEW g \in Followers PROVE Link(g)'
  <2>1. Link(g)
    BY DEF IInv
  <2> QED
    BY <1>1, <1>2, <2>1, OthersStay
<1> QED
  BY <1>1, <1>2, <1>3, FeedOnly

\* A server dies: it comes back with what it had, its own connection and the
\* feeds it ran are gone, and what those had sent can still be read.
LEMMA InvCrash ==
    ASSUME IInv, NEW n \in Nodes, Crash(n)
    PROVE  IInv'
<1> DEFINE ended == {f \in Followers : n \in {f, Upstream[f]}}
<1>1. /\ Types /\ Committed /\ up' = up \ {n} /\ UNCHANGED <<disk, minted>>
      /\ work' = [work EXCEPT ![n] = disk[n]]
      /\ role' = [f \in Followers |-> IF f = n THEN "idle" ELSE role[f]]
      /\ wire' = [f \in Followers |-> IF f = n THEN <<>> ELSE wire[f]]
      /\ stream' = [f \in Followers |-> IF f \in ended THEN "none" ELSE stream[f]]
      /\ cursor' = [f \in Followers |-> IF f \in ended THEN 0 ELSE cursor[f]]
      /\ batch' = [f \in Followers |-> IF f \in ended THEN <<>> ELSE batch[f]]
      /\ woken' = [f \in Followers |-> f \notin ended /\ woken[f]]
  BY DEF IInv, Crash, ops
<1>2. work' = work /\ UNCHANGED stores
  BY <1>1 DEF Committed, Types, stores
<1>3. Types'
  <2>1. <<>> \in Seq(Message)
    OBVIOUS
  <2>2. woken' \in [Followers -> BOOLEAN]
    BY <1>1, Zenon
  <2> QED
    BY <1>1, <1>2, <2>1, <2>2 DEF Types
<1>4. ASSUME NEW g \in Followers PROVE Link(g)'
  <2>1. Link(g)
    BY DEF IInv
  <2>2. CASE g = n
    <3>1. g \in ended
      BY <2>2
    <3>2. /\ role'[g] = "idle" /\ stream'[g] = "none" /\ cursor'[g] = 0 /\ batch'[g] = <<>>
          /\ ~woken'[g] /\ wire'[g] = <<>>
      BY <1>1, <2>2, <3>1
    <3> QED
      BY <1>2, <2>1, <3>2, ClosedLink
  <2>3. CASE g # n /\ Upstream[g] = n
    <3>1. g \in ended
      BY <2>3
    <3>2. /\ role'[g] = role[g] /\ stream'[g] = "none" /\ cursor'[g] = 0 /\ batch'[g] = <<>>
          /\ ~woken'[g] /\ wire'[g] = wire[g]
      BY <1>1, <2>3, <3>1
    <3>3. Running(g)'
      BY <2>1, <3>2 DEF Link, Running
    <3>4. Continues(g)'
      BY <1>2, <2>1, <3>2, SameData DEF Link, Continues
    <3> QED
      BY <1>2, <2>1, <3>2, <3>3, <3>4, SameData DEF Link
  <2>4. CASE g # n /\ Upstream[g] # n
    <3>1. g \notin ended
      BY <2>4
    <3>2. /\ role'[g] = role[g] /\ stream'[g] = stream[g] /\ cursor'[g] = cursor[g]
          /\ batch'[g] = batch[g] /\ woken'[g] = woken[g] /\ wire'[g] = wire[g]
      BY <1>1, <2>4, <3>1 DEF Types
    <3>3. Of(g).data \in Seq(Entries) /\ Len(Of(g).data) \in Nat
      BY <1>1, LinkTypes
    <3>4. Of(g)' = Of(g) /\ work'[g] = work[g]
      BY <1>2 DEF Of
    <3>5. Begins(Of(g).data, Of(g)'.data)
      BY <3>3, <3>4 DEF Begins
    <3>6. stream[g] # "none" => {g, Upstream[g]} \subseteq up'
      BY <1>1, <2>1, <2>4 DEF Link, Running
    <3> QED
      BY <1>1, <1>3, <2>1, <3>2, <3>4, <3>5, <3>6, LinkStays
  <2> QED
    BY <2>2, <2>3, <2>4
<1> QED
  BY <1>2, <1>1, <1>3, <1>4, FeedOnly

\* Nothing happens.
LEMMA InvStutters ==
    ASSUME IInv, UNCHANGED vars
    PROVE  IInv'
<1>1. Types /\ UNCHANGED <<work, up, stores, minted, role, stream, cursor, batch, woken, wire>>
  BY DEF IInv, vars, stores, feed, ops
<1>2. Types'
  BY <1>1 DEF Types
<1>3. ASSUME NEW g \in Followers PROVE Link(g)'
  <2>1. Link(g)
    BY DEF IInv
  <2> QED
    BY <1>1, <1>2, <2>1, OthersStay
<1> QED
  BY <1>1, <1>2, <1>3, FeedOnly

\* Every step.
LEMMA InvNext == IInv /\ [Next]_vars => IInv'
<1> SUFFICES ASSUME IInv, [Next]_vars PROVE IInv'
  OBVIOUS
<1>1. ASSUME NEW w \in WriteIds \cup {NoId}, NEW n \in 1 .. MaxOp, invoke(w, n) PROVE IInv'
  BY <1>1, InvInvoke
<1>2. ASSUME NEW f \in Followers, Feed(f) PROVE IInv'
  BY <1>2, InvWaiting, InvDrain, InvSend, InvWake DEF Feed
<1>3. ASSUME NEW f \in Followers, Copy(f) PROVE IInv'
  BY <1>3, InvSubscribe, InvNextChange, InvCloses DEF Copy
<1>4. ASSUME NEW f \in Followers, Fault(f) PROVE IInv'
  BY <1>4, InvCloses DEF Fault
<1>5. ASSUME NEW n \in Nodes, Crash(n) \/ Restart(n) PROVE IInv'
  BY <1>5, InvCrash, InvRestart
<1>6. CASE UNCHANGED vars
  BY <1>6, InvStutters
<1> QED
  BY <1>1, <1>2, <1>3, <1>4, <1>5, <1>6 DEF Next

\* The invariant holds always.
LEMMA InvHolds == Spec => []IInv
BY InvInit, InvNext, PTL DEF Spec

-----------------------------------------------------------------------------
(* What is proved.                                                         *)

\* What the invariant says of one database is what TypeOK asks of it.
LEMMA DbShape ==
    ASSUME IInv, NEW n \in Nodes
    PROVE  LET db == work[n] IN
           /\ db.latest \in 0 .. MaxEntries
           /\ DOMAIN db.log \subseteq 1 .. db.latest
           /\ \A l \in DOMAIN db.log :
                 db.log[l] \in [op : 1 .. minted, id : WriteIds \cup {NoId}]
           /\ db.done \in [WriteIds -> 0 .. db.latest]
           /\ Len(db.data) = db.latest
<1> DEFINE db == work[n]
<1>1. db \in Dbs
  BY DEF IInv, Types
<1>2. /\ Len(db.data) <= MaxEntries
      /\ \A i \in 1 .. Len(db.data) : db.data[i].op \in 1 .. minted
      /\ \A w \in WriteIds : db.done[w] <= Len(db.data)
  BY DEF IInv, Numbers
<1> HIDE DEF db
<1>3. /\ db.done \in [WriteIds -> Nat] /\ db.data \in Seq(Entries) /\ db.latest = Len(db.data)
      /\ db.latest \in Nat /\ db.log = LogOf(db.data)
  BY <1>1, DbParts
<1>4. DOMAIN db.log = Kept(db.latest) /\ \A l \in Kept(db.latest) : db.log[l] = db.data[l]
  BY <1>3 DEF LogOf
<1>5. Kept(db.latest) \subseteq 1 .. db.latest
  BY DEF Kept
<1>6. ASSUME NEW l \in Kept(db.latest)
      PROVE  db.data[l] \in [op : 1 .. minted, id : WriteIds \cup {NoId}]
  <2>1. l \in 1 .. Len(db.data)
    BY <1>3, <1>5
  <2>2. db.data[l] \in Entries /\ db.data[l].op \in 1 .. minted
    BY <1>2, <1>3, <2>1
  <2> QED
    BY <2>2 DEF Entries
<1>7. db.done \in [WriteIds -> 0 .. db.latest]
  BY <1>2, <1>3
<1>8. db.latest \in 0 .. MaxEntries
  BY <1>2, <1>3, BoundsAssumption
<1> QED
  BY <1>3, <1>4, <1>5, <1>6, <1>7, <1>8 DEF db

\* Every variable always has the shape the code gives it, a feed runs only on
\* a live connection, and a closed channel is held only by a feed that took
\* one (server.go, waiting and notify; subscribe.go, stream).
THEOREM TypeCorrect == Spec => []TypeOK
<1>1. IInv => TypeOK
  <2> SUFFICES ASSUME IInv PROVE TypeOK
    OBVIOUS
  <2>1. Types /\ disk = work
    BY DEF IInv, Committed
  <2>2. \A n \in Nodes : \A db \in {work[n], disk[n]} :
          /\ db.latest \in 0 .. MaxEntries
          /\ DOMAIN db.log \subseteq 1 .. db.latest
          /\ \A l \in DOMAIN db.log :
                db.log[l] \in [op : 1 .. minted, id : WriteIds \cup {NoId}]
          /\ db.done \in [WriteIds -> 0 .. db.latest]
          /\ Len(db.data) = db.latest
    <3> SUFFICES ASSUME NEW n \in Nodes, NEW db \in {work[n], disk[n]}
                 PROVE  /\ db.latest \in 0 .. MaxEntries
                        /\ DOMAIN db.log \subseteq 1 .. db.latest
                        /\ \A l \in DOMAIN db.log :
                              db.log[l] \in [op : 1 .. minted, id : WriteIds \cup {NoId}]
                        /\ db.done \in [WriteIds -> 0 .. db.latest]
                        /\ Len(db.data) = db.latest
      OBVIOUS
    <3>1. db = work[n]
      BY <2>1
    <3> QED
      BY <3>1, DbShape
  <2>3. ASSUME NEW f \in Followers
        PROVE  /\ role[f] \in {"idle", "following", "stopped"}
               /\ stream[f] \in {"none", "waiting", "drain", "send", "blocked"}
               /\ stream[f] # "none" => role[f] = "following" /\ {f, Upstream[f]} \subseteq up
               /\ cursor[f] = 0 <=> stream[f] = "none"
               /\ woken[f] => stream[f] \in {"drain", "send", "blocked"}
               /\ batch[f] # <<>> => stream[f] = "send"
    <3>1. Link(f)
      BY DEF IInv
    <3>2. role[f] \in {"idle", "following", "stopped"}
          /\ stream[f] \in {"none", "waiting", "drain", "send", "blocked"}
      BY <2>1 DEF Types
    <3>3. Running(f)
      BY <3>1 DEF Link
    <3>4. cursor[f] = 0 <=> stream[f] = "none"
      <4> DEFINE a == work[f].latest
                 b == Len(wire[f])
      <4>1. a \in Nat /\ b \in Nat
        BY <2>1, LinkTypes
      <4>2. cursor[f] = IF stream[f] = "none" THEN 0 ELSE a + b + 1
        BY <3>1 DEF Link, Continues
      <4> HIDE DEF a, b
      <4> QED
        BY <4>1, <4>2
    <3> QED
      BY <3>2, <3>3, <3>4 DEF Running
  <2>4. up \subseteq Nodes
    BY <2>1 DEF Types
  <2> QED
    BY <2>2, <2>3, <2>4 DEF TypeOK
<1> QED
  BY <1>1, InvHolds, PTL

\* A copy is always a first part of what it follows, entry for entry, and what
\* it keeps of its log is what those entries are: whatever is lost, repeated,
\* trimmed away or restarted (follower.go, Apply; subscribe.go, drain).
THEOREM CopiesFollowAlways == Spec => []CopiesFollow
<1>1. IInv => CopiesFollow
  <2> SUFFICES ASSUME IInv, NEW f \in Followers
               PROVE  /\ IsPrefix(work[f].data, work[Upstream[f]].data)
                      /\ \A l \in DOMAIN work[f].log : work[f].log[l] = work[f].data[l]
    BY DEF CopiesFollow
  <2>1. Types /\ Begins(work[f].data, Of(f).data)
    BY DEF IInv, Link
  <2>2. work[f] \in Dbs
    BY <2>1, LinkTypes
  <2>3. IsPrefix(work[f].data, work[Upstream[f]].data)
    BY <2>1, LinkTypes DEF Begins, IsPrefix, Of
  <2>4. \A l \in DOMAIN work[f].log : work[f].log[l] = work[f].data[l]
    BY <2>2, DbParts DEF LogOf
  <2> QED
    BY <2>3, <2>4
<1> QED
  BY <1>1, InvHolds, PTL

\* What is sent to a copy always continues it without a gap and without a
\* repeat, up to the cursor of the feed, and a failure is the last thing sent
\* (subscribe.go, drain and stream).
THEOREM NoGapsAlways == Spec => []NoGaps
<1>1. IInv => NoGaps
  <2> SUFFICES ASSUME IInv, NEW f \in Followers
               PROVE  LET sent == wire[f] \o batch[f] IN
                      /\ \A i \in 1 .. Len(sent) :
                            \/ sent[i].lsn = work[f].latest + i
                            \/ sent[i] = TooFarBehind /\ i = Len(sent) /\ stream[f] = "none"
                      /\ stream[f] # "none" =>
                            cursor[f] + Len(batch[f]) = work[f].latest + Len(sent) + 1
    BY DEF NoGaps
  <2> DEFINE a == work[f].latest
             b == batch[f]
             w == wire[f]
             sent == w \o b
  <2>1. Types /\ Running(f) /\ Continues(f)
    BY DEF IInv, Link
  <2>2. a \in Nat /\ w \in Seq(Message) /\ b \in Seq(Message) /\ Len(w) \in Nat /\ Len(b) \in Nat
    BY <2>1, LinkTypes
  <2>3. /\ Len(sent) = Len(w) + Len(b)
        /\ \A i \in 1 .. Len(w) : sent[i] = w[i]
        /\ \A i \in 1 .. Len(sent) : i > Len(w) => sent[i] = b[i - Len(w)]
    <3> HIDE DEF Message, w, b
    <3> QED
      BY <2>2
  <2>4. stream[f] # "none" => cursor[f] = a + Len(w) + 1
    BY <2>1 DEF Continues
  <2>5. b # <<>> => stream[f] = "send"
    BY <2>1 DEF Running
  <2>6. \A i \in 1 .. Len(w) :
           w[i].lsn = a + i \/ (w[i] = TooFarBehind /\ i = Len(w) /\ stream[f] = "none")
    BY <2>1 DEF Continues, Sent
  <2>7. \A i \in 1 .. Len(b) : b[i].lsn = cursor[f] + i - 1
    BY <2>1 DEF Continues, Sent
  <2>8. Len(b) > 0 => stream[f] = "send"
    BY <2>2, <2>5
  <2> HIDE DEF a, b, w, sent
  <2>9. ASSUME NEW i \in 1 .. Len(sent)
        PROVE  \/ sent[i].lsn = a + i
               \/ sent[i] = TooFarBehind /\ i = Len(sent) /\ stream[f] = "none"
    <3>1. CASE i <= Len(w)
      <4>1. i \in 1 .. Len(w) /\ sent[i] = w[i]
        BY <2>2, <2>3, <3>1
      <4>2. stream[f] = "none" => Len(sent) = Len(w)
        BY <2>2, <2>3, <2>8
      <4> QED
        BY <2>6, <4>1, <4>2
    <3>2. CASE i > Len(w)
      <4> DEFINE j == i - Len(w)
      <4>1. j \in 1 .. Len(b) /\ sent[i] = b[j] /\ Len(b) > 0
        BY <2>2, <2>3, <3>2
      <4>2. cursor[f] = a + Len(w) + 1 /\ b[j].lsn = cursor[f] + j - 1
        BY <2>4, <2>7, <2>8, <4>1
      <4>3. cursor[f] + j - 1 = a + i
        BY <2>2, <2>3, <4>2
      <4> QED
        BY <4>1, <4>2, <4>3
    <3> QED
      BY <2>2, <2>3, <3>1, <3>2
  <2>10. stream[f] # "none" => cursor[f] + Len(b) = a + Len(sent) + 1
    BY <2>2, <2>3, <2>4
  <2> QED
    BY <2>9, <2>10 DEF a, b, w, sent
<1> QED
  BY <1>1, InvHolds, PTL

\* A follower has given up, or is about to read that it must, only when the
\* entry it needs next is older than everything its upstream keeps (follow.go,
\* Run; subscribe.go, follow and drain).
THEOREM StopsOnlyWhenBehindAlways == Spec => []StopsOnlyWhenBehind
<1>1. IInv => StopsOnlyWhenBehind
  <2> SUFFICES ASSUME IInv, NEW f \in Followers,
                      \/ role[f] = "stopped"
                      \/ wire[f] # <<>> /\ Head(wire[f]) = TooFarBehind
               PROVE  work[f].latest + 1 < OldestLSN(work[Upstream[f]])
    BY DEF StopsOnlyWhenBehind
  <2>1. Types /\ Link(f)
    BY DEF IInv
  <2>2. Of(f) \in Dbs
    BY <2>1, LinkTypes
  <2>3. Gone(f, work[f].latest + 1)
    BY <2>1, HeadFacts DEF Link
  <2> QED
    BY <2>2, <2>3, OldestIs DEF Gone, Of
<1> QED
  BY <1>1, InvHolds, PTL

\* A write is published, all its entries at once.
LEMMA Publishes ==
    ASSUME IInv, NEW w \in WriteIds \cup {NoId}, NEW n \in 1 .. MaxOp, invoke(w, n)
    PROVE  [Promised!Next]_([m \in Nodes |-> disk[m].data])
<1> DEFINE held == [m \in Nodes |-> disk[m].data]
<1>1. Types /\ disk = work /\ Leader \in Nodes
  BY NodesFacts DEF IInv, Committed
<1>2. CASE Wrote(work[Leader], w)
  BY <1>2 DEF invoke, stores
<1>3. CASE ~Wrote(work[Leader], w)
  <2> DEFINE old == work[Leader]
             e == [op |-> minted + 1, id |-> w]
             new == recordAll(old, e, n)
  <2>1. /\ work' = [work EXCEPT ![Leader] = new]
        /\ disk' = [disk EXCEPT ![Leader] = work'[Leader]]
    BY <1>3 DEF invoke
  <2>2. /\ n \in Nat /\ n > 0 /\ e \in Entries /\ old \in Dbs /\ work \in [Nodes -> Dbs]
    BY <1>1, BoundsAssumption DEF Entries, Types
  <2>3. new \in Further(old, e, n)
    BY <2>2, RecordAllFacts
  <2> HIDE DEF e, new
  <2>4. /\ new \in Dbs /\ Len(new.data) = Len(old.data) + n
        /\ \A i \in 1 .. Len(old.data) : new.data[i] = old.data[i]
    BY <2>3 DEF Further
  <2>5. new.data \in Seq(Entries) /\ Len(new.data) \in Nat /\ Len(old.data) \in Nat
    BY <2>2, <2>4, DbParts
  <2>6. disk' = [disk EXCEPT ![Leader] = new] /\ disk \in [Nodes -> Dbs]
    BY <1>1, <2>1, <2>2
  <2>7. /\ held[Leader] = old.data
        /\ held'[Leader] = new.data
        /\ held' = [held EXCEPT ![Leader] = held'[Leader]]
    BY <1>1, <2>6
  <2> HIDE DEF held
  <2>8. /\ Len(held'[Leader]) > Len(held[Leader])
        /\ \A i \in 1 .. Len(held[Leader]) : held'[Leader][i] = held[Leader][i]
        /\ \A i \in 1 .. Len(held'[Leader]) : held'[Leader][i] \in Entries
    BY <2>2, <2>4, <2>5, <2>7
  <2> QED
    BY <2>7, <2>8 DEF Promised!Next, Promised!Publish, held
<1> QED
  BY <1>2, <1>3

\* A copy takes the next entry of what it follows.
LEMMA Takes ==
    ASSUME IInv, NEW f \in Followers, NextChange(f)
    PROVE  [Promised!Next]_([m \in Nodes |-> disk[m].data])
<1> DEFINE held == [m \in Nodes |-> disk[m].data]
<1>1. Types /\ disk = work /\ f \in Nodes /\ Upstream[f] \in Nodes
  BY NodesFacts DEF IInv, Committed
<1>2. CASE Head(wire[f]) = TooFarBehind
  BY <1>2 DEF NextChange, stores
<1>3. CASE Head(wire[f]) # TooFarBehind
  <2> DEFINE e == Head(wire[f]).entry
             old == work[f]
             new == Apply(old, old.latest + 1, e)
  <2>1. /\ new.data = Append(old.data, e) /\ new \in Dbs
        /\ Len(old.data) + 1 <= Len(Of(f).data)
        /\ e = Of(f).data[Len(old.data) + 1]
        /\ disk' = [disk EXCEPT ![f] = new]
    BY <1>3, EntryArrives
  <2> HIDE DEF e, new
  <2>2. Len(old.data) \in Nat /\ Len(Of(f).data) \in Nat /\ disk \in [Nodes -> Dbs]
    BY <1>1, LinkTypes DEF Types
  <2>3. held[f] = old.data /\ held[Upstream[f]] = Of(f).data
    BY <1>1 DEF Of
  <2>4. held' = [held EXCEPT ![f] = new.data]
    BY <1>1, <2>1, <2>2
  <2> HIDE DEF held
  <2>5. Len(held[f]) < Len(held[Upstream[f]])
    BY <2>1, <2>2, <2>3
  <2>6. new.data = Append(held[f], held[Upstream[f]][Len(held[f]) + 1])
    BY <2>1, <2>3
  <2>7. held' = [held EXCEPT ![f] = Append(held[f], held[Upstream[f]][Len(held[f]) + 1])]
    BY <2>4, <2>6
  <2>8. \E c \in Followers :
           /\ Len(held[c]) < Len(held[Upstream[c]])
           /\ held' = [held EXCEPT ![c] = Append(@, held[Upstream[c]][Len(@) + 1])]
    BY <2>5, <2>7
  <2> QED
    BY <2>8 DEF Promised!Next, Promised!Take, held
<1> QED
  BY <1>2, <1>3

\* Following implements CopiedLog, for every topology: what a server holds
\* durably only grows, the leader's by whole writes and a copy's by exactly the
\* next entry of what it follows (invoke.go, perform; follower.go, Apply).
THEOREM RefinesCopiedLog == Spec => Refines
<1> DEFINE held == [m \in Nodes |-> disk[m].data]
<1>1. Init => Promised!Init
  <2> SUFFICES ASSUME Init PROVE held = [s \in Followers \cup {Leader} |-> <<>>]
    BY DEF Promised!Init, Promised!Servers
  <2>1. Nodes = Followers \cup {Leader}
    BY DEF Nodes
  <2>2. \A m \in Nodes : disk[m].data = <<>>
    BY EmptyIsMade DEF Init
  <2> QED
    BY <2>1, <2>2
<1>2. IInv /\ [Next]_vars => [Promised!Next]_held
  <2> SUFFICES ASSUME IInv, [Next]_vars PROVE [Promised!Next]_held
    OBVIOUS
  <2>1. ASSUME NEW w \in WriteIds \cup {NoId}, NEW n \in 1 .. MaxOp, invoke(w, n)
        PROVE  [Promised!Next]_held
    BY <2>1, Publishes
  <2>2. ASSUME NEW f \in Followers, NextChange(f) PROVE [Promised!Next]_held
    BY <2>2, Takes
  <2>3. ASSUME NEW f \in Followers, Feed(f) \/ Subscribe(f) \/ HangUp(f) \/ Fault(f)
        PROVE  disk' = disk
    BY <2>3 DEF Feed, waiting, drain, send, Wake, Subscribe, HangUp, Fault, ApplyFails, Drop,
                stores
  <2>4. ASSUME NEW n \in Nodes, Crash(n) \/ Restart(n) PROVE disk' = disk
    BY <2>4 DEF Crash, Restart, stores
  <2>5. CASE UNCHANGED vars
    BY <2>5 DEF vars, stores
  <2> QED
    BY <2>1, <2>2, <2>3, <2>4, <2>5 DEF Next, Copy
<1>3. IInv /\ [Next]_vars => [Promised!Next]_([n \in Nodes |-> disk[n].data])
  BY <1>2
<1> HIDE DEF held
<1> QED
  BY <1>1, <1>3, InvHolds, PTL DEF Spec, Refines, Promised!Spec

-----------------------------------------------------------------------------
(* Write ids.                                                              *)

\* The steps that change what a server holds.
LEMMA WorkSteps ==
    ASSUME IInv, [Next]_vars
    PROVE  \/ work' = work
           \/ \E w \in WriteIds \cup {NoId}, n \in 1 .. MaxOp :
                 invoke(w, n) /\ ~Wrote(work[Leader], w)
           \/ \E f \in Followers : NextChange(f) /\ Head(wire[f]) # TooFarBehind
<1>1. Types /\ disk = work
  BY DEF IInv, Committed
<1>2. ASSUME NEW w \in WriteIds \cup {NoId}, NEW n \in 1 .. MaxOp,
             invoke(w, n), Wrote(work[Leader], w)
      PROVE  work' = work
  BY <1>2 DEF invoke, stores
<1>3. ASSUME NEW f \in Followers, NextChange(f), Head(wire[f]) = TooFarBehind PROVE work' = work
  BY <1>3 DEF NextChange, stores
<1>4. ASSUME NEW f \in Followers, Feed(f) \/ Subscribe(f) \/ HangUp(f) \/ Drop(f)
      PROVE  work' = work
  BY <1>4 DEF Feed, waiting, drain, send, Wake, Subscribe, HangUp, Drop, stores
<1>5. ASSUME NEW f \in Followers, ApplyFails(f) PROVE work' = work
  <2>1. work' = [work EXCEPT ![f] = work[f]]
    BY <1>1, <1>5 DEF ApplyFails
  <2> QED
    BY <1>1, <2>1 DEF Types
<1>6. ASSUME NEW n \in Nodes, Crash(n) PROVE work' = work
  <2>1. work' = [work EXCEPT ![n] = work[n]]
    BY <1>1, <1>6 DEF Crash
  <2> QED
    BY <1>1, <2>1 DEF Types
<1>7. ASSUME NEW n \in Nodes, Restart(n) PROVE work' = work
  BY <1>7 DEF Restart, stores
<1>8. CASE UNCHANGED vars
  BY <1>8 DEF vars, stores
<1> QED
  BY <1>2, <1>3, <1>4, <1>5, <1>6, <1>7, <1>8 DEF Next, Copy, Fault

\* A second operation is performed under a write id only after an entry the id
\* was on has aged out.
Spaced(s) ==
    \A i, j \in 1 .. Len(s) :
        i < j /\ s[i].id = s[j].id /\ s[i].id # NoId /\ s[i].op # s[j].op =>
            /\ Retain # 0
            /\ \E k \in 1 .. i : s[k].id = s[i].id /\ k + Retain < j

\* A write whose id leads nowhere adds its entries.
LEMMA SpacedWritten ==
    ASSUME NEW db \in Dbs, Remembers(db), Spaced(db.data), NEW e \in Entries, ~Wrote(db, e.id),
           NEW k \in Nat, k > 0, NEW new \in Further(db, e, k)
    PROVE  Spaced(new.data)
<1> DEFINE s == db.data
           t == new.data
           n == Len(s)
<1>1. s \in Seq(Entries) /\ n \in Nat /\ Retain \in Nat
  BY DbParts, RetainAssumption
<1>2. /\ Len(t) = n + k
      /\ \A i \in 1 .. n : t[i] = s[i]
      /\ \A i \in 1 .. k : t[n + i] = e
  BY DEF Further
<1>3. ASSUME NEW i \in 1 .. (n + k), i > n PROVE t[i] = e
  <2>1. i - n \in 1 .. k /\ n + (i - n) = i
    BY <1>1, <1>3
  <2> QED
    BY <1>2, <2>1
<1>4. ASSUME NEW i \in 1 .. (n + k), NEW j \in 1 .. (n + k),
             i < j, t[i].id = t[j].id, t[i].id # NoId, t[i].op # t[j].op
      PROVE  /\ Retain # 0
             /\ \E x \in 1 .. i : t[x].id = t[i].id /\ x + Retain < j
  <2>1. i \in 1 .. n
    BY <1>1, <1>3, <1>4
  <2>2. \A x \in 1 .. i : t[x] = s[x]
    BY <1>1, <1>2, <2>1
  <2>3. i \in 1 .. i
    BY <2>1
  <2>4. CASE j <= n
    <3>1. j \in 1 .. n /\ t[j] = s[j] /\ t[i] = s[i]
      BY <1>1, <1>2, <2>1, <2>4
    <3>2. Retain # 0 /\ \E x \in 1 .. i : s[x].id = s[i].id /\ x + Retain < j
      BY <1>4, <2>1, <3>1 DEF Spaced
    <3> QED
      BY <2>2, <2>3, <3>2
  <2>5. CASE ~(j <= n)
    <3>1. t[j] = e /\ s[i].id = e.id /\ e.id \in WriteIds
      <4>1. t[j] = e
        BY <1>1, <1>3, <2>5
      <4>2. e.id \in WriteIds \cup {NoId}
        BY DEF Entries
      <4> HIDE DEF t
      <4>3. t[i] = s[i]
        BY <2>2, <2>3
      <4> QED
        BY <1>4, <4>1, <4>2, <4>3
    <3>2. db.done[e.id] = Unknown
      BY <1>4, <3>1, <2>2, <2>3 DEF Wrote
    <3>3. Aged(s, n, i)
      BY <2>1, <3>1, <3>2 DEF Remembers
    <3>4. PICK x \in 1 .. i : s[x].id = s[i].id /\ x + Retain <= n
      BY <3>3 DEF Aged
    <3>5. Retain # 0 /\ x + Retain < j
      BY <1>1, <2>5, <3>3, <3>4 DEF Aged
    <3>6. t[x].id = t[i].id
      BY <2>2, <2>3, <3>4
    <3> QED
      BY <3>5, <3>6
  <2> QED
    BY <2>4, <2>5
<1> HIDE DEF t
<1>5. Spaced(t)
  BY <1>2, <1>4 DEF Spaced
<1> QED
  BY <1>5 DEF t

\* The next entry of a log that is spaced.
LEMMA SpacedTaken ==
    ASSUME NEW db \in Dbs, NEW of \in Dbs, Spaced(of.data), Begins(db.data, of.data),
           Len(db.data) + 1 <= Len(of.data), NEW e \in Entries, e = of.data[Len(db.data) + 1]
    PROVE  Spaced(Append(db.data, e))
<1> DEFINE n == Len(db.data)
           t == Append(db.data, e)
<1>1. db.data \in Seq(Entries) /\ n \in Nat /\ Len(of.data) \in Nat
  BY DbParts
<1>2. Len(t) = n + 1 /\ t[n + 1] = e /\ \A i \in 1 .. n : t[i] = db.data[i]
  BY <1>1
<1> HIDE DEF t
<1>3. ASSUME NEW i \in 1 .. (n + 1) PROVE i \in 1 .. Len(of.data) /\ t[i] = of.data[i]
  <2>1. i \in 1 .. n \/ i = n + 1
    BY <1>1
  <2>2. CASE i \in 1 .. n
    BY <1>1, <1>2, <2>2 DEF Begins
  <2>3. CASE i = n + 1
    BY <1>1, <1>2, <2>3
  <2> QED
    BY <2>1, <2>2, <2>3
<1>4. ASSUME NEW i \in 1 .. (n + 1), NEW j \in 1 .. (n + 1),
             i < j, t[i].id = t[j].id, t[i].id # NoId, t[i].op # t[j].op
      PROVE  /\ Retain # 0
             /\ \E x \in 1 .. i : t[x].id = t[i].id /\ x + Retain < j
  <2>1. /\ i \in 1 .. Len(of.data) /\ t[i] = of.data[i]
        /\ j \in 1 .. Len(of.data) /\ t[j] = of.data[j]
    BY <1>3
  <2>2. Retain # 0 /\ \E x \in 1 .. i : of.data[x].id = of.data[i].id /\ x + Retain < j
    BY <1>4, <2>1 DEF Spaced
  <2>3. PICK x \in 1 .. i : of.data[x].id = of.data[i].id /\ x + Retain < j
    BY <2>2
  <2>4. x \in 1 .. (n + 1)
    BY <1>1
  <2>5. t[x].id = t[i].id
    BY <1>3, <2>1, <2>3, <2>4
  <2> QED
    BY <2>2, <2>3, <2>5
<1>5. Spaced(t)
  BY <1>2, <1>4 DEF Spaced
<1> QED
  BY <1>5 DEF t

\* A write the leader has not answered before, on the leader.
LEMMA LeaderWrites ==
    ASSUME IInv, NEW w \in WriteIds \cup {NoId}, NEW n \in 1 .. MaxOp, invoke(w, n),
           ~Wrote(work[Leader], w)
    PROVE  LET e == [op |-> minted + 1, id |-> w]
               new == recordAll(work[Leader], e, n)
           IN  /\ e \in Entries /\ e.id = w /\ n \in Nat /\ n > 0 /\ work[Leader] \in Dbs
               /\ new \in Further(work[Leader], e, n)
               /\ work'[Leader] = new
               /\ \A m \in Nodes \ {Leader} : work'[m] = work[m]
<1> DEFINE e == [op |-> minted + 1, id |-> w]
           new == recordAll(work[Leader], e, n)
<1>1. /\ e \in Entries /\ e.id = w /\ n \in Nat /\ n > 0
      /\ work \in [Nodes -> Dbs] /\ Leader \in Nodes
  BY BoundsAssumption, NodesFacts DEF IInv, Types, Entries
<1>2. new \in Further(work[Leader], e, n)
  BY <1>1, RecordAllFacts
<1>3. work' = [work EXCEPT ![Leader] = new]
  BY DEF invoke
<1> HIDE DEF e, new
<1>4. work'[Leader] = new /\ \A m \in Nodes \ {Leader} : work'[m] = work[m]
  BY <1>1, <1>3
<1> QED
  BY <1>1, <1>2, <1>4 DEF e, new

\* An entry that arrives, on the copy.
LEMMA CopyTakes ==
    ASSUME IInv, NEW f \in Followers, NextChange(f), Head(wire[f]) # TooFarBehind
    PROVE  LET e == Head(wire[f]).entry IN
           /\ e \in Entries /\ work[f] \in Dbs /\ work'[f] \in Dbs /\ Of(f) \in Dbs
           /\ f \in Nodes /\ Upstream[f] \in Nodes
           /\ Begins(work[f].data, Of(f).data)
           /\ Len(work[f].data) + 1 <= Len(Of(f).data)
           /\ e = Of(f).data[Len(work[f].data) + 1]
           /\ work'[f].data = Append(work[f].data, e)
           /\ work'[f].done = NextDone(work[f].done, work[f].data, e)
           /\ \A m \in Nodes \ {f} : work'[m] = work[m]
<1> DEFINE e == Head(wire[f]).entry
           new == Apply(work[f], work[f].latest + 1, e)
<1>1. Types /\ Begins(work[f].data, Of(f).data) /\ f \in Nodes /\ Upstream[f] \in Nodes
  BY NodesFacts DEF IInv, Link
<1>2. work[f] \in Dbs /\ Of(f) \in Dbs /\ work \in [Nodes -> Dbs]
  BY <1>1, LinkTypes DEF Types
<1>3. /\ e \in Entries /\ new \in Dbs
      /\ new.data = Append(work[f].data, e)
      /\ new.done = NextDone(work[f].done, work[f].data, e)
      /\ Len(work[f].data) + 1 <= Len(Of(f).data)
      /\ e = Of(f).data[Len(work[f].data) + 1]
      /\ work' = [work EXCEPT ![f] = new]
  BY EntryArrives
<1> HIDE DEF e, new
<1>4. work'[f] = new /\ \A m \in Nodes \ {f} : work'[m] = work[m]
  BY <1>1, <1>2, <1>3
<1> QED
  BY <1>1, <1>2, <1>3, <1>4 DEF e

\* What every server knows of the writes it holds.
Knows(db) == Remembers(db) /\ Spaced(db.data)

\* Every step keeps it, on the leader and on every copy.
LEMMA KnowsStep ==
    ASSUME IInv, [Next]_vars, \A m \in Nodes : Knows(work[m]), NEW m \in Nodes
    PROVE  Knows(work'[m])
<1>1. CASE work' = work
  BY <1>1
<1>2. ASSUME NEW w \in WriteIds \cup {NoId}, NEW n \in 1 .. MaxOp,
             invoke(w, n), ~Wrote(work[Leader], w)
      PROVE  Knows(work'[m])
  <2> DEFINE e == [op |-> minted + 1, id |-> w]
             new == recordAll(work[Leader], e, n)
  <2>1. /\ e \in Entries /\ e.id = w /\ n \in Nat /\ n > 0 /\ work[Leader] \in Dbs
        /\ new \in Further(work[Leader], e, n)
        /\ work'[Leader] = new
        /\ \A k \in Nodes \ {Leader} : work'[k] = work[k]
    BY <1>2, LeaderWrites
  <2> HIDE DEF e, new
  <2>2. Knows(work[Leader]) /\ ~Wrote(work[Leader], e.id)
    BY <1>2, <2>1, NodesFacts
  <2>3. Spaced(new.data)
    BY <2>1, <2>2, SpacedWritten DEF Knows
  <2>4. Remembers(new)
    BY <2>1, <2>2 DEF Knows, Further
  <2> QED
    BY <2>1, <2>3, <2>4 DEF Knows
<1>3. ASSUME NEW f \in Followers, NextChange(f), Head(wire[f]) # TooFarBehind
      PROVE  Knows(work'[m])
  <2> DEFINE e == Head(wire[f]).entry
  <2>1. /\ e \in Entries /\ work[f] \in Dbs /\ work'[f] \in Dbs /\ Of(f) \in Dbs
        /\ f \in Nodes /\ Upstream[f] \in Nodes
        /\ Begins(work[f].data, Of(f).data)
        /\ Len(work[f].data) + 1 <= Len(Of(f).data)
        /\ e = Of(f).data[Len(work[f].data) + 1]
        /\ work'[f].data = Append(work[f].data, e)
        /\ work'[f].done = NextDone(work[f].done, work[f].data, e)
        /\ \A k \in Nodes \ {f} : work'[k] = work[k]
    BY <1>3, CopyTakes
  <2>2. Knows(work[f]) /\ Knows(Of(f))
    BY <2>1 DEF Of
  <2> HIDE DEF e
  <2>3. Spaced(work'[f].data)
    BY <2>1, <2>2, SpacedTaken DEF Knows
  <2>4. Remembers(work'[f])
    BY <2>1, <2>2, RemembersMore DEF Knows
  <2> QED
    BY <2>1, <2>3, <2>4 DEF Knows
<1> QED
  BY <1>1, <1>2, <1>3, WorkSteps

\* It always holds.
LEMMA KnowsHolds == Spec => [](\A m \in Nodes : Knows(work[m]))
<1>1. Init => \A m \in Nodes : Knows(work[m])
  <2> SUFFICES ASSUME Init, NEW m \in Nodes PROVE Knows(work[m])
    OBVIOUS
  <2>1. work[m] = EmptyDb
    BY DEF Init
  <2>2. Len(work[m].data) = 0 /\ \A w \in WriteIds : work[m].done[w] = Unknown
    BY <2>1, EmptyIsMade DEF EmptyDb
  <2> QED
    BY <2>2 DEF Knows, Remembers, Spaced
<1>2. IInv /\ (\A m \in Nodes : Knows(work[m])) /\ [Next]_vars
        => (\A m \in Nodes : Knows(work[m]))'
  <2> SUFFICES ASSUME IInv, [Next]_vars, \A m \in Nodes : Knows(work[m]), NEW m \in Nodes
               PROVE  Knows(work[m])'
    BY DEF Nodes
  <2>1. Knows(work'[m])
    BY KnowsStep
  <2> QED
    BY <2>1 DEF Knows, Remembers, Spaced, Kept, Aged
<1> QED
  BY <1>1, <1>2, InvHolds, PTL DEF Spec

\* A write id is one write on every server, whatever was retried, lost, followed
\* or restarted: a second operation is performed under it only after an entry
\* the id was on has aged out, and so never when nothing is trimmed (invoke.go,
\* perform; log.go, Wrote and trim).
THEOREM WrittenOnceAlways == Spec => []WrittenOnce
<1>1. (\A m \in Nodes : Knows(work[m])) => WrittenOnce
  <2> SUFFICES ASSUME NEW n \in Nodes, Spaced(work[n].data),
                      NEW i \in 1 .. Len(work[n].data), NEW j \in 1 .. Len(work[n].data),
                      i < j, work[n].data[i].id = work[n].data[j].id,
                      work[n].data[i].id # NoId, work[n].data[i].op # work[n].data[j].op
               PROVE  /\ Retain # 0
                      /\ \E k \in 1 .. i : /\ work[n].data[k].id = work[n].data[i].id
                                           /\ k + Retain < j
    BY DEF WrittenOnce, Knows
  <2> QED
    BY DEF Spaced
<1> QED
  BY <1>1, KnowsHolds, PTL

\* A retry is answered, on the leader and on every copy, as long as none of the
\* entries under its id has aged out, however many entries an operation writes
\* and wherever the trim cuts: what its id leads to is the last of them and is
\* still kept (log.go, noteWrite, Wrote and trim).
THEOREM RetriesAreAnsweredAlways == Spec => []RetriesAreAnswered
<1>1. IInv /\ (\A m \in Nodes : Knows(work[m])) => RetriesAreAnswered
  <2> SUFFICES ASSUME IInv, NEW n \in Nodes, Remembers(work[n]), NEW w \in WriteIds
               PROVE  LET db    == work[n]
                          under == {i \in 1 .. Len(db.data) : db.data[i].id = w}
                      IN  /\ db.done[w] # Unknown =>
                                 /\ db.done[w] \in under \cap DOMAIN db.log
                                 /\ \A i \in under : i <= db.done[w]
                          /\ under # {} /\ under \subseteq DOMAIN db.log => db.done[w] # Unknown
    BY DEF RetriesAreAnswered, Knows
  <2> DEFINE db == work[n]
             under == {i \in 1 .. Len(db.data) : db.data[i].id = w}
  <2>1. db \in Dbs
    BY DEF IInv, Types
  <2>2. Len(db.data) \in Nat /\ db.log = LogOf(db.data)
    BY <2>1, DbParts
  <2>3. DOMAIN db.log = Kept(Len(db.data)) /\ Kept(Len(db.data)) \subseteq 1 .. Len(db.data)
    BY <2>2 DEF LogOf, Kept
  <2>4. ASSUME db.done[w] # Unknown
        PROVE  db.done[w] \in under \cap DOMAIN db.log /\ \A i \in under : i <= db.done[w]
    BY <2>3, <2>4 DEF Remembers
  <2>5. ASSUME under # {}, under \subseteq DOMAIN db.log, db.done[w] = Unknown PROVE FALSE
    <3>1. PICK i \in 1 .. Len(db.data) : db.data[i].id = w
      BY <2>5
    <3>2. Aged(db.data, Len(db.data), i)
      BY <2>5, <3>1 DEF Remembers
    <3>3. PICK k \in 1 .. i : db.data[k].id = db.data[i].id /\ k + Retain <= Len(db.data)
      BY <3>2 DEF Aged
    <3>4. k \in 1 .. Len(db.data) /\ Retain # 0
      BY <2>2, <3>1, <3>2 DEF Aged
    <3>5. k \in Kept(Len(db.data))
      BY <2>3, <2>5, <3>1, <3>3, <3>4
    <3> QED
      BY <2>2, <3>3, <3>4, <3>5, RetainAssumption DEF Kept
  <2> QED
    BY <2>4, <2>5
<1> QED
  BY <1>1, InvHolds, KnowsHolds, PTL

=============================================================================
