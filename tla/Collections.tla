---------------------------- MODULE Collections ----------------------------
(***************************************************************************)
(* A collection and everything kept beside its documents: the entries of   *)
(* an index, the totals of a rollup, and the declaration that says which   *)
(* of them there are (store/collection.go, rollup.go, scan.go,             *)
(* deleterange.go, store.go), and the operations, single or in a batch,    *)
(* that change them (store/invoke.go, batch.go).                           *)
(*                                                                         *)
(* A document is what its index and its rollup read of it: f, the elements *)
(* of an array field the index spreads over; h, the group it is counted    *)
(* in; g, the number that is summed.  The tree is one value, `work` as the *)
(* transaction sees it and `disk` as the last commit left it; how one      *)
(* becomes the other is modules Pager and Parts.                           *)
(***************************************************************************)
EXTENDS Integers, FiniteSets, Sequences, SequencesExt

CONSTANTS
    MaxKey,        \* primary keys are numbered in key order up to this
    Inputs,        \* the documents callers send: [f, h, g]
    Exact,         \* whole numbers a float64 holds exactly: up to this size
    Limits,        \* limits that operations declare
    Room,          \* the budget of one answer, in rows
    MaxId,         \* bound: the highest number an index or a rollup is given
    MaxCollection, \* bound: the highest number a collection is given
    MaxSteps,      \* bound: steps in a batch
    Mixed,         \* whether a document may hold what a later index refuses
    CarryOn        \* whether callers go on after an operation failed half way

ASSUME BoundsAssumption ==
    /\ MaxKey \in Nat /\ Exact \in Nat /\ Room \in Nat /\ Limits \subseteq Nat
    /\ MaxId \in Nat /\ MaxCollection \in Nat /\ MaxSteps \in Nat
    /\ Mixed \in BOOLEAN /\ CarryOn \in BOOLEAN

\* Groups are numbered from 1: 0 is what NoDoc has.
ASSUME InputsAssumption == Inputs \subseteq [f : SUBSET Nat, h : Nat \ {0}, g : Int]

Keys == 1..MaxKey

\* An element that is not of the type the index was declared with, and a sum
\* field that does not hold a number.
Odd == 0

NoDoc == [f |-> {}, h |-> 0, g |-> Odd]

Elements == {d.f : d \in Inputs}

Groups == {d.h : d \in Inputs}

\* An update sets some of the fields of one document to those of another.
Docs == [f : Elements, h : Groups, g : {d.g : d \in Inputs}]

Ids == -1..MaxId

Absent == -1

VARIABLES
    work,    \* Store.tree: what the transaction in progress sees
    disk,    \* the tree of the last commit
    dirty,   \* Pager.Pending: something has been written since
    steps,   \* steps done in the batch that is running, Absent outside one
    half,    \* history: the last operation failed after changing the tree
    page     \* the answer of the last call, if it was a deleteRange

vars == <<work, disk, dirty, steps, half, page>>

\* The tree: catalogue, documents, index entries and totals.
EmptyTree ==
    [cid |-> 0, next |-> 1,
     index |-> Absent, unique |-> FALSE, nextIndex |-> 0,
     rollup |-> Absent, nextRollup |-> 0,
     docs |-> [k \in Keys |-> NoDoc],
     entries |-> {},
     totals |-> [r \in (1..MaxCollection) \X (0..MaxId) \X Groups |->
                    [count |-> 0, sum |-> 0]]]

NoPage == [from |-> 0, key |-> 0, more |-> FALSE, limit |-> 0]

Stored(t) == {k \in Keys : t.docs[k] # NoDoc}

Init ==
    /\ work = EmptyTree
    /\ disk = EmptyTree
    /\ dirty = FALSE
    /\ steps = Absent
    /\ half = FALSE
    /\ page = NoPage

-----------------------------------------------------------------------------
(* Index entries and totals of one document.                               *)

\* entriesForIndex: one entry per element, under the numbers of the collection
\* and of the index; nothing for a document without elements.
entriesFor(t, k, d) ==
    {<<t.cid, t.index, v, k>> : v \in IF t.index = Absent THEN {} ELSE d.f}

\* matches, for every element of the spread field.
Indexable(t, d) == t.index = Absent \/ Odd \notin d.f

\* checkUnique: another document under a value of a unique index.
Clashes(t, k, d) ==
    /\ t.unique
    /\ \E e \in t.entries : /\ e[1] = t.cid /\ e[2] = t.index
                            /\ e[3] \in d.f /\ e[4] # k

\* groupKey and the sums: what contribute refuses before it moves a rollup.
Summable(t, d) == t.rollup = Absent \/ d.g # Odd

\* A float64 sum: exact up to a size, and from there to the nearest even
\* multiple of two.
Add(a, b) ==
    LET x == a + b
    IN  IF x \in -Exact..Exact \/ x % 2 = 0 THEN x
        ELSE IF (x \div 2) % 2 = 0 THEN x - 1 ELSE x + 1

\* Mutant of contribute: a document that leaves is counted in once more.
contributeCountsUp(t, d, sign) ==
    LET at == <<t.cid, t.rollup, d.h>>
    IN  IF t.rollup = Absent THEN t
        ELSE [t EXCEPT !.totals[at] =
                 [count |-> @.count + 1, sum |-> Add(@.sum, sign * d.g)]]

\* contribute: a document into its row, or out of it; a row with nothing in it
\* is deleted.
contribute(t, d, sign) ==
    LET at == <<t.cid, t.rollup, d.h>>
        n  == t.totals[at].count + sign
    IN  IF t.rollup = Absent THEN t
        ELSE [t EXCEPT !.totals[at] =
                 IF n <= 0 THEN [count |-> 0, sum |-> 0]
                 ELSE [count |-> n, sum |-> Add(@.sum, sign * d.g)]]

-----------------------------------------------------------------------------
(* Operations on the tree.  Each gives the tree it leaves, whether it      *)
(* returned an error, and how many documents it changed.                   *)

Ok(t, n) == [tree |-> t, ok |-> TRUE, changed |-> n]
Failed(t) == [tree |-> t, ok |-> FALSE, changed |-> 0]

\* Mutant of write: the entries of the document that is replaced stay.
writeKeepsEntries(t, k, d) ==
    LET before == t.docs[k]
        t1 == IF before # NoDoc THEN contribute(t, before, -1) ELSE t
        t2 == contribute(t1, d, 1)
    IN  IF t.cid = 0 \/ ~Indexable(t, d) \/ Clashes(t, k, d) THEN Failed(t)
        ELSE IF ~Summable(t, d) THEN Failed(t1)
        ELSE Ok([t2 EXCEPT !.docs[k] = d, !.entries = @ \cup entriesFor(t, k, d)], 1)

\* Collection.write.  What the index cannot describe is refused whole; what
\* the rollup cannot add is found after the old entries are gone and the old
\* document has been taken out of its totals.
write(t, k, d) ==
    LET before   == t.docs[k]
        replaced == before # NoDoc
        t1 == IF replaced
              THEN contribute([t EXCEPT !.entries = @ \ entriesFor(t, k, before)], before, -1)
              ELSE t
        t2 == contribute(t1, d, 1)
    IN  IF \/ t.cid = 0
           \/ ~Indexable(t, d) \/ Clashes(t, k, d)
           \/ replaced /\ ~Indexable(t, before)
        THEN Failed(t)
        ELSE IF ~Summable(t, d) THEN Failed(t1)
        ELSE Ok([t2 EXCEPT !.docs[k] = d, !.entries = @ \cup entriesFor(t, k, d)], 1)

\* Mutant of remove: the document stays in its totals.
removeKeepsTotals(t, k) ==
    LET d == t.docs[k]
    IN  IF t.cid = 0 \/ (d # NoDoc /\ ~Indexable(t, d)) THEN Failed(t)
        ELSE IF d = NoDoc THEN Ok(t, 0)
        ELSE Ok([t EXCEPT !.entries = @ \ entriesFor(t, k, d), !.docs[k] = NoDoc], 1)

\* Collection.remove.
remove(t, k) ==
    LET d == t.docs[k]
    IN  IF t.cid = 0 THEN Failed(t)
        ELSE IF d = NoDoc THEN Ok(t, 0)
        ELSE IF ~Indexable(t, d) THEN Failed(t)
        ELSE Ok([contribute([t EXCEPT !.entries = @ \ entriesFor(t, k, d)], d, -1)
                    EXCEPT !.docs[k] = NoDoc], 1)

insert(t, k, d) == IF t.docs[k] # NoDoc THEN Failed(t) ELSE write(t, k, d)

\* An update: some of the fields are set, and the result is written under the
\* key it now carries.  Not finding the document is an error in a batch only.
update(t, k, to, new, batch) ==
    IF t.docs[k] = NoDoc THEN (IF batch \/ t.cid = 0 THEN Failed(t) ELSE Ok(t, 0))
    ELSE write(t, to, new)

\* The keys of ks are removed one after another, in their order, up to the
\* first that fails.
RemoveAll(t, ks) ==
    LET upTo[n \in 0..MaxKey] ==
            IF n = 0 THEN Ok(t, 0)
            ELSE LET was == upTo[n - 1]
                     one == remove(was.tree, n)
                 IN  IF n \in ks /\ was.ok THEN [one EXCEPT !.changed = @ + was.changed]
                     ELSE was
    IN  upTo[MaxKey]

\* walkKeys: the keys after a cursor.
RangeAfter(t, from) == {k \in Stored(t) : k > from}

\* Mutant of Removing: the limit is checked after the key is taken.
RemovingOnePast(t, from, limit) ==
    {k \in RangeAfter(t, from) : Cardinality({m \in RangeAfter(t, from) : m < k}) <= limit}

\* runDeleteRange: the first keys of the walk, up to the limit, are collected
\* before any of them is removed.
Removing(t, from, limit) ==
    {k \in RangeAfter(t, from) : Cardinality({m \in RangeAfter(t, from) : m < k}) < limit}

deleteRange(t, from, limit) ==
    IF t.cid = 0 THEN Failed(t) ELSE RemoveAll(t, Removing(t, from, limit))

\* What it answers: the last key removed and whether more remain.
PageOf(t, from, limit) ==
    LET ks == Removing(t, from, limit)
    IN  [from |-> from, limit |-> limit,
         key  |-> IF ks = {} THEN 0 ELSE Max(ks),
         more |-> Cardinality(RangeAfter(t, from)) > limit]

-----------------------------------------------------------------------------
(* Reads: a walk of the index or of the documents, with a limit and a      *)
(* budget.                                                                 *)

\* Mutant of Position: an exclusive upper bound lets its own value in.
PositionInclusive(bound, upper) ==
    2 * bound.value + (IF upper \/ bound.exclusive THEN 1 ELSE 0)

\* boundAt: a bound is a position between keys.  Positions here are twice the
\* value; an inclusive upper bound, and an exclusive lower one, end after
\* everything that extends the value.
Position(bound, upper) ==
    2 * bound.value + (IF upper # bound.exclusive THEN 1 ELSE 0)

\* stretch: From is the low end and To the high end in both directions, and a
\* stretch written backwards is refused.
Backwards(from, to) == Position(from, FALSE) > Position(to, TRUE)

Within(from, to, v) == Position(from, FALSE) <= 2 * v /\ 2 * v < Position(to, TRUE)

Before(a, b) == a[1] < b[1] \/ (a[1] = b[1] /\ a[2] < b[2])

InOrder(rows, reverse) ==
    LET along == SetToSortSeq(rows, Before) IN IF reverse THEN Reverse(along) ELSE along

\* Scan over walk: the entries of the stretch.
walk(t, from, to) ==
    {<<e[3], e[4]>> : e \in {e \in t.entries :
         e[1] = t.cid /\ e[2] = t.index /\ Within(from, to, e[3])}}

\* run: a row for each entry whose document is there, in index order or
\* reversed, up to the limit or the budget.  An entry without a document ends
\* the walk.
run(t, from, to, reverse, limit) ==
    LET found == walk(t, from, to)
        all   == InOrder(found, reverse)
        gone  == {row \in found : t.docs[row[2]] = NoDoc}
        met   == {row \in found \ gone :
                     \A end \in gone : IF reverse THEN Before(end, row) ELSE Before(row, end)}
        n     == IF gone = {} THEN Len(all) ELSE Cardinality(met)
    IN  IF n > Room /\ limit > Room
        THEN [rows |-> <<>>, truncated |-> FALSE, refused |-> TRUE]
        ELSE [rows |-> SubSeq(all, 1, IF n > limit THEN limit ELSE n),
              truncated |-> n > limit, refused |-> FALSE]

\* hashRange: every document in key order, or nothing.
hashRange(t, limit) ==
    IF Cardinality(Stored(t)) > limit \/ \E k \in Stored(t) : t.docs[k].g = Odd
    THEN [refused |-> TRUE, digest |-> <<>>]
    ELSE [refused |-> FALSE, digest |-> [k \in Stored(t) |-> t.docs[k].g]]

-----------------------------------------------------------------------------
(* Declarations.                                                           *)

\* deleteRange over the prefix of an index, of a rollup or of a collection.
WithoutEntries(t) ==
    [t EXCEPT !.entries = {e \in @ : e[1] # t.cid \/ e[2] # t.index},
              !.index = Absent, !.unique = FALSE]

WithoutTotals(t) ==
    [t EXCEPT !.totals = [r \in DOMAIN @ |->
                             IF r[1] = t.cid /\ r[2] = t.rollup
                             THEN [count |-> 0, sum |-> 0] ELSE @[r]],
              !.rollup = Absent]

\* buildRollup: through contribute, document by document.
BuildTotals(t) ==
    LET upTo[n \in 0..MaxKey] ==
            IF n = 0 THEN t
            ELSE IF n \in Stored(t) THEN contribute(upTo[n - 1], t.docs[n], 1)
            ELSE upTo[n - 1]
    IN  upTo[MaxKey]

WithRollup(t) ==
    LET new == [t EXCEPT !.rollup = t.nextRollup, !.nextRollup = @ + 1]
    IN  IF \A k \in Stored(t) : Summable(new, t.docs[k])
        THEN Ok(BuildTotals(new), 1)
        ELSE Failed(t)

\* buildIndexIn: the walk ends, without an error, at the first document the
\* index cannot describe; only a clash in a unique index is an error.
Described(t) == {k \in Stored(t) : \A m \in Stored(t) : m <= k => Indexable(t, t.docs[m])}

\* Mutant of WithIndex: a unique index is built without looking for clashes.
WithIndexUnchecked(t, unique) ==
    LET new  == [t EXCEPT !.index = t.nextIndex, !.nextIndex = @ + 1, !.unique = unique]
    IN  Ok([new EXCEPT !.entries = @ \cup UNION {entriesFor(new, k, t.docs[k]) : k \in Described(new)}], 1)

WithIndex(t, unique) ==
    LET new  == [t EXCEPT !.index = t.nextIndex, !.nextIndex = @ + 1, !.unique = unique]
        made == UNION {entriesFor(new, k, t.docs[k]) : k \in Described(new)}
    IN  IF unique /\ \E a, b \in made : a[3] = b[3] /\ a[4] # b[4]
        THEN Failed(t)
        ELSE Ok([new EXCEPT !.entries = @ \cup made], 1)

\* Declare of a name that is not there: takeCollectionID, and nothing to build.
Created(t, wantIndex, unique, wantRollup) ==
    Ok([t EXCEPT !.cid = t.next, !.next = @ + 1,
                 !.index = IF wantIndex THEN 0 ELSE Absent,
                 !.unique = wantIndex /\ unique,
                 !.nextIndex = IF wantIndex THEN 1 ELSE 0,
                 !.rollup = IF wantRollup THEN 0 ELSE Absent,
                 !.nextRollup = IF wantRollup THEN 1 ELSE 0], 1)

\* Declare of one that is, and install: the rollup first, then what goes of
\* the index, then what is new; an index of another shape is refused.
Redeclared(t, wantIndex, unique, wantRollup) ==
    LET r == IF wantRollup /\ t.rollup = Absent THEN WithRollup(t)
             ELSE IF ~wantRollup /\ t.rollup # Absent THEN Ok(WithoutTotals(t), 1)
             ELSE Ok(t, 1)
    IN  IF ~r.ok \/ (wantIndex /\ t.index # Absent /\ t.unique # unique) THEN Failed(r.tree)
        ELSE IF wantIndex /\ t.index = Absent THEN WithIndex(r.tree, unique)
        ELSE IF ~wantIndex /\ t.index # Absent THEN Ok(WithoutEntries(r.tree), 1)
        ELSE r

declare(t, wantIndex, unique, wantRollup) ==
    IF t.cid = 0 THEN Created(t, wantIndex, unique, wantRollup)
    ELSE Redeclared(t, wantIndex, unique, wantRollup)

\* drop: the entries, the documents and the declaration.  The totals stay,
\* under a number that no collection is given again.
drop(t) ==
    [WithoutEntries(t) EXCEPT !.docs = [k \in Keys |-> NoDoc],
                              !.cid = 0, !.rollup = Absent,
                              !.nextIndex = 0, !.nextRollup = 0]

-----------------------------------------------------------------------------
(* Transactions.                                                           *)

Idle == steps = Absent /\ (half => CarryOn)

\* Store.Commit, which may fail and then leaves everything where it is.  It
\* does not fail twice running: a bound on how much is left uncommitted.
Commits(t) ==
    /\ work' = t
    /\ \/ disk' = t /\ dirty' = FALSE
       \/ disk = work /\ disk' = disk /\ dirty' = TRUE
    /\ half' = FALSE

\* perform: an operation is a transaction of its own.  One that fails is not
\* rolled back, whatever it had already written.
perform(outcome) ==
    /\ Idle
    /\ IF outcome.ok /\ outcome.changed > 0 THEN Commits(outcome.tree)
       ELSE /\ work' = outcome.tree
            /\ dirty' = (dirty \/ outcome.tree # work)
            /\ half' = (half \/ outcome.tree # work)
            /\ UNCHANGED disk
    /\ UNCHANGED steps

Abandon == work' = disk /\ dirty' = FALSE /\ half' = FALSE

\* runStep within runBatch: a step that fails abandons the transaction.
step(outcome) ==
    /\ steps \in 0..MaxSteps - 1
    /\ IF outcome.ok
       THEN /\ work' = outcome.tree
            /\ dirty' = (dirty \/ outcome.changed > 0)
            /\ steps' = steps + 1
            /\ UNCHANGED half
       ELSE Abandon /\ steps' = Absent
    /\ UNCHANGED disk

\* Documents callers write: without Mixed, an element of the wrong type only
\* where an index refuses it.
Sent == {d \in Inputs : Mixed \/ work.index # Absent \/ Odd \notin d.f}

\* What exists and require ask of the document a step names.
Condition(k, exists) == exists = "any" \/ (exists = "there") = (work.docs[k] # NoDoc)

Run(outcome) == (perform(outcome) \/ step(outcome)) /\ page' = NoPage

Put(k, d) == Run(write(work, k, d))

Insert(k, d) == Run(insert(work, k, d))

Delete(k) == Run(remove(work, k))

Update(k, to, d) ==
    LET was == work.docs[k]
    IN  \/ Run(update(work, k, to, [was EXCEPT !.f = d.f], steps # Absent))
        \/ Run(update(work, k, to, [was EXCEPT !.h = d.h, !.g = d.g], steps # Absent))

\* A get, or any step whose conditions do not hold.
Check(k, exists) ==
    /\ step(IF Condition(k, exists) THEN Ok(work, 0) ELSE Failed(work))
    /\ page' = NoPage

DeleteRange(from, limit) ==
    LET outcome == deleteRange(work, from, limit)
    IN  /\ perform(outcome) \/ step(outcome)
        /\ page' = IF outcome.ok THEN PageOf(work, from, limit) ELSE NoPage

\* runBatch refuses to start on top of uncommitted work.
BatchBegins ==
    /\ Idle /\ ~dirty
    /\ steps' = 0
    /\ page' = NoPage
    /\ UNCHANGED <<work, disk, dirty, half>>

BatchEnds ==
    /\ steps # Absent
    /\ steps' = Absent
    /\ IF dirty THEN Commits(work) ELSE UNCHANGED <<work, disk, dirty, half>>
    /\ page' = NoPage

\* establish: a declaration that fails is rolled back, one that does not is
\* committed.
Declare(wantIndex, unique, wantRollup) ==
    LET outcome == declare(work, wantIndex, unique, wantRollup)
    IN  /\ Idle
        /\ work.cid = 0 => work.next <= MaxCollection
        /\ wantIndex /\ work.index = Absent => work.nextIndex <= MaxId
        /\ wantRollup /\ work.rollup = Absent => work.nextRollup <= MaxId
        /\ IF outcome.ok THEN Commits(outcome.tree) ELSE Abandon /\ UNCHANGED disk
        /\ page' = NoPage
        /\ UNCHANGED steps

Drop ==
    /\ Idle
    /\ work.cid # 0
    /\ Commits(drop(work))
    /\ page' = NoPage
    /\ UNCHANGED steps

\* Rollback by whoever embeds the store, or a process that ends.
Restart ==
    /\ Abandon
    /\ steps' = Absent
    /\ page' = NoPage
    /\ UNCHANGED disk

Next ==
    \/ \E k \in Keys :
          \/ \E d \in Sent : \/ Put(k, d)
                             \/ Insert(k, d)
                             \/ \E to \in Keys : Update(k, to, d)
          \/ Delete(k)
          \/ \E exists \in {"any", "there", "missing"} : Check(k, exists)
    \/ \E from \in Keys \cup {0}, limit \in Limits : DeleteRange(from, limit)
    \/ BatchBegins
    \/ BatchEnds
    \/ \E i, u, r \in BOOLEAN : Declare(i, u, r)
    \/ Drop
    \/ Restart

Spec == Init /\ [][Next]_vars

-----------------------------------------------------------------------------
\* Catalogue, documents, entries and totals are of their types, the numbers of
\* indexes, rollups and collections within their bounds, and no total counts
\* more documents than there are keys (Store.tree).
TypeOK ==
    /\ \A t \in {work, disk} :
          /\ t.cid \in 0..MaxCollection /\ t.next \in 1..MaxCollection + 1
          /\ t.index \in Ids /\ t.rollup \in Ids
          /\ t.nextIndex \in 0..MaxId + 1 /\ t.nextRollup \in 0..MaxId + 1
          /\ t.docs \in [Keys -> Docs \cup {NoDoc}]
          /\ \A r \in DOMAIN t.totals : t.totals[r].count \in 0..Cardinality(Keys)
          /\ t.entries \subseteq (1..MaxCollection) \X (0..MaxId) \X (UNION Elements) \X Keys
    /\ dirty \in BOOLEAN /\ half \in BOOLEAN
    /\ steps \in Absent..MaxSteps

\* Every committed index holds exactly the entries of the documents that are
\* stored, and nothing of an index or a collection that is gone: after any
\* puts, updates, deletes, declarations, drops, failed batches and crashes.
EntriesFollow ==
    disk.entries = UNION {entriesFor(disk, k, disk.docs[k]) : k \in Stored(disk)}

\* No two stored documents share a value under a unique index.
UniqueHolds ==
    disk.unique =>
        \A k, m \in Stored(disk) : k # m => disk.docs[k].f \cap disk.docs[m].f = {}

\* An index holds every stored document that it can describe: indexes "can be
\* added, and are built over the documents already there" (Declare).
IndexIsWhole ==
    disk.index # Absent =>
        \A k \in Stored(disk) :
            Odd \notin disk.docs[k].f => entriesFor(disk, k, disk.docs[k]) \subseteq disk.entries

\* The sum of the values of v over all keys.
Sum(v) ==
    LET upTo[n \in 0..MaxKey] == IF n = 0 THEN 0 ELSE upTo[n - 1] + v[n]
    IN  upTo[MaxKey]

SumOf(t, ks) == Sum([k \in Keys |-> IF k \in ks THEN t.docs[k].g ELSE 0])

\* No sum of as many values as there are keys is larger than a float64 holds
\* exactly: what "cannot disagree" below is worth depends on it.
SumsFit == \A v \in [Keys -> {d.g : d \in Inputs} \cup {0}] : Sum(v) \in -Exact..Exact

\* The committed totals are the count and the sum of the stored documents, by
\* group: "the total cannot disagree with the data - not after a crash, not
\* after a rollback, not after a retry" (rollup.go).
TotalsFollow ==
    disk.rollup # Absent =>
        \A h \in Groups :
            LET ks == {k \in Stored(disk) : disk.docs[k].h = h}
                row == disk.totals[<<disk.cid, disk.rollup, h>>]
            IN  row.count = Cardinality(ks) /\ row.sum = SumOf(disk, ks)

Bounds == [value : (UNION Elements) \ {Odd}, exclusive : BOOLEAN]

\* What a scan promises of a stretch of the index: the values and keys of the
\* stored documents.
Expected(t, from, to) ==
    {row \in (UNION Elements) \X Stored(t) :
        /\ row[1] \in t.docs[row[2]].f
        /\ IF from.exclusive THEN row[1] > from.value ELSE row[1] >= from.value
        /\ IF to.exclusive THEN row[1] < to.value ELSE row[1] <= to.value}

\* No transaction in progress: what the next reader sees.
Settled == steps = Absent /\ ~half

\* No answer is silently short: a scan gives the first rows of its stretch in
\* the direction asked for, and says truncated exactly when there are more; it
\* is refused only when its rows are more than the budget; a stretch that is
\* refused as backwards holds nothing; a digest that is not refused is of every
\* document.
AnswersAreWhole ==
    Settled =>
    /\ work.index # Absent =>
          \A from, to \in Bounds, reverse \in BOOLEAN, limit \in Limits :
             LET want == InOrder(Expected(work, from, to), reverse)
                 got  == run(work, from, to, reverse, limit)
             IN  /\ Backwards(from, to) => Expected(work, from, to) = {}
                 /\ got.refused => Len(want) > Room
                 /\ got.refused \/
                    /\ got.rows = SubSeq(want, 1, IF Len(want) > limit THEN limit ELSE Len(want))
                    /\ got.truncated = (Len(want) > limit)
    /\ \A limit \in Limits :
          hashRange(work, limit).refused \/
              DOMAIN hashRange(work, limit).digest = Stored(work)

\* A deleteRange takes exactly the documents between its cursor and the key it
\* answers, no more than its limit, and says whether any are left after it: a
\* caller that pages on from there misses nothing.
PagesCover ==
    [][page' # NoPage =>
         LET gone == Stored(work) \ Stored(work)'
         IN  /\ Cardinality(gone) <= page'.limit
             /\ \A k \in gone : page'.from < k /\ k <= page'.key
             /\ \A k \in Stored(work)' : k > page'.from => (page'.more /\ k > page'.key)
             /\ \A k \in Stored(work)' : work.docs[k] = work'.docs[k]]_vars

=============================================================================
