# A verification of sapedb

sapedb is a database server whose only way in is a set of declared operations.
This directory holds TLA+ models of its core, the TLC configurations that
check them, and TLAPS proofs about them. Paths below are relative to the
repository's `src/`; the exact lines each definition models are in
`PROJECT.json` under `map`.

## 1. The system

| Part | Keeps | Does | Talks to |
| --- | --- | --- | --- |
| `internal/vfs` | a file; in tests a simulated disk with unsynced writes | read, write, sync, lock, crash | the pager |
| `internal/pager` (`pager.go`, `freelist.go`) | two meta pages, data pages, the free list (ready, pending, freeing, chain), held snapshots | create, open, allocate, free, commit, rollback, close, snapshot, release | called by the tree; writes the file |
| `internal/pager/led.go`, `internal/store/parts.go`, `partition.go` | partition files whose state is a row of the leading file | create, open, flush, abandon, drop | one commit over several files |
| `internal/btree` | a root | get, put, delete, ascend, descend, by copying every page it changes | allocates and frees pages |
| `internal/store`: collections, indexes, rollups | documents, index entries, totals, the catalogue | put, get, delete, scan, declare, drop | writes the tree, records in the log |
| `internal/store/log.go` | numbered entries, the counter, remembered write ids | record, trim, changes, can-follow, apply | inside every write; read by feeds |
| `internal/store`: operations | declared operations, versions, limits | invoke, batch, compose, explore | runs collections, commits or rolls back |
| `internal/server` | open databases, each with a lock and a wakeup channel; sessions and grants | handshake, invoke, declare, explore, subscribe, close | one goroutine per connection and per subscription |
| `internal/follow`, `server/follower.go` | nothing but the copy itself | connect, resume, apply, retry, give up | a feed of another server |
| `internal/keys`, `number`, `ulid` | (ulid: last stamp and seed) | order-preserving encoding, exact numbers, ascending ids | used by the store |
| `internal/bundle`, `signing`, `connection`, `naming`, `dbname`, `dbkey` | trusted publishers | verify, parse, derive | used by the server and the command line |
| `internal/protocol`, `wire`, `service`, `cli` | connections, configuration | framing, requests, reload, prompts | the outside |

What is hard about it:

* **Crashes.** A commit is several writes and two syncs, with no recovery pass:
  whatever part of the unsynced writes survives, opening the file has to find
  one whole state. The free list decides when a page of an older state may be
  written over, so a mistake there only shows after a crash at the right moment.
* **Failing half way.** The quota, a full disk or a failing sync can end an
  operation after it has freed pages, or a commit after it has written its meta
  page.
* **Interleaving.** Feeds read the log under a lock and wait on a channel
  outside it, while writers commit and the log is trimmed under them. The code
  says of the order of these steps "No test covers this"
  (`server/subscribe.go:126`).
* **Lost connections and retries.** A follower resumes from what it holds; a
  caller retries under a write id; both must come to the same as no fault at
  all.
* **Several files, one commit.** Partitions are files without meta pages; the
  leading file's commit is what makes them true, and files are unlinked after it.
* **Decided once, used for ever.** What an operation costs, reaches and asks for
  is decided when it is declared. Nothing is decided again when it runs, while
  collections, indexes and what it calls may be declared anew in between.
* **A lock let go and taken again.** `invoke` looks an operation up under the
  read lock and, to write, again under the write lock.

The hazards, each at its line and with the properties aimed at it, are listed
in `PROJECT.json`.

### What makes each part correct

* The file: a crash leaves the last reported commit or the one under way, whole;
  no page has two owners; no page in use, by the writer, by a snapshot, or by a
  state a crash could return to, is written over; no page is lost for good.
* Partition files: all files of a transaction change together, whatever crash.
* Collections: index entries, unique keys and totals are functions of the
  documents.
* The log: gapless numbers; a write id is answered as long as its entries are
  kept.
* Feeds and copies: a copy is a gapless first part of what it follows, catches
  up when it can, and is told when it cannot.
* Sessions: what runs is what was declared when the lock was taken; scopes come
  from signatures.

## 2. The modules

| Module | What it is |
| --- | --- |
| `Pager` | the commit protocol and free list of one file, over a disk that may lose unsynced writes; the refinement to `AtomicStore` |
| `PagerInv` | the inductive invariant of `Pager`, and what the promises need on top of it |
| `AtomicStore` | what a file promises: a versioned value that commits replace whole |
| `MCPager` | the specifications of the runs |
| `PagerProofs`, `PagerPromises` | theorems about `Pager`, checked by TLAPS: its inductive invariant and safety; the refinement, the clean mark, and that no page is lost |
| `Parts`, `MCParts` | the leading file and its partition files under one commit |
| `PartsProofs` | theorems about `Parts`, checked by TLAPS |
| `Collections`, `MCCollections` | a collection, its index and its rollup, and the operations and batches that change them |
| `CollectionsProofs`, `CollectionsTotals` | theorems about `Collections`, checked by TLAPS: entries, unique values, answers and pages; types and totals |
| `Operations`, `MCOperations` | declarations of operations: what is accepted, from whom, and what a call then costs, reaches and is allowed |
| `OperationsProofs` | theorems about `Operations`, checked by TLAPS |
| `Session`, `MCSession` | connections, what each has proved, and the lock of a database between calls, declarations, copying and `Close` |
| `SessionProofs` | theorems about `Session`, checked by TLAPS |
| `ChangeLog` | the log of one database: `record`, `trim`, `CanFollow`, `Wrote`, `Apply` as operators |
| `Replication` | servers, feeds, connections and followers over `ChangeLog`, their properties, and the refinement to `CopiedLog` |
| `CopiedLog` | what following promises: logs that only grow, each copy by the next entry of what it follows |
| `MCReplication` | instances for TLC, and the specification in which commits fail |
| `ReplicationProofs` | theorems about `Replication`, checked by TLAPS |

How they fit. Each layer takes from the one below what that one is shown to
promise. `Parts` takes from `Pager` that a transaction writes over nothing its
base uses; `Collections` takes from `Pager` and `Parts` that a commit is one step
and a rollback goes back to the last one; `Operations` counts documents and
leaves their contents to `Collections`; `Session` takes what an operation does as
its kind and leaves its rules to `Operations`; `Replication` takes a commit as
one step.

### Pager

State. `slot` and `now` are what a read of a meta page or data page returns;
`slotMaybe` and `maybe` are what a crash at this moment could leave there: the
last synced content, anything written since, and, for data pages, which are
larger than a sector, a torn page. A meta page fits in a sector and lands whole
(`vfs/sim.go`, `crossesSector`). `meta`, `nextMeta`, `committed`, `taken`,
`ready`, `pending`, `freeing`, `seen` and `chain` are the fields of `Pager` and
`freelist`. `twice` holds the pages the lists hold two entries for, because the
code's lists are slices and the model's are sets. `pc` says where a commit, a
create or a close has got to.

Data. A page is its kind and the transaction that wrote it; a tree is the set of
its pages with the transaction each was written in. Keys, values and the shape
of the tree are left out, and so every way a tree could change its pages is
allowed: `Copy`, `RewriteInPlace`, `Grow`, `Shrink` may come in any order. What
holds of the model therefore holds for every tree algorithm that copies pages
through `place` and frees what it drops.

Control. `Commit` is the steps `CommitList` (free the old chain, roll `freeing`,
promote, choose list pages, write them), `CommitSync`, `CommitMeta`,
`CommitDone`, with an error return at each. Which ready pages the list takes is
left open; how many it takes is the code's loop (`ListPages`). `Crash` may come
anywhere and picks any surviving part; `Kill` ends the process and keeps what
was written. `Close`, `CloseDone` include a crash between the mark and its sync,
and a write or a sync of `Close` that fails unseen.

Three specifications, each a part of the one before it:

* `Spec` is everything the engine and its callers do. Callers of an operation or
  a commit that failed roll it back, as `runBatch` and copying do, or carry on
  over what it left (`CarryOn`, `AfterError`), as `perform` does; a sync may fail
  and a process may die at any step.
* `CarefulSpec` makes four assumptions, none of which the code ensures: a failed
  operation is rolled back before anything else happens (`perform`,
  `store/invoke.go:73`, does not do this); no snapshot is held across a rollback
  (no server code takes snapshots today); the second sync of a commit does not
  fail; and a process does not die between the meta page and that sync with the
  machine surviving. A commit that failed before its meta page may still be carried on from.
  Sections 4 and 5 show what becomes of the properties without each of the four.
* `OrderlySpec` is `CarefulSpec` for callers that also roll back a failed commit
  and close only while the page count is the one the last commit left.

### Parts

`rows` is the partition rows of the leading file's tree as the transaction has
them, `disk` as the last commit left them; `handle` is the open partitions in
memory (`Store.parts`), `dropped` the files waiting to be unlinked, `file` the
versions of each partition that can still be read in it. `into` is the way every
get, put and delete takes: it opens or makes the partition of the key and expires
the oldest. `Commit` is steps: flush the partitions that changed, write their
rows, commit the leading file, unlink; each may fail, and a crash may come
between any two. `Abandoned` is what `Rollback` makes of each open partition.
Pages are abstracted to versions but for page 1, the first data page of a led
file and a number `readFreelist` refuses (`freelist.go:263`); it is in use from the first
commit of a partition on, and so is free only where a later one freed it (`Write`).
`LateKeys` says
whether callers name keys older than what is kept, `CarryOn` whether they go on
after a commit that failed.

### Collections

The tree is one value, `work` as the transaction sees it and `disk` as the last
commit left it: the documents, the index entries, the totals, and the catalogue's
numbers. `write` and `remove` are `Collection.write` and `Delete` with
`entriesFor`, `contribute` and their error returns at the places they have in the
code, so a failure leaves what it leaves there (`half`). `Put`, `Insert`,
`Update`, `Delete`, `DeleteRange`, `Check` run on their own or as steps of a
batch; `Declare` builds what is new over the documents there and clears what is
gone. A document is what its index and its rollup read of it; the index spreads
over an array field. Walks and their answers are operators (`walk`, `PageOf`) that
the properties compare with a definition over the documents. Keys are the numbers
up to `MaxKey` in key order, so what the code does key by key (`RemoveAll`,
`BuildTotals`) is a recursive function of a number.

### Operations

`ops` is every declaration in the order it was made, `collections` what is
declared now, `claims` who holds each namespace, `answer` what the latest call
was answered; `shareable` is what `SharedRead` says of each declaration.
`DeclareOperation` carries every rule of `ops.go` and `compose.go` that refuses a
declaration; `DeclareCollection` and `Redeclare` change what stands under it;
`Explore` is a typed access, `Invoke` a call. `Ceilings`, `keyTypeOf`, `shareable`
and `Envelopes` are the recursive walks of `compose.go` and `envelope.go` over what
an operation calls, written as functions over positions in `ops`; `Rows` and
`Changed` are what running the steps gives back, walked the same way. Each walk
looks at the steps of an operation only when it is a batch (`Composing`), and a
ceiling is a sum taken step by step in an int of `IntMax` (`Summed`, `Total`).

### Session

`live` is the session of each connection, `call` where its call is: `look` (in
line for the read lock), `read`, `wait` (in line for the write lock), `drain`
(next, waiting for the readers that are inside), `write`. `closer` is the
database `Close` is at. `Look` is the first lookup, `Enter` the second. The handshake
of a bound connection is `Bind`, which opens the database, a wait for its write lock
like anybody else's, and `Welcome`. `Apply` is the copying loop of a follower, which
opens the database if need be and takes the same lock. Replacing the tree of
a database, which any writer and any rollback does, marks the calls reading it as
`torn`. A signature, a proof or a grant is one that verifies or one that does not.

### ChangeLog and Replication

A database is its counter, the kept entries, what each write id leads to, and
its documents, abstracted to the sequence of entries that made them: two
databases agree on documents when the same entries were applied in the same
order. An entry is the operation it is part of and that operation's write id.

`invoke` is the write path of a call under the database's write lock, `perform`
included: answered from its write id, or recorded (one entry per document
changed), committed, and notified. A feed goes round `waiting` (takes the
channel), `drain` (reads under the lock), `send` (outside it), `Wake`. A copy
goes round `Subscribe` (resumes from what it holds), `NextChange`, and comes
back after `HangUp`, `Drop`, `ApplyFails` or a crash; it is `stopped` when told
it is too far behind. Copies follow copies: the instances use a chain of two.
Entries already sent may still arrive after the sender has died.

A commit is one step here. `Pager` shows when that is justified, and
`invokeCommitFails`, outside `Next`, is the case where it fails: `perform` keeps and
streams what it could not commit, so everything said of copies is said of a leader
whose commits succeed (section 5).

## 3. What the passing runs show

| Run | Instance | Shows |
| --- | --- | --- |
| `pager` | `CarefulSpec`: 3 data pages, 1 entry per list page, transactions up to 3, 1 snapshot | `TypeOK`, `NothingAckedIsLost`, `OneOwner`, `SnapshotsHold`, `CleanMark`, `CrashSafe`, `OrderlyAccounts`, `Refines` (AtomicStore) |
| `parts` | 3 partitions of which 2 are kept, 4 writes, failing flushes, commits and unlinks, crashes | `TypeOK`, `Intact`, `OneTransaction`, `ExpiresTheOldest` |
| `store` | 2 keys, 4 documents of which one the index and one the rollup refuses, batches of 2 steps, limits 1, 2 and 3, a budget of 2 rows | `TypeOK`, `EntriesFollow`, `UniqueHolds`, `TotalsFollow`, `AnswersAreWhole`, `PagesCover` |
| `operations` | 2 collections in five shapes, 4 names of which two share a namespace, 3 declarations | `Pinned`, `RowsWithinLimit`, `ScopesHold`, `SharesExactly`, `EnvelopeHolds`, `OneHolder`, `CostIsFixed` |
| `session` | 2 connections, 1 database, 2 versions, leader and follower | `TypeOK`, `WritersDisturbNobody`, `RunsWhatItMay`, `PinnedNeverWrites`, `ClosedStaysClosed`, `CallsAreAnswered`, `CloseReturns` |
| `replication` | a chain of two copies, 4 entries, 2 kept, operations of 1 or 2 entries, batches of 2, 2 faults | `TypeOK`, `CopiesFollow`, `NoGaps`, `RetriesAreAnswered`, `WrittenOnce`, `StopsOnlyWhenBehind`, `Refines` (CopiedLog), `CatchesUp` |

Bounds.

* *Pager.* A created file is at transaction 1, and work goes on after the last
  commit: up to transaction 3 a page can be written in one, freed in the next,
  wait there for a snapshot of the one before (`pending`), be promoted once the
  snapshot is released, and be taken and written over, with a crash at any point.
  Three data pages make the quota refuse operations and lists, which is when pages
  are reused; with one entry per list page a list needs up to two pages, so its
  settling loop goes round.
  `WorstCrash` keeps crashes to those where every unsynced page comes back torn:
  a page that comes back whole is no worse for any property here, since they all
  ask that the page be durable; the proofs do without this bound.
  `VIEW InView` counts two states as one when they differ only in what is on a page
  that no meta page, snapshot, transaction or list chain leads to, or, on a page
  something does lead to, in which old contents a crash could bring back: no step
  reads the former before writing it, and the worst crash tears the page
  whatever the latter are.
* *Pager, in the violation runs.* Two entries per list page, no snapshots, and only
  the steps the case needs beside commits, rollbacks and crashes.
* *Parts.* Three names with two kept make the third write of a new period expire
  the first; four writes let each file be written, flushed, and written again
  after a failure.
* *Collections.* Two keys and two good documents that share an indexed value are
  enough for a unique clash, an update that moves a document to another key, a
  limit that cuts a walk and a page of a range that ends in the middle; a limit of
  three is over the budget, so a walk that reaches two entries with more to come is refused
  rather than cut. An index
  or rollup may be declared once per collection (`MaxId = 0`) and the collection
  dropped and declared again, so numbers are not reused while old rows remain.
  A page matters only in the step that answers it, so the run explores states that
  differ in the last page alone once (`WithoutPage`); TLC checks `PagesCover` on
  every step all the same. The proofs do without these bounds.
* *Operations.* Three declarations are a callee, a caller and either a caller of
  that caller or a second version of the callee.
* *Session.* Two connections are a reader and a writer, two writers, or a reader
  and a failing batch, with `Close` as the third party at the lock; the second
  version is what is declared between two lookups. The proofs do without these
  bounds.
* *Replication.* Four entries with two kept let the trim overtake a feed that is
  connected, one that is reconnecting, and the feed of the second copy, and let it
  part an operation of two entries under one write id; two faults allow a crash
  during the recovery from another fault.

Deadlock is not checked where a bounded number of commits, writes or declarations
ends in a system at rest (pager_carry_on, operations, session, replication).

Fairness.

* `replication`: each feed's goroutine, each follower's loop, and the
  restart of a server are weakly fair. The first is the Go scheduler; the second
  is `follow.Run`, which goes round for ever with a pause of `Retry`; the third
  is the operator's supervisor, without which nothing promises that a dead server
  comes back. Writers, faults and crashes are not fair. `CatchesUp` is what the
  order of `waiting` and `drain` is for: taking the channel after reading the log
  breaks it.
* `session`: a call inside the lock, or next for it, is weakly fair, which is the
  Go scheduler and the fact that no handler waits for its caller while it holds
  the lock. A call in line is strongly fair, because others may hold the lock in
  between and `sync.RWMutex` serves waiting writers in turn and lets waiting
  readers in when a writer leaves. The same holds of `Close`, once it has begun.
  Asking is not fair, and calls may come for ever.

Every property of a passing run has a mutant in `PROJECT.json`: a plausible bug
in one mapped definition under which TLC finds the property violated.

## 4. What the violation runs show

Each states what the repository says of itself and finds the code doing
something else; the sentences quoted are in `PROJECT.json` under `findings`.

* `pager_unsynced` (`CrashSafe`): after a failed second sync, or a process death
  just before it, the new meta page is used and not durable; a power cut later
  returns to a state whose pages have been reused.
* `pager_carry_on` (`ListedPagesAreNotLive`, `CarryOnSpec`): an operation is refused
  a page after `place` has freed the one it replaces. `perform` returns the error
  and rolls nothing back, and the next operation commits a free list with a page of
  the tree on it. `OneOwner` of the `pager` run, and `OwnershipSafety`, are for
  callers that roll back.
* `parts_page_one` (`RecordedOpens`): a partition that frees page 1 and commits
  cannot be opened again.
* `store_half_way` (`TotalsFollow`): a put whose sum field is not a number fails
  after the old document has left its total, is not rolled back, and the next
  operation commits what it left.
* `session_shared_rollback` (`ReadersUndisturbed`): a batch that only reads is
  run under the read lock, and its ordinary failure rolls the store back under
  other readers. What such a reader then sees is not modelled; that writers never
  do this is `WritersDisturbNobody`.
* `replication_forgets` (`KeptWritesAreRemembered`): an operation of two entries
  puts its write id on both. The trim that takes the first forgets the id, the log
  still shows the second, and a retry is carried out again. What does hold, and is
  proved, is that an id leads to the last of its entries until the first of them ages
  out (`RetriesAreAnswered`), and that nothing is written twice before that
  (`WrittenOnce`).

## 5. Observations without a run

Each was met while modelling. The property is in the module named; adding it to
the configuration, with the constants given, shows it.

* A close during a transaction writes its page count, and the pages it counts
  belong to nothing (`Accounted` under `CarefulSpec`).
* A commit that is refused a page for its list returns without giving back the
  pages it took (`freelist.go:179`). A single operation does not roll back
  (`invoke.go:82`), and the next commit counts those pages and leaves them on no
  list: they are lost until the file is copied (`Accounted` under `CarefulSpec`
  with `Close` and `CommitSyncFails` left out, `MaxPages = 7`, `PerPage = 1`). A
  commit whose first sync failed, carried on from, loses its list pages the same way
  (`Accounted` under `CarefulSpec` with `Close` left out, on the instance of `pager`).
* Nothing clears the clean mark until the first commit, so a database opened and
  lost to a crash before it is reported as shut down properly (`store.go:574`).
* `Rollback` makes ready every page on the persisted list, whatever snapshots are
  held (`freelist.go:235`); no code under `src/` holds a snapshot there today.
* A get of a key in a period that is not there makes its partition and expires
  the oldest, with nothing written (`OnlyWritesExpire`, Parts, `Keep = 1`).
* A partition that was dropped without having been opened and is made again in
  the same transaction, by a key older than what is kept, is unlinked with its
  new contents (`Intact`, Parts, `LateKeys = TRUE`).
* Building an index stops without an error at the first document it cannot
  describe (`IndexIsWhole`, Collections, `Mixed = TRUE`; `collection.go:519`).
* The ceilings of a batch are summed in an int and may come round, which takes
  limits near 2^63 (`RowsWithinLimit`, Operations, `IntMax = 3` with
  `MCDraftsWide`).
* A composed update of a document that is not there leaves no key for the step
  that takes it (`KeysAreThere`, Operations, `MCDraftsKey`).
* An index dropped and declared again in another shape changes what an accepted
  walk of it does (`WalksAsDeclared`, Operations, `MCSpecsReplaced` with
  `MCDraftsWalk`).
* A call of a follower for the newest version is checked by `readOnly` at the
  first lookup only; a write version that arrives between the two lookups runs
  (`FollowerNeverWrites`, Session).
* The retry of a write whose commit failed is answered as done with nothing
  durable, and what the failed commit left is streamed to copies
  (`AckedIsDurable`, `NumbersAgree`, Replication, under `CommitFailsSpec` of
  MCReplication, with faults for a failed commit and a crash).

## 6. What is proved

`PagerProofs` proves, for every file size, list-page capacity, bound on
transactions and set of snapshot holders (the named `ASSUME`s of `Pager`), and
for crashes that keep any part of the unsynced writes as well as the worst ones:

* `TypeCorrect`: `Spec => []TypeOK`, whatever fails and whatever callers do;
* `Invariance`: `CarefulSpec => []IInv`;
* `CrashSafety`, `AckedSafety`, `OwnershipSafety`, `ReadSafety`,
  `SnapshotSafety`: `CrashSafe`, `NothingAckedIsLost`, `OneOwner`, `ReadsBack`,
  `SnapshotsHold` are invariants of `CarefulSpec`. None of the assumptions of
  `CarefulSpec` is enforced by the code (section 2). Without the rollback of failed
  operations `OneOwner` is false (`pager_carry_on`); without the sync or the process
  surviving to it `CrashSafe` is (`pager_unsynced`).

The argument. None of these properties is inductive. `CrashSafe` speaks of
every pair of meta pages a crash could leave, so the invariant first bounds the
doubt: except in the two moments between a meta page and its sync, all that the
slots can hold is the committed state or something older (`SlotsSettled`); in
those moments exactly one slot is in doubt and between two known values
(`SlotsInDoubt`, `OtherSlot`). Then the committed state has to stay intact
while the next one is written: none of its pages is in `ready` or `taken`, and
one that is waiting waits for a transaction not yet committed (`Protected`), so
`Allocate` cannot return it (`BaseSafe`). That is kept by promotion because
pages are freed under the transaction that freed them (`Freed`) and the lists
never overlap (`ListsApart`); and by reuse because the writer's tree is made of
pages of its own and pages of the committed tree only (`Working`). `Prepared`
and `Durable` carry what `CommitList` wrote through the two syncs to the moment
it becomes the committed state. `Snapshots` is `Protected` for each held
snapshot. There is one lemma per action and per group of conjuncts it can
disturb.

`PagerPromises` proves, from the same assumptions:

* `ToldAlways` (`Told`): while the file is open, what callers were told is the
  committed state;
* `RefinesAtomicStore` (`Refines`): `CarefulSpec` implements `AtomicStore`;
* `CleanMarkAlways` (`CleanMark`), of `CarefulSpec`;
* `AccountedAlways`: `OrderlySpec => []Accounted`. Of `CarefulSpec` it is false:
  section 5 has the two ways a page is lost. The `pager` run checks it on the
  behaviours of `OrderlySpec` among its own: `orderly` (MCPager) turns false
  at the first step outside, and `OrderlyAccounts` is `orderly => Accounted`.

The argument. The refinement maps what a crash may show (`MayShow`) to the
abstract durable values, so each step is judged by how it changes that set. By
`SlotsSettled` it is the committed state alone, and by `SlotsInDoubt` two states
while a meta page is not synced: `CommitMeta` adds the new state, `CommitDone`
leaves only it and reports it, `Crash` picks one, and everything else leaves the set
as it is. `Told` is what makes a rollback go back to the value last reported.
`CleanMark` needs `Marks`, which bounds every mark in a slot by the last close and
the last close by the committed state. `Accounted` needs `Owned`: a page of the file
is led to by the tree being worked on or by a list (`LedTo`), and a page that is
freed is not in use any more (`SeenApart`), so every operation moves pages between
owners and `CommitList` writes all of them down (`Covers`). It is the quota refusing
the list, or a failed first sync, that leaves pages taken and listed nowhere.

`SessionProofs` proves, for any sets of connections and databases, any versions
and any bound on their number (the named `ASSUME`s of `Session`):

* `TypeCorrect` (`TypeOK`) and `Invariance` (`IInv`);
* `ReadersKeepTheirTree` (`WritersDisturbNobody`): no writer takes the tree from
  a shared read;
* `RunsOnlyWhatItMay` (`RunsWhatItMay`), `FollowersPinned`
  (`PinnedNeverWrites`), `ClosedForGood` (`ClosedStaysClosed`).

The argument. `Locks` is the lock: one writer is in or next, `Close` counts as
one, and a writer that is in has no readers beside it. From it follows that a
writer replaces the tree of nobody who reads (`FinishInv`), and that the versions
of a database do not change while a call runs on it, so what the second lookup
gave is what a lookup gives until the call ends (`Current`). `RunsWhatItMay` needs
`Shown` as well: whatever a connection has verified, is bound to, or calls, it has
shown a signature for. `PinnedNeverWrites` needs a fact about calls that do not
run yet: one that names its version and has passed `readOnly` once stays passed,
because versions are only added (`Passed`, `Declares`). That a call for the newest
version has no such fact is the observation in section 5.

`PartsProofs` proves, for every finite set of partition names, every number of
partitions kept, with and without a key, and every bound on writes:

* `TypeCorrect` (`TypeOK`), whatever the callers do;
* `IntactAlways` (`Intact`), `OneTransactionAlways` (`OneTransaction`) and
  `ExpiresTheOldestAlways` (`ExpiresTheOldest`) for callers that are `Careful`:
  they name no key older than what is kept (`~LateKeys`) and stop at a commit that
  failed (`~CarryOn`). These are the two conditions of the `parts` run. Section 5
  says what a late key does to `Intact`; carrying on after a failed commit is what
  a single operation does (`invoke.go:82`) and a batch does not.

The argument. `Intact` speaks of the committed rows, but files are unlinked and
written because of what a transaction did in memory, so the invariant ties the
transaction to the commit it stands on. `RowsHold`: its rows differ from the
committed ones only where it dropped a partition or where a commit under way has
flushed one. `BasesHold` and `RootsHold`: an open partition writes on what its row
says and has a root of its own exactly when it was written to. `DropsHold`: a
dropped partition has no row and is outlived, by as many newer ones as are kept, so
no later step of the transaction can make it again and lose it to the unlink. This
last one needs a fact about expiry itself (`ExpiredIs`): what is expired from a set
is what has `Keep` newer members, and adding members never makes an outlived
one young. `FlushHolds` and `UnlinkHolds` carry all this through the steps of a
commit. Nothing is said of a transaction once something failed in it, since only a
rollback or a restart can follow.

`ReplicationProofs` proves, for every set of followers and every choice of whom
each follows (chains, trees, and even circles), every cap on the log, batch size
and bound, with faults and crashes at any point:

* `TypeCorrect` (`TypeOK`), `CopiesFollowAlways` (`CopiesFollow`), `NoGapsAlways`
  (`NoGaps`), `StopsOnlyWhenBehindAlways` (`StopsOnlyWhenBehind`);
* `RefinesCopiedLog` (`Refines`): the specification implements `CopiedLog`;
* `WrittenOnceAlways` (`WrittenOnce`): a second operation is carried out under a
  write id only after one of the entries the id was on has aged out, and so never
  when nothing is trimmed;
* `RetriesAreAnsweredAlways` (`RetriesAreAnswered`): an id leads to the last of its
  entries for as long as none of them has aged out.

The last two hold for operations of any number of entries and any cap on the log.
All are theorems of `Spec`, in which no commit of the leader fails (section 2).

The argument. `record` and `trim` are reduced first to one lemma each: a database
is determined by the sequence of its entries and what it remembers of write ids
(`Dbs`), and recording puts one entry after the sequence and forgets at most one id
(`NextDone`). Then `Link(f)` relates a follower to what it follows. What it holds
is a first part of what the other holds (`Begins`); message `i` on the wire is entry
`latest + i` of the other, or the last word "too far behind", which is sent only
when that entry is gone (`Continues`); the batch the feed is sending continues the
wire, and the cursor stands after both. Because logs are only added to at the end
and trimmed from the front, what was true when a message was sent is true when it
arrives, however long it takes. The refinement needs `Committed` (memory and disk
agree between steps) and, of each step, that at most one log grew. The write ids need
one more invariant, `Knows`: an id leads to its last entry unless one under it has
aged out (`Remembers`), and two operations under one id have an entry of it aged out
between them (`Spaced`).

`OperationsProofs` proves, for every set of drafts, callers, collections, specs and
accesses, and every number of declarations:

* `Invariance` (`IInv`) and `TypeCorrect` (`TypeOK`);
* `PinnedAlways`, `ScopesHoldAlways`, `SharesExactlyAlways`, `OneHolderAlways`: the
  invariants of those names;
* `CostIsFixedAlways` (`CostIsFixed`), an action property;
* `RowsWithinLimitAlways` (`RowsWithinLimit`) and `EnvelopeHoldsAlways`
  (`EnvelopeHolds`) when limits and numbers of steps are `Modest`, that is, no sum
  of ceilings passes `IntMax`: there is some `m` that no limit and no number of
  steps exceeds, and `m` times any number of steps fits in an int. Without it
  `RowsWithinLimit` is false (section 5). No limit of the code rules such drafts
  out, so the hypothesis is part of what is proved; the instance of the `operations`
  run satisfies it.

The argument. An operation calls only what was declared before it (`Structure`), so
what the code finds by walking calls is a function of positions that asks only for
earlier positions. That such a function exists (`Recursion`) and that it can be
reasoned about from below (`FromBelow`, from `LeastNatural`) is proved once, with
the sets involved in place of an operator parameter;
then each of the walks satisfies the equation it is defined by (`CeilingsHold`,
`SharesHold`, `EnvelopesHold`, `RowsHold`, `ChangedHold`). From these, position by
position: an operation shares exactly when all it reaches does, an envelope covers
all that is reached, scopes are included along every path, and rows and changes
are at most the ceiling. The last step compares two sums step by step, and a sum
that does not come round is at least each comparison. `Counted` is what makes a
version number new when it is handed out, and so what makes `Apart` hold: two
declarations never share a name and a version.

`CostIsFixed` follows from `ops` only growing: the walk over the longer list
satisfies on the shorter one the equation of the walk over that, so the two agree
from below.

`CollectionsProofs` and `CollectionsTotals` prove, for every number of keys, every set
of documents, limits and budget, and every bound on numbers and steps:

* `TypeOKAlways` (`TypeOK`) and `PagesCoverAlways` (`PagesCover`, an action
  property), whatever the callers do;
* `EntriesFollowAlways` (`EntriesFollow`), `UniqueHoldsAlways` (`UniqueHolds`) and
  `AnswersAreWholeAlways` (`AnswersAreWhole`) for callers that stop at an operation
  that failed half way (`~CarryOn`) and store nothing that an index declared later
  cannot describe (`~Mixed`);
* `TotalsFollowAlways` (`TotalsFollow`) for callers that stop at an operation that
  failed half way, when no sum of as many values as there are keys is larger than
  a float64 holds exactly (`SumsFit`). Documents that a later index cannot describe
  are allowed here.

Each hypothesis is needed, and none is something the code enforces. A single
operation that fails is not rolled back (`invoke.go:82`), and the run `store_half_way`
is what comes of carrying on. Section 5 has the index that is built over documents it
cannot describe. A rollup adds and subtracts in floating point (`rollup.go`), so a sum
out of range does not come back to what it was. The instance of the `store` run
satisfies all three (`ExactSums` in `MCCollections` is the third).

The argument. A tree the program can be in is `Sane`: of its types, its numbers in
order and no row under a number that has not been given out. Each operation is then shown to
be a few changes of a sane tree. `Without(t, k)` and `With(t, k, d)` say what a
document less and a document more are, and `remove` and `write` are made of these
(`RemoveIs`, `WriteIs`), a `write` that fails half way too: it leaves `Without`'s
entries and totals beside the old document. Declarations are an index or a rollup
less or more (`RedeclaredIs`). So a property of trees needs one lemma for each of
these changes. `Closed(G)` says that a set `G` of trees has them for operations that
succeed, and `KeptNext` takes any such `G` through transactions, abandoned batches,
failed commits and restarts, of `disk` always and of `work` unless something failed
half way. `ClosedAll(G)` and `BothInNext` do the same for sets that even failed
operations stay in. The sets are:

* `MatchedTrees`, where the entries are those of the documents, the values of a
  unique index are apart, and every stored document can be described. That last
  part is what makes it inductive: without it `remove` would refuse a document
  and an index would be built short. `EntriesFollow` and `UniqueHolds` are parts of it;
  `AnswersAreWhole` follows because a walk over such entries finds what `Expected`
  says (`WalkIs`), no entry lacks its document, and both are put in the same order.
* `TalliedTrees`, where each row of the rollup is what its group comes to. One
  document in or out changes one group by one and its sum by one value
  (`GroupChanges`, from `SumOfOneMore`), and `contribute` changes its row the same way
  (`ContributedIs`). A new rollup starts from rows nobody has used (`NumberedBlank`)
  and is right up to each key in turn (`BuildTotalsIs`).
* `CountedTrees`, where a row counts at most its group. This survives a `write` that
  failed half way, since that has only counted down, and bounds the counts in
  `TypeOK` whatever callers do.
* `Sane` itself, which is all that `PagesCover` needs: `RemoveAll` takes exactly the
  keys it is given (`RemoveAllTakes`), and these are the first of the stretch
  (`PageIs`).

What a recursive function over the keys computes is proved with sets in place of an
operator parameter: `Running` says that such a function exists and stays in its
set, `KeyByKey` (from `LeastNatural`) that what passes from one key to the next holds
at every key.

Only model-checked: `CatchesUp`, `CallsAreAnswered`, `CloseReturns`, since liveness under
fairness is out of the prover's reach. Every invariant and every action property of a
passing run is stated by a theorem, under the hypotheses given above.

## 7. What is not modelled, and the plan

Left out, with the reason:

* the search tree's order, split points and balance: `Pager` allows every way a
  tree may change its pages, and `Collections` takes the tree as a map;
* `keys`, `number`, `ulid`: pure encodings of bytes and decimals. `Collections`
  models the one place where an inexact number reaches state, the sum of a rollup;
* signing, connection strings, names, database keys, encryption: keyed hashes and
  parsing, taken as verifying or not;
* bundles: parsing and verifying a file; what installing one does to a store is
  `Declare` and `DeclareOperation`;
* framing, the service and its reload, the command line, the shell, descriptions,
  dump and restore, the benchmarks: input, output and formatting.

What the plan has left: the hazards without a property (`PROJECT.json` says of each
why), and, should the code come to roll back a single operation that failed, the
theorems of `Parts` and `Collections` without `~CarryOn`.
