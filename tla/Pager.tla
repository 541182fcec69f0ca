------------------------------- MODULE Pager -------------------------------
(***************************************************************************)
(* The commit protocol of one database file: internal/pager (pager.go and  *)
(* freelist.go), driven by the copy-on-write tree of internal/btree.       *)
(*                                                                         *)
(* The file is two meta pages (the slots) and data pages.  A transaction   *)
(* writes copies of the pages it changes, then the free list, then syncs,  *)
(* then writes one meta page, then syncs again.  A crash may come at any   *)
(* moment and keeps an arbitrary part of what was written since the last   *)
(* sync (internal/vfs/sim.go is the repository's own model of such a disk).*)
(*                                                                         *)
(* The content of a data page is abstracted to its kind and the TxID of    *)
(* the transaction that wrote it.  A root is abstracted to what it leads   *)
(* to: a function giving, for each page of the tree, the TxID under which  *)
(* that page was written, and 0 for a page outside the tree.               *)
(***************************************************************************)
EXTENDS Integers, FiniteSets

CONSTANTS
    MaxPages,   \* the quota: PageCount never goes past it
    PerPage,    \* freePerPage: entries one page of the persisted list holds
    MaxTx,      \* bound on the TxID a commit may reach
    Readers,    \* the holders of snapshots
    WorstCrash  \* bound on crashes: every page not synced comes back torn

ASSUME MaxPagesAssumption == MaxPages \in Nat /\ MaxPages > 2
ASSUME PerPageAssumption  == PerPage \in Nat \ {0}
ASSUME MaxTxAssumption    == MaxTx \in Nat \ {0}
ASSUME CrashAssumption    == WorstCrash \in BOOLEAN

VARIABLES
    now,        \* what a read of each data page returns
    maybe,      \* what a crash may leave in each data page
    slot,       \* what a read of each of the two meta pages returns
    slotMaybe,  \* what a crash may leave in each meta page
    meta,       \* Pager.meta
    nextMeta,   \* Pager.nextMeta
    committed,  \* Pager.committed
    taken,      \* Pager.taken
    ready,      \* freelist.ready
    pending,    \* freelist.pending: the transaction that freed a page, or 0
    freeing,    \* freelist.freeing
    seen,       \* freelist.seen
    chain,      \* freelist.chain
    twice,      \* pages the lists above hold two entries for
    tree,       \* the tree the writer is working on (btree.Tree.root)
    snap,       \* the snapshot each reader holds, or NoMeta
    next,       \* the meta the running Commit is about to write, or NoMeta
    pc,         \* where the process is
    acked,      \* TxID of the last Commit that reported success
    closedAt    \* TxID at which Close was last called, or 0

disk == <<now, maybe, slot, slotMaybe>>
mem  == <<meta, nextMeta, committed, taken>>
list == <<ready, pending, freeing, seen, chain, twice>>
hist == <<acked, closedAt>>
vars == <<disk, mem, list, tree, snap, next, pc, hist>>

-----------------------------------------------------------------------------
(* Pages, their contents, and metas. *)

Slots == {0, 1}
Pages == 2 .. (MaxPages - 1)

Node(tx) == [kind |-> "node", tx |-> tx]   \* a leaf, a branch or a blob
List(tx) == [kind |-> "list", tx |-> tx]   \* KindFree
Torn     == [kind |-> "torn", tx |-> 0]    \* fails its checksum
Blank    == [kind |-> "blank", tx |-> 0]   \* never written

Contents == [kind : {"node", "list", "torn", "blank"}, tx : Nat]

Trees     == [Pages -> Nat]
EmptyTree == [p \in Pages |-> 0]
PagesOf(t) == {p \in Pages : t[p] # 0}

Metas == [txid : Nat, tree : Trees, list : SUBSET Pages, chain : SUBSET Pages,
          count : 2 .. MaxPages, clean : BOOLEAN]

\* A meta page that does not read back: loadMeta's error.
NoMeta == [txid |-> 0, tree |-> EmptyTree, list |-> {}, chain |-> {},
           count |-> 2, clean |-> FALSE]
FirstMeta == [NoMeta EXCEPT !.txid = 1]

Readable(m) == m.txid # 0

\* Mutant of Loaded: the first page that reads back wins, newer or not.
LoadedFirstReadable(first, second) == IF Readable(first) THEN 0 ELSE 1

\* loadMeta's choice between the two meta pages: 1 when the second one wins.
Loaded(first, second) ==
    IF /\ Readable(second)
       /\ \/ ~Readable(first)
          \/ second.txid > first.txid
          \/ second.txid = first.txid /\ second.clean /\ ~first.clean
    THEN 1 ELSE 0

\* Mutant of Other: the slot counts up instead of alternating.
OtherCountsUp(s) == s + 1

\* The meta page a commit does not use is the one the next commit writes.
Other(s) == 1 - s

Chosen(first, second) == IF Loaded(first, second) = 1 THEN second ELSE first

\* The list a meta leads to reads back, and names only pages of the file.
ListReadable(m) ==
    /\ \A p \in m.chain : p < m.count /\ now[p] = List(m.txid)
    /\ \A p \in m.list : p > 1 /\ p < m.count

-----------------------------------------------------------------------------
(* The file.  A write to a data page spans sectors and may tear; a meta    *)
(* page is smaller than a sector and lands whole or not at all.            *)

WritePages(ps, c) ==
    /\ now' = [p \in Pages |-> IF p \in ps THEN c ELSE now[p]]
    /\ maybe' = [p \in Pages |-> IF p \in ps THEN maybe[p] \cup {c, Torn} ELSE maybe[p]]
    /\ UNCHANGED <<slot, slotMaybe>>

writeMeta(s, m) ==
    /\ slot' = [slot EXCEPT ![s] = m]
    /\ slotMaybe' = [slotMaybe EXCEPT ![s] = @ \cup {m}]
    /\ UNCHANGED <<now, maybe>>

Sync ==
    /\ maybe' = [p \in Pages |-> {now[p]}]
    /\ slotMaybe' = [s \in Slots |-> {slot[s]}]
    /\ UNCHANGED <<now, slot>>

-----------------------------------------------------------------------------
(* The free list. *)

\* Mutant of Dirty: off by one at the end of the committed file.
DirtyOffByOne(p) == p + 1 >= committed \/ p \in taken

Dirty(p) == p >= committed \/ p \in taken

PendingPages == {p \in Pages : pending[p] # 0}
Listed == ready \cup freeing \cup PendingPages

held == {r \in Readers : Readable(snap[r])}

\* Mutant of Promotable: off by one at the transaction after the snapshot.
PromotableOneEarly ==
    {p \in PendingPages : /\ pending[p] <= meta.txid
                          /\ \A r \in held : snap[r].txid + 1 >= pending[p]}

\* promote: freed by a transaction that has committed, and visible to no
\* snapshot older than that transaction.
Promotable ==
    {p \in PendingPages : /\ pending[p] <= meta.txid
                          /\ \A r \in held : snap[r].txid >= pending[p]}

Promoted == ready \cup Promotable

\* What is still pending once promote has run.
StillPending == [p \in Pages |-> IF p \in Promotable THEN 0 ELSE pending[p]]

\* Free, called for every page of a set: pages already seen are skipped, a
\* page of this transaction is ready at once, any other waits for the commit.
Unseen(ps)        == ps \ seen
FreeToReady(ps)   == {p \in Unseen(ps) : Dirty(p)}
FreeToFreeing(ps) == {p \in Unseen(ps) : ~Dirty(p)}
FreeTwice(ps)     == Unseen(ps) \cap Listed

\* Allocate takes q: a promoted page when there is one, else the page after
\* the last, unless the quota says no.  The page p was freed just before.
Allocate(q, justFreed) ==
    /\ \/ /\ q \in Promoted
          /\ ready' = (Promoted \ {q}) \cup ({q} \cap twice)
          /\ seen' = (seen \cup justFreed) \ {q}
          /\ meta' = meta
       \/ /\ Promoted = {}
          /\ meta.count < MaxPages
          /\ q = meta.count
          /\ ready' = {}
          /\ seen' = seen \cup justFreed
          /\ meta' = [meta EXCEPT !.count = @ + 1]
    /\ pending' = StillPending
    /\ taken' = taken \cup {q}

Refused == Promoted = {} /\ meta.count >= MaxPages

-----------------------------------------------------------------------------
(* What the tree does to the file inside a transaction (btree/tree.go).    *)

tx == meta.txid + 1

\* place of a page this transaction already owns: rewritten where it is.
RewriteInPlace(p) ==
    /\ pc = "idle"
    /\ p \in PagesOf(tree)
    /\ Dirty(p)
    /\ WritePages({p}, Node(tx))
    /\ tree' = [tree EXCEPT ![p] = tx]
    /\ UNCHANGED <<mem, list, snap, next, pc, hist>>

\* place and Write of a committed page: freed, and written anew as q.
PlaceCopy(p, q, content) ==
    /\ pc = "idle"
    /\ p \in PagesOf(tree)
    /\ ~Dirty(p)
    /\ Allocate(q, {p})
    /\ freeing' = freeing \cup FreeToFreeing({p})
    /\ twice' = (twice \ {q}) \cup FreeTwice({p})
    /\ WritePages({q}, content)
    /\ UNCHANGED <<nextMeta, committed, chain, snap, next, hist>>

Copy(p, q) ==
    /\ PlaceCopy(p, q, Node(tx))
    /\ tree' = [tree EXCEPT ![p] = 0, ![q] = tx]
    /\ UNCHANGED pc

\* place(0): a new node of a split or of a first key, or a page of a blob.
Grow(q) ==
    /\ pc = "idle"
    /\ Allocate(q, {})
    /\ twice' = twice \ {q}
    /\ WritePages({q}, Node(tx))
    /\ tree' = [tree EXCEPT ![q] = tx]
    /\ UNCHANGED <<nextMeta, committed, freeing, chain, snap, next, pc, hist>>

\* A node merged away or emptied, or a page of a value no longer wanted.
Shrink(p) ==
    /\ pc = "idle"
    /\ p \in PagesOf(tree)
    /\ ready' = ready \cup FreeToReady({p})
    /\ freeing' = freeing \cup FreeToFreeing({p})
    /\ twice' = twice \cup FreeTwice({p})
    /\ seen' = seen \cup {p}
    /\ tree' = [tree EXCEPT ![p] = 0]
    /\ UNCHANGED <<disk, mem, pending, chain, snap, next, pc, hist>>

\* place fails between Free and Allocate: the quota.  The tree keeps its
\* root, which still leads to the page that was just freed.
PlaceRefused(p) ==
    /\ pc = "idle"
    /\ p \in PagesOf(tree)
    /\ ~Dirty(p)
    /\ Refused
    /\ freeing' = freeing \cup FreeToFreeing({p})
    /\ twice' = twice \cup FreeTwice({p})
    /\ seen' = seen \cup {p}
    /\ pc' = "failed"
    /\ UNCHANGED <<disk, mem, ready, pending, chain, tree, snap, next, hist>>

\* The page is placed but its write fails, with any part of it in the file.
\* The tree keeps its root, which leads to the page that was freed.
WriteFails(p, q) ==
    /\ PlaceCopy(p, q, Torn)
    /\ pc' = "failed"
    /\ UNCHANGED tree

-----------------------------------------------------------------------------
(* Commit. *)

\* Mutant of Rolled: the pages of the old list are not freed.
RolledWithoutChain == [p \in Pages |-> IF p \in freeing THEN tx ELSE pending[p]]

\* The list once the old chain is freed and freeing has been rolled into
\* pending under the transaction being committed.
Rolled ==
    [p \in Pages |-> IF p \in freeing \cup FreeToFreeing(chain) THEN tx ELSE pending[p]]

\* writeFreelist settles on the least number of list pages k that holds what
\* is left once k pages have been taken from the ready ones first.
ListPages(k, readyCount, total) ==
    /\ total - (IF k < readyCount THEN k ELSE readyCount) <= k * PerPage
    /\ \A j \in 0 .. (k - 1) :
          total - (IF j < readyCount THEN j ELSE readyCount) > j * PerPage

\* Mutant of CommittedMeta: the mark of an earlier close is carried over.
CommittedMetaMarked(listed, listPages, count) ==
    [txid |-> tx, tree |-> tree, list |-> listed, chain |-> listPages,
     count |-> count, clean |-> meta.clean]

\* The meta a Commit writes: the mark of an earlier close is not carried over.
CommittedMeta(listed, listPages, count) ==
    [txid |-> tx, tree |-> tree, list |-> listed, chain |-> listPages,
     count |-> count, clean |-> FALSE]

\* Commit frees the old chain and rolls freeing; writeFreelist may take its
\* pages from Takeable, and lists Waiting without taking from it.
Takeable == Promoted \cup FreeToReady(chain)
Waiting  == {p \in Pages : Rolled[p] # 0 /\ p \notin Promotable}

RollFreed ==
    /\ pc = "idle"
    /\ meta.txid < MaxTx
    /\ freeing' = {}
    /\ seen' = seen \cup chain
    /\ twice' = twice \cup FreeTwice(chain)
    /\ pending' = [p \in Pages |-> IF p \in Waiting THEN Rolled[p] ELSE 0]
    /\ UNCHANGED <<nextMeta, committed, chain, tree, snap, hist>>

\* writeFreelist takes the pages of from, and then grows the file by grown.
TakeListPages(from, grown) ==
    /\ ListPages(Cardinality(from) + grown, Cardinality(Takeable),
                 Cardinality(Takeable) + Cardinality(Waiting))
    /\ grown > 0 => from = Takeable
    /\ ready' = Takeable \ from

CommitList ==
    /\ RollFreed
    /\ \E from \in SUBSET Takeable, grown \in 0 .. (MaxPages - meta.count) :
          LET end    == meta.count + grown
              taking == from \cup {p \in Pages : p >= meta.count /\ p < end}
          IN  /\ TakeListPages(from, grown)
              /\ taken' = taken \cup taking
              /\ meta' = [meta EXCEPT !.count = end]
              /\ WritePages(taking, List(tx))
              /\ next' = CommittedMeta((Takeable \ from) \cup Waiting, taking, end)
    /\ pc' = "written"

\* Where callers are when Commit has returned an error: copying has to roll
\* back before anything else (follower.go), perform carries on (invoke.go).
AfterError == {"failed", "idle"}

\* The quota refuses a page for the list: Commit returns the error, having
\* taken every page there was.
ListRefused(then) ==
    /\ RollFreed
    /\ \E grown \in 1 .. MaxPages :
          /\ meta.count + grown > MaxPages
          /\ TakeListPages(Takeable, grown)
    /\ taken' = taken \cup Takeable \cup {p \in Pages : p >= meta.count}
    /\ meta' = [meta EXCEPT !.count = MaxPages]
    /\ pc' = then
    /\ UNCHANGED <<disk, next>>

CommitRefused == \E then \in AfterError : ListRefused(then)

\* Mutant of CommitSync: the meta page is not held back by a sync.
CommitSyncSkipped ==
    /\ pc = "written"
    /\ pc' = "synced"
    /\ UNCHANGED <<disk, mem, list, tree, snap, next, hist>>

\* The first Sync of Commit: data and list are durable before the meta is.
CommitSync ==
    /\ pc = "written"
    /\ Sync
    /\ pc' = "synced"
    /\ UNCHANGED <<mem, list, tree, snap, next, hist>>

\* That Sync, the write of a list page before it or the write of the meta page
\* after it fails: Commit returns the error.
CommitSyncFails ==
    /\ pc \in {"written", "synced"}
    /\ pc' \in AfterError
    /\ next' = NoMeta
    /\ UNCHANGED <<disk, mem, list, tree, snap, hist>>

CommitMeta ==
    /\ pc = "synced"
    /\ writeMeta(nextMeta, next)
    /\ pc' = "meta"
    /\ UNCHANGED <<mem, list, tree, snap, next, hist>>

\* Mutant of CommitDone: success is reported before the meta page is durable.
CommitDoneUnsynced ==
    /\ pc = "meta"
    /\ meta' = next
    /\ nextMeta' = Other(nextMeta)
    /\ committed' = next.count
    /\ chain' = next.chain
    /\ seen' = {}
    /\ taken' = {}
    /\ acked' = next.txid
    /\ next' = NoMeta
    /\ pc' = "idle"
    /\ UNCHANGED <<disk, ready, pending, freeing, twice, tree, snap, closedAt>>

\* The second Sync, and what Commit does once it has returned.
CommitDone ==
    /\ pc = "meta"
    /\ Sync
    /\ meta' = next
    /\ nextMeta' = Other(nextMeta)
    /\ committed' = next.count
    /\ chain' = next.chain
    /\ seen' = {}
    /\ taken' = {}
    /\ acked' = next.txid
    /\ next' = NoMeta
    /\ pc' = "idle"
    /\ UNCHANGED <<ready, pending, freeing, twice, tree, snap, closedAt>>

\* The second Sync fails: Commit returns the error with its memory untouched.
CommitDoneFails ==
    /\ pc = "meta"
    /\ pc' \in AfterError
    /\ next' = NoMeta
    /\ UNCHANGED <<disk, mem, list, tree, snap, hist>>

-----------------------------------------------------------------------------
(* Opening, rolling back, closing, crashing. *)

\* Everything the process kept in memory is gone.
Forget ==
    /\ meta' = NoMeta
    /\ nextMeta' = 0
    /\ committed' = 2
    /\ taken' = {}
    /\ ready' = {}
    /\ pending' = [p \in Pages |-> 0]
    /\ freeing' = {}
    /\ seen' = {}
    /\ chain' = {}
    /\ twice' = {}
    /\ tree' = EmptyTree
    /\ snap' = [r \in Readers |-> NoMeta]
    /\ next' = NoMeta

\* CreateWith, up to its Sync.
Create ==
    /\ pc = "absent"
    /\ slot' = [s \in Slots |-> FirstMeta]
    /\ slotMaybe' = [s \in Slots |-> slotMaybe[s] \cup {FirstMeta}]
    /\ meta' = FirstMeta
    /\ nextMeta' = 0
    /\ committed' = FirstMeta.count
    /\ pc' = "creating"
    /\ UNCHANGED <<now, maybe, taken, list, tree, snap, next, hist>>

CreateDone ==
    /\ pc = "creating"
    /\ Sync
    /\ acked' = 1
    /\ pc' = "idle"
    /\ UNCHANGED <<mem, list, tree, snap, next, closedAt>>

\* Mutant of readFreelist: what the abandoned transaction freed stays freed.
readFreelistKeepsFreeing(m) ==
    /\ ready' = IF ListReadable(m) THEN m.list ELSE {}
    /\ chain' = IF ListReadable(m) THEN m.chain ELSE {}
    /\ pending' = [p \in Pages |-> 0]
    /\ seen' = {}
    /\ UNCHANGED <<freeing, twice>>

\* readFreelist: the list is built anew and everything it holds is ready.
readFreelist(m) ==
    /\ ready' = IF ListReadable(m) THEN m.list ELSE {}
    /\ chain' = IF ListReadable(m) THEN m.chain ELSE {}
    /\ pending' = [p \in Pages |-> 0]
    /\ freeing' = {}
    /\ seen' = {}
    /\ twice' = {}

\* loadMeta and then readFreelist.
Load ==
    LET chosen == Loaded(slot[0], slot[1])
        m      == slot[chosen]
    IN  /\ meta' = m
        /\ nextMeta' = Other(chosen)
        /\ committed' = m.count
        /\ taken' = {}
        /\ readFreelist(m)
        /\ tree' = m.tree
        /\ pc' = IF ListReadable(m) THEN "idle" ELSE "broken"
        /\ UNCHANGED <<disk, next, closedAt>>

\* OpenWith: what it finds is what callers are then told the database holds.
Open ==
    /\ pc = "down"
    /\ Readable(slot[0]) \/ Readable(slot[1])
    /\ Load
    /\ acked' = Chosen(slot[0], slot[1]).txid
    /\ snap' = [r \in Readers |-> NoMeta]

\* A file whose creation left nothing readable is created again.
Recreate ==
    /\ pc = "down"
    /\ ~Readable(slot[0]) /\ ~Readable(slot[1])
    /\ pc' = "absent"
    /\ UNCHANGED <<disk, mem, list, tree, snap, next, hist>>

Rollback ==
    /\ pc \in {"idle", "failed"}
    /\ Load
    /\ UNCHANGED <<snap, acked>>

\* Close copies Pager.meta, marked, over the meta page not in use, unless it is
\* marked already.  That write failing is not reported.
Close ==
    /\ pc \in {"idle", "failed"}
    /\ closedAt' = meta.txid
    /\ pc' = "closing"
    /\ \/ ~meta.clean /\ writeMeta(nextMeta, [meta EXCEPT !.clean = TRUE])
       \/ UNCHANGED disk
    /\ UNCHANGED <<mem, list, tree, snap, next, acked>>

\* Close ignores whether its Sync worked, and does none over a clean meta.
CloseDone ==
    /\ pc = "closing"
    /\ (~meta.clean /\ Sync) \/ UNCHANGED disk
    /\ pc' = "down"
    /\ Forget
    /\ UNCHANGED hist

\* What a crash may leave of the data pages, or the worst of it.
Fallout ==
    IF WorstCrash
    THEN {[p \in Pages |-> IF maybe[p] = {now[p]} THEN now[p] ELSE Torn]}
    ELSE [Pages -> UNION {maybe[p] : p \in Pages}]

\* Power is lost: every page is one of the things it may be.
Crash ==
    /\ \E rest \in Fallout :
          /\ \A p \in Pages : rest[p] \in maybe[p]
          /\ now' = rest
          /\ maybe' = [p \in Pages |-> {rest[p]}]
    /\ \E first \in slotMaybe[0], second \in slotMaybe[1] :
          /\ slot' = [s \in Slots |-> IF s = 0 THEN first ELSE second]
          /\ slotMaybe' = [s \in Slots |-> IF s = 0 THEN {first} ELSE {second}]
    /\ pc' = "down"
    /\ Forget
    /\ UNCHANGED hist

\* The process dies and the machine does not: what was written is still
\* what a read returns, and still not durable.
Kill ==
    /\ pc \notin {"down", "absent"}
    /\ pc' = "down"
    /\ Forget
    /\ UNCHANGED <<disk, hist>>

\* Snapshot pins Pager.meta; Release lets go.
Snapshot(r) ==
    /\ pc = "idle"
    /\ ~Readable(snap[r])
    /\ snap' = [snap EXCEPT ![r] = meta]
    /\ UNCHANGED <<disk, mem, list, tree, next, pc, hist>>

Release(r) ==
    /\ pc = "idle"
    /\ Readable(snap[r])
    /\ snap' = [snap EXCEPT ![r] = NoMeta]
    /\ UNCHANGED <<disk, mem, list, tree, next, pc, hist>>

\* A single operation that failed is not rolled back (store/invoke.go,
\* perform): the next one carries on in the transaction it left behind.
CarryOn ==
    /\ pc = "failed"
    /\ pc' = "idle"
    /\ UNCHANGED <<disk, mem, list, tree, snap, next, hist>>

-----------------------------------------------------------------------------
(* Specifications. *)

Init ==
    /\ now = [p \in Pages |-> Blank]
    /\ maybe = [p \in Pages |-> {Blank}]
    /\ slot = [s \in Slots |-> NoMeta]
    /\ slotMaybe = [s \in Slots |-> {NoMeta}]
    /\ meta = NoMeta
    /\ nextMeta = 0
    /\ committed = 2
    /\ taken = {}
    /\ ready = {}
    /\ pending = [p \in Pages |-> 0]
    /\ freeing = {}
    /\ seen = {}
    /\ chain = {}
    /\ twice = {}
    /\ tree = EmptyTree
    /\ snap = [r \in Readers |-> NoMeta]
    /\ next = NoMeta
    /\ pc = "absent"
    /\ acked = 0
    /\ closedAt = 0

Work ==
    \/ \E p \in Pages : RewriteInPlace(p) \/ Shrink(p) \/ Grow(p)
    \/ \E p, q \in Pages : Copy(p, q)

Failure ==
    \/ \E p \in Pages : PlaceRefused(p)
    \/ \E p, q \in Pages : WriteFails(p, q)

Commit == CommitList \/ CommitRefused \/ CommitSync \/ CommitSyncFails \/ CommitMeta \/ CommitDone

Lifetime == Create \/ CreateDone \/ Open \/ Recreate \/ Close \/ CloseDone \/ Crash

Hold == \E r \in Readers : Snapshot(r) \/ Release(r)

\* Everything the engine and its callers do.
Next ==
    \/ Work
    \/ Failure
    \/ CarryOn
    \/ Commit
    \/ CommitDoneFails
    \/ Lifetime
    \/ Hold
    \/ Rollback
    \/ Kill

Spec == Init /\ [][Next]_vars

\* A caller that rolls an operation back when it has failed, as runBatch and
\* copying do and perform does not, and holds no snapshot across a rollback;
\* a disk whose sync does not fail once the meta page is written; and no
\* process that dies between the meta page and that sync and leaves the
\* machine running.
CarefulNext ==
    \/ Work
    \/ Failure
    \/ Commit
    \/ Lifetime
    \/ Hold
    \/ held = {} /\ Rollback
    \/ pc \notin {"meta", "creating"} /\ Kill

CarefulSpec == Init /\ [][CarefulNext]_vars

\* A careful caller that also rolls back a commit that failed, and closes only
\* while the page count is the one the last commit left.
OrderlyStep ==
    /\ CommitRefused \/ CommitSyncFails => pc' = "failed"
    /\ Close => meta.count = committed

OrderlyNext == CarefulNext /\ OrderlyStep

OrderlySpec == Init /\ [][OrderlyNext]_vars

-----------------------------------------------------------------------------
(* Properties. *)

PCs == {"absent", "creating", "idle", "failed", "written", "synced", "meta",
        "closing", "down", "broken"}

\* Every variable holds a value of its kind (Pager and freelist structs).
TypeOK ==
    /\ now \in [Pages -> Contents]
    /\ maybe \in [Pages -> SUBSET Contents]
    /\ slot \in [Slots -> Metas]
    /\ slotMaybe \in [Slots -> SUBSET Metas]
    /\ meta \in Metas
    /\ nextMeta \in Slots
    /\ committed \in 2 .. MaxPages
    /\ taken \in SUBSET Pages
    /\ ready \in SUBSET Pages
    /\ pending \in [Pages -> Nat]
    /\ freeing \in SUBSET Pages
    /\ seen \in SUBSET Pages
    /\ chain \in SUBSET Pages
    /\ twice \in SUBSET Pages
    /\ tree \in Trees
    /\ snap \in [Readers -> Metas]
    /\ next \in Metas
    /\ pc \in PCs
    /\ acked \in Nat
    /\ closedAt \in Nat

\* The metas a crash at this moment could make the next Open choose.
Survivors == {Chosen(first, second) : first \in slotMaybe[0], second \in slotMaybe[1]}

\* Whatever a crash leaves, the tree and the list m leads to are all there.
Intact(m) ==
    /\ \A p \in PagesOf(m.tree) : p < m.count /\ maybe[p] = {Node(m.tree[p])}
    /\ \A p \in m.chain : p < m.count /\ maybe[p] = {List(m.txid)}
    /\ \A p \in m.list : p < m.count
    /\ m.list \cap (PagesOf(m.tree) \cup m.chain) = {}

\* A crash at any point, keeping any part of what was not synced, falls back
\* to a meta page whose whole tree and whole free list are in the file:
\* pager.go, Commit, "There is no third outcome".
CrashSafe ==
    acked > 0 => \A m \in Survivors : Readable(m) /\ Intact(m)

\* No crash goes back behind a transaction whose Commit reported success, or
\* behind the one an Open has already shown to its callers.
NothingAckedIsLost == \A m \in Survivors : m.txid >= acked

\* The tree being worked on and the free list never claim the same page, and
\* the list never holds a page twice, for a careful caller (freelist.go, FreeSet
\* and seen); one that carries on after a failure breaks it.
OneOwner ==
    pc = "idle" =>
        /\ PagesOf(tree) \cap Listed = {}
        /\ PagesOf(tree) \cap chain = {}
        /\ chain \cap ready = {}
        /\ ready \cap freeing = {}
        /\ ready \cap PendingPages = {}
        /\ freeing \cap PendingPages = {}
        /\ twice = {}

\* Every page the writer's tree leads to still holds what was written there:
\* no page in use is ever handed out and written over.
ReadsBack ==
    pc = "idle" => \A p \in PagesOf(tree) : now[p] = Node(tree[p])

\* Every page a held snapshot leads to still holds what it held when the
\* snapshot was taken, through the commits after it and the promotion of what
\* they freed (freelist.go, "Held snapshots hold pages back").
SnapshotsHold ==
    \A r \in held : \A p \in PagesOf(snap[r].tree) : now[p] = Node(snap[r].tree[p])

\* Every page a surviving meta counts is in its tree, on its list or part of
\* its list: rewriting and deleting never lose a page for good, as long as a
\* commit that failed is rolled back (OrderlySpec).
Accounted ==
    \A m \in Survivors : \A p \in Pages :
        p < m.count => p \in PagesOf(m.tree) \cup m.list \cup m.chain

\* The tree and the free list of a surviving meta claim no page in common
\* (freelist.go, FreeSet: "the tree and the list never claim the same page").
ListedPagesAreNotLive == \A m \in Survivors : m.list \cap PagesOf(m.tree) = {}

\* The clean mark is only ever read on the transaction at which the file was
\* closed: no commit after a close inherits it.
CleanMark == (pc = "idle" /\ meta.clean) => meta.txid = closedAt

\* The value of the file is the tree, its version the TxID.
Value(m) == [version |-> m.txid, value |-> m.tree]
MayShow  == {Value(m) : m \in Survivors}

Abstract == INSTANCE AtomicStore WITH
    Values     <- Trees,
    FirstValue <- EmptyTree,
    durable    <- MayShow,
    reported   <- acked,
    working    <- tree,
    up         <- pc \notin {"absent", "down"}

\* The file implements an atomic store (AtomicStore): whatever crashes come
\* between the writes of a commit it is all there or not at all, and once
\* Commit has reported success, or Open has shown it, it stays
\* (pager.go, Commit, loadMeta and Rollback).
Refines == Abstract!Spec

=============================================================================
