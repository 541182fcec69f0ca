------------------------------ MODULE PagerInv ------------------------------
(***************************************************************************)
(* The inductive invariant behind the safety properties of Pager.          *)
(*                                                                         *)
(* The properties speak of what a crash would leave and of what the tree   *)
(* and the list claim now.  Neither is inductive: they need to know that   *)
(* at most one of the two meta pages is ever in doubt, that every page of  *)
(* the committed state stays out of reach of Allocate until the commit     *)
(* after the one that freed it, and that the three parts of the free list  *)
(* never overlap.                                                          *)
(***************************************************************************)
EXTENDS Pager

\* The process has the file open.
Up == pc \in {"idle", "failed", "written", "synced", "meta", "closing"}

\* The committed state: the one in memory, or the one Open would choose.
Base == IF Up THEN meta ELSE Chosen(slot[0], slot[1])

\* Two metas that lead to the same tree and the same list.
Same(m, n) ==
    /\ m.txid = n.txid
    /\ m.tree = n.tree
    /\ m.list = n.list
    /\ m.chain = n.chain

\* Every page a meta leads to is one it counts.
Fits(m) == \A p \in PagesOf(m.tree) \cup m.list \cup m.chain : p < m.count

\* A meta page holds nothing newer than b, and b itself only whole.
Behind(m, b) == m.txid <= b.txid /\ (m.txid = b.txid => Same(m, b) /\ Fits(m))

\* Away from the end of a commit, whatever the meta pages turn out to hold,
\* the newest of them is the committed state.
SlotsSettled ==
    pc \notin {"creating", "meta"} =>
        /\ \A s \in Slots : \A m \in slotMaybe[s] : Behind(m, Base)
        /\ \E s \in Slots : \A m \in slotMaybe[s] : m.txid = Base.txid

\* Between the two syncs of CreateWith and of Commit one thing is in doubt.
\* A meta page that does not read back leads to nothing.
SlotsInDoubt ==
    /\ \A s \in Slots : \A m \in slotMaybe[s] : m.txid = 0 => Same(m, NoMeta)
    /\ pc = "creating" =>
          \A s \in Slots : \A m \in slotMaybe[s] : Same(m, NoMeta) \/ m = FirstMeta
    /\ pc = "meta" =>
          /\ \A m \in slotMaybe[Other(nextMeta)] : Same(m, meta) /\ Fits(m)
          /\ \A m \in slotMaybe[nextMeta] : Behind(m, meta) \/ m = next
          /\ slot[nextMeta] = next

\* What a read returns is among what a crash may leave.
Truthful ==
    /\ \A p \in Pages : now[p] \in maybe[p]
    /\ \A s \in Slots : slot[s] \in slotMaybe[s]

\* The tree and the list m leads to are in the file, whatever a crash does.
Safe(m) ==
    /\ \A p \in PagesOf(m.tree) : maybe[p] = {Node(m.tree[p])}
    /\ \A p \in m.chain : maybe[p] = {List(m.txid)}
    /\ m.list \cap (PagesOf(m.tree) \cup m.chain) = {}

BaseSafe == Safe(Base)

\* The slot a commit writes is not the one holding the committed state.
OtherSlot ==
    Up /\ pc # "meta" =>
        /\ slot[Other(nextMeta)].txid = meta.txid
        /\ slot[nextMeta].txid <= meta.txid

\* Counts, and the chain kept in memory.
Counts ==
    Up => /\ committed <= meta.count
          /\ \A p \in PagesOf(meta.tree) \cup meta.list \cup meta.chain : p < committed
          /\ chain = meta.chain
          /\ \A p \in PagesOf(tree) \cup Listed \cup taken : p < meta.count

\* A page of the committed state cannot be handed out in this transaction.
Protected ==
    Up => \A p \in PagesOf(meta.tree) \cup meta.chain :
              /\ p \notin ready
              /\ p \notin taken
              /\ pending[p] = 0 \/ pending[p] > meta.txid

\* Pages freed in this transaction were seen, and none is freed ahead of it.
Freed ==
    Up => /\ \A p \in Pages : pending[p] <= tx
          /\ \A p \in Pages : pending[p] = tx => p \in seen
          /\ freeing \subseteq seen

\* The three parts of the free list do not overlap.
ListsApart ==
    Up => /\ ready \cap freeing = {}
          /\ ready \cap PendingPages = {}
          /\ freeing \cap PendingPages = {}
          /\ freeing \cap chain = {}
          /\ twice = {}

\* The tree being worked on: every page is either this transaction's own or
\* exactly the committed one, holds what it should, and is on no list.
Working ==
    pc \in {"idle", "written", "synced", "meta"} =>
        /\ \A p \in PagesOf(tree) : /\ now[p] = Node(tree[p])
                                    /\ Dirty(p) \/ tree[p] = meta.tree[p]
        /\ PagesOf(tree) \cap Listed = {}
        /\ PagesOf(tree) \cap chain = {}

\* What the commit under way is about to make the committed state.
Prepared ==
    pc \in {"written", "synced", "meta"} =>
        /\ next.txid = tx
        /\ next.tree = tree
        /\ next.list = ready \cup PendingPages
        /\ next.count = meta.count
        /\ freeing = {}
        /\ \A p \in next.chain : p < meta.count /\ now[p] = List(tx)
        /\ next.chain \cap (PagesOf(tree) \cup ready \cup PendingPages) = {}

\* Once its first sync is done, all of that is durable.
Durable ==
    /\ pc \in {"synced", "meta"} => \A p \in Pages : maybe[p] = {now[p]}
    /\ pc = "synced" => \A s \in Slots : slotMaybe[s] = {slot[s]}

\* A page a snapshot can see is out of reach until the snapshot is released.
Snapshots ==
    /\ ~Up => held = {}
    /\ \A r \in held :
          /\ snap[r].txid <= meta.txid
          /\ \A p \in PagesOf(snap[r].tree) :
                /\ now[p] = Node(snap[r].tree[p])
                /\ p \notin ready
                /\ p \notin taken
                /\ p < committed
                /\ pending[p] = 0 \/ pending[p] > snap[r].txid

\* Nothing reported is ahead of the committed state.
AckedBehind == acked <= Base.txid /\ (pc = "creating" => acked = 0)

\* Nothing is in the file before it has been created.
Empty ==
    /\ pc # "broken"
    /\ pc = "absent" => Base.txid = 0
    /\ pc = "creating" => /\ meta = FirstMeta
                          /\ nextMeta = 0
                          /\ committed = 2
                          /\ \A s \in Slots : slot[s] = FirstMeta
    /\ pc \in {"absent", "creating"} => acked = 0
    /\ pc \in {"absent", "creating", "down"} => /\ tree = EmptyTree
                                                /\ ready = {}
                                                /\ freeing = {}
                                                /\ taken = {}
                                                /\ chain = {}
                                                /\ twice = {}
                                                /\ seen = {}
                                                /\ pending = [p \in Pages |-> 0]

\* The inductive invariant: every part above, and the types.
IInv ==
    /\ TypeOK
    /\ SlotsSettled
    /\ SlotsInDoubt
    /\ Truthful
    /\ BaseSafe
    /\ OtherSlot
    /\ Counts
    /\ Protected
    /\ Freed
    /\ ListsApart
    /\ Working
    /\ Prepared
    /\ Durable
    /\ Snapshots
    /\ AckedBehind
    /\ Empty

-----------------------------------------------------------------------------
(* What three of the properties need on top of it.                         *)

\* While the file is open, callers have been told of the committed state.
Told == Up => acked = meta.txid

\* The clean mark is never on a meta newer than the last close, and the last
\* close is never ahead of the committed state.
Marks ==
    /\ \A s \in Slots : \A m \in slotMaybe[s] : m.clean => m.txid <= closedAt
    /\ Up /\ meta.clean => meta.txid <= closedAt
    /\ pc \in {"written", "synced", "meta"} => ~next.clean
    /\ closedAt <= Base.txid
    /\ pc = "creating" => closedAt = 0 /\ ~meta.clean

\* Every page m counts, up to an end, is one it leads to.
Covers(m, end) == \A p \in Pages : p < end => p \in PagesOf(m.tree) \cup m.list \cup m.chain

\* Every page of the file is in the tree being worked on or on a list, and
\* what was freed in this transaction is not in use.
LedTo == \A p \in Pages : p < meta.count => p \in PagesOf(tree) \cup Listed \cup chain

SeenApart ==
    /\ seen \cap (PagesOf(tree) \cup chain) = {}
    /\ \A p \in seen : p < meta.count

\* No page of the file is without an owner: in any meta page, in the committed
\* state, in the transaction under way and in the commit under way.
Owned ==
    /\ \A s \in Slots : \A m \in slotMaybe[s] : Covers(m, m.count)
    /\ Up => Covers(meta, committed)
    /\ pc = "idle" => LedTo /\ SeenApart
    /\ pc \in {"written", "synced", "meta"} => Covers(next, meta.count)

=============================================================================
