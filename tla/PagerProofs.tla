---------------------------- MODULE PagerProofs ----------------------------
(***************************************************************************)
(* Proofs about Pager, for every quota, list-page size, number of          *)
(* transactions and number of snapshots.                                   *)
(***************************************************************************)
EXTENDS PagerInv, TLAPS

(* Facts about the operators. *)

\* Contents and metas written by the code are of their types.
LEMMA ContentTypes ==
    ASSUME NEW t \in Nat
    PROVE  /\ Node(t) \in Contents
           /\ List(t) \in Contents
           /\ Torn \in Contents
           /\ Blank \in Contents
BY DEF Node, List, Torn, Blank, Contents

\* NoMeta and FirstMeta are metas, whatever the quota.
LEMMA MetaTypes == NoMeta \in Metas /\ FirstMeta \in Metas
<1>1. EmptyTree \in Trees
  BY DEF EmptyTree, Trees
<1>2. 2 \in 2 .. MaxPages
  BY MaxPagesAssumption
<1>3. NoMeta \in Metas
  BY <1>1, <1>2 DEF NoMeta, Metas
<1>4. FirstMeta \in Metas
  BY <1>1, <1>2 DEF FirstMeta, NoMeta, Metas
<1>. QED  BY <1>3, <1>4

\* loadMeta chooses one of the two meta pages it read.
LEMMA ChosenIsOne ==
    ASSUME NEW f, NEW s
    PROVE  /\ Loaded(f, s) \in Slots
           /\ Chosen(f, s) \in {f, s}
           /\ Loaded(f, s) = 1 => Chosen(f, s) = s
           /\ Loaded(f, s) = 0 => Chosen(f, s) = f
BY DEF Loaded, Chosen, Slots

\* The slot alternates.
LEMMA OtherIsSlot ==
    ASSUME NEW s \in Slots
    PROVE  /\ Other(s) \in Slots
           /\ Other(s) # s
           /\ Other(Other(s)) = s
           /\ \A x \in Slots : x = s \/ x = Other(s)
BY DEF Other, Slots

-----------------------------------------------------------------------------
(* Types. *)

\* Allocate gives every variable it assigns a value of its type.
LEMMA AllocateType ==
    ASSUME TypeOK, NEW q \in Pages, NEW ps \in SUBSET Pages, Allocate(q, ps)
    PROVE  /\ ready' \in SUBSET Pages
           /\ seen' \in SUBSET Pages
           /\ meta' \in Metas
           /\ pending' \in [Pages -> Nat]
           /\ taken' \in SUBSET Pages
<1>1. Promoted \subseteq Pages
  BY DEF Promoted, Promotable, PendingPages, TypeOK
<1>2. meta.count < MaxPages => [meta EXCEPT !.count = @ + 1] \in Metas
  BY MaxPagesAssumption DEF TypeOK, Metas
<1>3. StillPending \in [Pages -> Nat]
  BY DEF StillPending, TypeOK
<1>. QED  BY <1>1, <1>2, <1>3 DEF Allocate, TypeOK

\* Writes and syncs keep the types of the file.
LEMMA WritePagesType ==
    ASSUME TypeOK, NEW ps, NEW c \in Contents, WritePages(ps, c)
    PROVE  /\ now' \in [Pages -> Contents]
           /\ maybe' \in [Pages -> SUBSET Contents]
           /\ slot' = slot /\ slotMaybe' = slotMaybe
BY ContentTypes DEF WritePages, TypeOK, Torn

\* A sync keeps the types of the file.
LEMMA SyncType ==
    ASSUME TypeOK, Sync
    PROVE  /\ now' \in [Pages -> Contents]
           /\ maybe' \in [Pages -> SUBSET Contents]
           /\ slot' \in [Slots -> Metas]
           /\ slotMaybe' \in [Slots -> SUBSET Metas]
BY DEF Sync, TypeOK

\* Writing a meta page keeps the types of the file.
LEMMA WriteMetaType ==
    ASSUME TypeOK, NEW s \in Slots, NEW m \in Metas, writeMeta(s, m)
    PROVE  /\ slot' \in [Slots -> Metas]
           /\ slotMaybe' \in [Slots -> SUBSET Metas]
           /\ now' = now /\ maybe' = maybe
BY DEF writeMeta, TypeOK

\* loadMeta and readFreelist give every variable a value of its type.
LEMMA LoadType ==
    ASSUME TypeOK, Load
    PROVE  /\ meta' \in Metas /\ nextMeta' \in Slots /\ committed' \in 2 .. MaxPages
           /\ taken' = {} /\ ready' \in SUBSET Pages /\ chain' \in SUBSET Pages
           /\ pending' \in [Pages -> Nat] /\ freeing' = {} /\ seen' = {} /\ twice' = {}
           /\ tree' \in Trees /\ pc' \in PCs
           /\ UNCHANGED <<disk, next, closedAt>>
<1> DEFINE m == slot[Loaded(slot[0], slot[1])]
<1>1. Loaded(slot[0], slot[1]) \in Slots
  BY ChosenIsOne
<1>2. m \in Metas
  BY <1>1 DEF TypeOK
<1>3. /\ m.count \in 2 .. MaxPages /\ m.list \in SUBSET Pages
      /\ m.chain \in SUBSET Pages /\ m.tree \in Trees
  BY <1>2 DEF Metas
<1>4. nextMeta' \in Slots
  BY <1>1, OtherIsSlot DEF Load
<1>5. /\ meta' = m /\ committed' = m.count /\ taken' = {} /\ tree' = m.tree
      /\ pc' \in PCs
      /\ UNCHANGED <<disk, next, closedAt>>
  BY DEF Load, PCs
<1>6. /\ ready' \in SUBSET Pages /\ chain' \in SUBSET Pages
      /\ pending' \in [Pages -> Nat] /\ freeing' = {} /\ seen' = {} /\ twice' = {}
  BY <1>3 DEF Load, readFreelist
<1>. QED  BY <1>2, <1>3, <1>4, <1>5, <1>6

\* Forgetting everything leaves values of the right types.
LEMMA ForgetType ==
    ASSUME TypeOK, Forget
    PROVE  /\ meta' \in Metas /\ nextMeta' \in Slots /\ committed' \in 2 .. MaxPages
           /\ taken' = {} /\ ready' = {} /\ chain' = {} /\ freeing' = {}
           /\ pending' \in [Pages -> Nat] /\ seen' = {} /\ twice' = {}
           /\ tree' \in Trees /\ snap' \in [Readers -> Metas] /\ next' \in Metas
BY MetaTypes, MaxPagesAssumption DEF Forget, Slots, EmptyTree, Trees

\* The initial state has the right types.
LEMMA InitType == Init => TypeOK
BY MetaTypes, ContentTypes, MaxPagesAssumption
   DEF Init, TypeOK, Slots, EmptyTree, Trees, PCs

\* What the tree does inside a transaction keeps the types.
LEMMA WorkType == TypeOK /\ (Work \/ Failure) => TypeOK'
<1> SUFFICES ASSUME TypeOK, Work \/ Failure PROVE TypeOK'
  OBVIOUS
<1>0. tx \in Nat /\ Node(tx) \in Contents /\ Torn \in Contents
  BY ContentTypes DEF tx, TypeOK, Metas
<1>1. ASSUME NEW p \in Pages, RewriteInPlace(p) PROVE TypeOK'
  <2>1. tree' \in Trees
    BY <1>0, <1>1 DEF RewriteInPlace, TypeOK, Trees
  <2>2. /\ now' \in [Pages -> Contents] /\ maybe' \in [Pages -> SUBSET Contents]
        /\ slot' = slot /\ slotMaybe' = slotMaybe
    BY <1>0, <1>1, WritePagesType DEF RewriteInPlace
  <2>. QED  BY <1>1, <2>1, <2>2 DEF RewriteInPlace, TypeOK, mem, list, hist
<1>2. ASSUME NEW p \in Pages, Shrink(p) PROVE TypeOK'
  <2>1. tree' \in Trees
    BY <1>2 DEF Shrink, TypeOK, Trees
  <2>2. /\ ready' \in SUBSET Pages /\ freeing' \in SUBSET Pages
        /\ twice' \in SUBSET Pages /\ seen' \in SUBSET Pages
    BY <1>2 DEF Shrink, TypeOK, FreeToReady, FreeToFreeing, FreeTwice, Unseen
  <2>. QED  BY <1>2, <2>1, <2>2 DEF Shrink, TypeOK, disk, mem, hist
<1>3. ASSUME NEW q \in Pages, Grow(q) PROVE TypeOK'
  <2>1. tree' \in Trees
    BY <1>0, <1>3 DEF Grow, TypeOK, Trees
  <2>2. /\ now' \in [Pages -> Contents] /\ maybe' \in [Pages -> SUBSET Contents]
        /\ slot' = slot /\ slotMaybe' = slotMaybe
    BY <1>0, <1>3, WritePagesType DEF Grow
  <2>3. /\ ready' \in SUBSET Pages /\ seen' \in SUBSET Pages /\ meta' \in Metas
        /\ pending' \in [Pages -> Nat] /\ taken' \in SUBSET Pages
    <3>1. Allocate(q, {})
      BY <1>3 DEF Grow
    <3>. QED  BY <3>1, AllocateType
  <2>. QED  BY <1>3, <2>1, <2>2, <2>3 DEF Grow, TypeOK, hist
<1>4. ASSUME NEW p \in Pages, NEW q \in Pages, NEW c \in Contents, PlaceCopy(p, q, c)
      PROVE  /\ now' \in [Pages -> Contents] /\ maybe' \in [Pages -> SUBSET Contents]
             /\ slot' = slot /\ slotMaybe' = slotMaybe
             /\ ready' \in SUBSET Pages /\ seen' \in SUBSET Pages /\ meta' \in Metas
             /\ pending' \in [Pages -> Nat] /\ taken' \in SUBSET Pages
             /\ freeing' \in SUBSET Pages /\ twice' \in SUBSET Pages
             /\ UNCHANGED <<nextMeta, committed, chain, snap, next, hist>>
  <2>1. Allocate(q, {p}) /\ WritePages({q}, c)
    BY <1>4 DEF PlaceCopy
  <2>2. /\ freeing' \in SUBSET Pages /\ twice' \in SUBSET Pages
        /\ UNCHANGED <<nextMeta, committed, chain, snap, next, hist>>
    BY <1>4 DEF PlaceCopy, TypeOK, FreeToFreeing, FreeTwice, Unseen
  <2>. QED  BY <2>1, <2>2, AllocateType, WritePagesType
<1>5. ASSUME NEW p \in Pages, NEW q \in Pages, Copy(p, q) PROVE TypeOK'
  <2>1. PlaceCopy(p, q, Node(tx)) /\ UNCHANGED pc
    BY <1>5 DEF Copy
  <2>2. tree' \in Trees
    BY <1>0, <1>5 DEF Copy, TypeOK, Trees
  <2>. QED  BY <1>0, <1>4, <2>1, <2>2 DEF TypeOK, hist
<1>6. ASSUME NEW p \in Pages, NEW q \in Pages, WriteFails(p, q) PROVE TypeOK'
  <2>1. PlaceCopy(p, q, Torn) /\ pc' = "failed" /\ UNCHANGED tree
    BY <1>6 DEF WriteFails
  <2>. QED  BY <1>0, <1>4, <2>1 DEF TypeOK, hist, PCs
<1>7. ASSUME NEW p \in Pages, PlaceRefused(p) PROVE TypeOK'
  BY <1>7 DEF PlaceRefused, TypeOK, disk, mem, hist, FreeToFreeing, FreeTwice, Unseen, PCs
<1>. QED  BY <1>1, <1>2, <1>3, <1>5, <1>6, <1>7 DEF Work, Failure

\* Commit keeps the types.
LEMMA CommitType == TypeOK /\ Commit => TypeOK'
<1> SUFFICES ASSUME TypeOK, Commit PROVE TypeOK'
  OBVIOUS
<1>0. tx \in Nat /\ List(tx) \in Contents
  BY ContentTypes DEF tx, TypeOK, Metas
<1>1. ASSUME RollFreed
      PROVE  /\ freeing' \in SUBSET Pages /\ seen' \in SUBSET Pages
             /\ twice' \in SUBSET Pages /\ pending' \in [Pages -> Nat]
             /\ UNCHANGED <<nextMeta, committed, chain, tree, snap, hist>>
  BY <1>0, <1>1 DEF RollFreed, TypeOK, FreeTwice, Unseen, Rolled
<1>2. Takeable \in SUBSET Pages /\ Waiting \in SUBSET Pages
  BY DEF Takeable, Waiting, Promoted, Promotable, PendingPages, FreeToReady, Unseen, TypeOK
<1>3. CASE CommitList
  <2>1. PICK from \in SUBSET Takeable, grown \in 0 .. (MaxPages - meta.count) :
          LET end    == meta.count + grown
              taking == from \cup {p \in Pages : p >= meta.count /\ p < end}
          IN  /\ ready' = Takeable \ from
              /\ taken' = taken \cup taking
              /\ meta' = [meta EXCEPT !.count = end]
              /\ WritePages(taking, List(tx))
              /\ next' = CommittedMeta((Takeable \ from) \cup Waiting, taking, end)
    BY <1>3 DEF CommitList, TakeListPages
  <2> DEFINE end    == meta.count + grown
             taking == from \cup {p \in Pages : p >= meta.count /\ p < end}
  <2>2. end \in 2 .. MaxPages
    BY MaxPagesAssumption DEF TypeOK, Metas
  <2>3. taking \in SUBSET Pages
    BY <1>2
  <2>4. meta' \in Metas
    BY <2>1, <2>2 DEF TypeOK, Metas
  <2>5. next' \in Metas
    BY <1>0, <1>2, <2>1, <2>2, <2>3 DEF CommittedMeta, TypeOK, Metas
  <2>6. /\ now' \in [Pages -> Contents] /\ maybe' \in [Pages -> SUBSET Contents]
        /\ slot' = slot /\ slotMaybe' = slotMaybe
    BY <1>0, <2>1, WritePagesType
  <2>7. ready' \in SUBSET Pages /\ taken' \in SUBSET Pages
    BY <1>2, <2>1, <2>3 DEF TypeOK
  <2>8. RollFreed /\ pc' = "written"
    BY <1>3 DEF CommitList
  <2>. QED  BY <1>1, <2>4, <2>5, <2>6, <2>7, <2>8 DEF TypeOK, hist, PCs
<1>4. CASE CommitRefused
  <2>1. [meta EXCEPT !.count = MaxPages] \in Metas
    BY MaxPagesAssumption DEF TypeOK, Metas
  <2>2. taken' \in SUBSET Pages /\ meta' \in Metas /\ RollFreed
        /\ UNCHANGED <<disk, next>> /\ pc' \in PCs /\ ready' \in SUBSET Pages
    BY <1>2, <1>4, <2>1 DEF CommitRefused, ListRefused, AfterError, TakeListPages, TypeOK, PCs
  <2>. QED  BY <1>1, <2>2 DEF TypeOK, hist, disk
<1>5. CASE CommitSync
  BY <1>5, SyncType DEF CommitSync, TypeOK, mem, list, hist, PCs
<1>6. CASE CommitSyncFails
  BY <1>6, MetaTypes DEF CommitSyncFails, AfterError, TypeOK, disk, mem, list, hist, PCs
<1>7. CASE CommitMeta
  <2>1. writeMeta(nextMeta, next) /\ pc' = "meta"
        /\ UNCHANGED <<mem, list, tree, snap, next, hist>>
    BY <1>7 DEF CommitMeta
  <2>2. nextMeta \in Slots /\ next \in Metas
    BY DEF TypeOK
  <2>. QED  BY <2>1, <2>2, WriteMetaType DEF TypeOK, mem, list, hist, PCs
<1>8. CASE CommitDone
  <2>1. Other(nextMeta) \in Slots
    BY OtherIsSlot DEF TypeOK
  <2>2. next.count \in 2 .. MaxPages /\ next.chain \in SUBSET Pages /\ next.txid \in Nat
    BY DEF TypeOK, Metas
  <2>. QED  BY <1>8, <2>1, <2>2, SyncType, MetaTypes DEF CommitDone, TypeOK, PCs
<1>. QED  BY <1>3, <1>4, <1>5, <1>6, <1>7, <1>8 DEF Commit

\* A crash leaves every page with something in it.
LEMMA FalloutType == TypeOK => Fallout \subseteq [Pages -> Contents]
<1> SUFFICES ASSUME TypeOK PROVE Fallout \subseteq [Pages -> Contents]
  OBVIOUS
<1>1. now \in [Pages -> Contents] /\ Torn \in Contents
  BY DEF TypeOK, Torn, Contents
<1>2. UNION {maybe[p] : p \in Pages} \subseteq Contents
  BY DEF TypeOK
<1>. QED  BY <1>1, <1>2 DEF Fallout

\* Creating, opening, rolling back, closing and crashing keep the types.
LEMMA LifetimeType == TypeOK /\ (Lifetime \/ Rollback \/ Kill \/ Hold) => TypeOK'
<1> SUFFICES ASSUME TypeOK, Lifetime \/ Rollback \/ Kill \/ Hold PROVE TypeOK'
  OBVIOUS
<1>1. CASE Create
  <2>1. FirstMeta.count \in 2 .. MaxPages
    BY MetaTypes DEF Metas
  <2>. QED  BY <1>1, <2>1, MetaTypes DEF Create, TypeOK, Slots, list, hist, PCs
<1>2. CASE CreateDone
  BY <1>2, SyncType DEF CreateDone, TypeOK, mem, list, PCs
<1>3. CASE Open
  <2>1. Chosen(slot[0], slot[1]).txid \in Nat
    <3>1. Chosen(slot[0], slot[1]) \in Metas
      BY ChosenIsOne DEF TypeOK, Slots
    <3>. QED  BY <3>1 DEF Metas
  <2>. QED  BY <1>3, <2>1, LoadType, MetaTypes DEF Open, TypeOK, disk
<1>4. CASE Rollback
  BY <1>4, LoadType DEF Rollback, TypeOK, disk
<1>5. CASE Recreate
  BY <1>5 DEF Recreate, TypeOK, disk, mem, list, hist, PCs
<1>6. CASE Close
  <2>1. [meta EXCEPT !.clean = TRUE] \in Metas /\ meta.txid \in Nat /\ nextMeta \in Slots
    BY DEF TypeOK, Metas
  <2>2. CASE writeMeta(nextMeta, [meta EXCEPT !.clean = TRUE])
    BY <1>6, <2>1, <2>2, WriteMetaType DEF Close, TypeOK, mem, list, PCs
  <2>3. CASE UNCHANGED disk
    BY <1>6, <2>1, <2>3 DEF Close, TypeOK, disk, mem, list, PCs
  <2>. QED  BY <1>6, <2>2, <2>3 DEF Close
<1>7. CASE CloseDone
  <2>1. Forget /\ pc' = "down" /\ UNCHANGED hist /\ (Sync \/ UNCHANGED disk)
    BY <1>7 DEF CloseDone
  <2>. QED  BY <2>1, ForgetType, SyncType DEF TypeOK, disk, hist, PCs
<1>8. CASE Crash
  <2>1. /\ now' \in [Pages -> Contents]
        /\ maybe' \in [Pages -> SUBSET Contents]
    <3>1. PICK rest \in Fallout : now' = rest /\ maybe' = [p \in Pages |-> {rest[p]}]
      BY <1>8 DEF Crash
    <3>. QED  BY <3>1, FalloutType
  <2>2. /\ slot' \in [Slots -> Metas]
        /\ slotMaybe' \in [Slots -> SUBSET Metas]
    BY <1>8 DEF Crash, TypeOK, Slots
  <2>3. Forget /\ pc' = "down" /\ UNCHANGED hist
    BY <1>8 DEF Crash
  <2>. QED  BY <2>1, <2>2, <2>3, ForgetType DEF TypeOK, hist, PCs
<1>9. CASE Kill
  BY <1>9, ForgetType DEF Kill, TypeOK, hist, disk, PCs
<1>10. CASE Hold
  BY <1>10, MetaTypes DEF Hold, Snapshot, Release, TypeOK, disk, mem, list, hist
<1>. QED  BY <1>1, <1>2, <1>3, <1>4, <1>5, <1>6, <1>7, <1>8, <1>9, <1>10 DEF Lifetime

\* No step takes a variable out of its type, whatever the callers do.
LEMMA NextType == TypeOK /\ [Next]_vars => TypeOK'
<1> SUFFICES ASSUME TypeOK, [Next]_vars PROVE TypeOK'
  OBVIOUS
<1>1. CASE CarryOn
  BY <1>1 DEF CarryOn, TypeOK, disk, mem, list, hist, PCs
<1>2. CASE CommitDoneFails
  BY <1>2, MetaTypes DEF CommitDoneFails, AfterError, TypeOK, disk, mem, list, hist, PCs
<1>3. CASE Next /\ ~CarryOn /\ ~CommitDoneFails
  BY <1>3, WorkType, CommitType, LifetimeType DEF Next
<1>4. CASE UNCHANGED vars
  BY <1>4 DEF vars, disk, mem, list, hist, TypeOK
<1>. QED  BY <1>1, <1>2, <1>3, <1>4

\* Every state the pager reaches is well typed, whatever its callers do after a
\* failure, in particular PageCount never passes the quota and every page on a
\* list is a data page.
THEOREM TypeCorrect == Spec => []TypeOK
<1>1. Init => TypeOK
  BY InitType
<1>2. TypeOK /\ [Next]_vars => TypeOK'
  BY NextType
<1>. QED  BY <1>1, <1>2, PTL DEF Spec


-----------------------------------------------------------------------------
(* The inductive invariant: what the steps of a transaction preserve.      *)

\* A step of an open file that leaves the meta pages alone, and the meta in
\* memory but for its count, leaves the committed state where it was.
LEMMA SlotFrame ==
    ASSUME IInv, pc = "idle", pc' \in {"idle", "failed", "written"},
           UNCHANGED <<slot, slotMaybe, nextMeta, acked>>, Same(meta', meta)
    PROVE  SlotsSettled' /\ SlotsInDoubt' /\ OtherSlot' /\ AckedBehind'
<1>1. Base = meta /\ Base' = meta'
  BY DEF Base, Up
<1>2. \A m : Behind(m, meta) <=> Behind(m, meta')
  BY DEF Behind, Same
<1>3. SlotsSettled'
  BY <1>1, <1>2 DEF IInv, SlotsSettled, Same, Behind, Fits
<1>4. OtherSlot'
  BY DEF IInv, OtherSlot, Up, Same, Other
<1>5. AckedBehind'
  BY <1>1 DEF IInv, AckedBehind, Same
<1>6. SlotsInDoubt'
  BY DEF IInv, SlotsInDoubt, Same
<1>. QED  BY <1>3, <1>4, <1>5, <1>6

\* Writing pages that are not part of the committed state does not hurt it.
LEMMA WriteFrame ==
    ASSUME IInv, Up, Up', Same(meta', meta), NEW ps \in SUBSET Pages, NEW c \in Contents,
           WritePages(ps, c), ps \cap (PagesOf(meta.tree) \cup meta.chain) = {}
    PROVE  Truthful' /\ BaseSafe'
<1>1. Base = meta /\ Base' = meta'
  BY DEF Base
<1>2. Truthful'
  BY DEF IInv, Truthful, WritePages, Slots
<1>3. BaseSafe'
  <2>1. Safe(meta)
    BY <1>1 DEF IInv, BaseSafe
  <2>2. \A p \in PagesOf(meta.tree) \cup meta.chain : p \in Pages /\ maybe'[p] = maybe[p]
    BY DEF WritePages, PagesOf, IInv, TypeOK, Metas
  <2>3. Safe(meta)'
    BY <2>1, <2>2 DEF Safe, Same, PagesOf, Node, List
  <2>. QED  BY <1>1, <2>3 DEF BaseSafe
<1>. QED  BY <1>2, <1>3

\* The page Allocate hands out is nobody's: not of the committed state, not
\* of the tree, not of a snapshot, and no longer on any list.
LEMMA AllocateFacts ==
    ASSUME IInv, pc = "idle", NEW q \in Pages, NEW ps \in SUBSET Pages, Allocate(q, ps)
    PROVE  /\ q \notin PagesOf(meta.tree) \cup meta.chain \cup PagesOf(tree)
           /\ q \notin freeing
           /\ \A r \in held : q \notin PagesOf(snap[r].tree)
           /\ Promoted \cap (PagesOf(meta.tree) \cup meta.chain \cup PagesOf(tree) \cup freeing) = {}
           /\ \A r \in held : Promoted \cap PagesOf(snap[r].tree) = {}
           /\ Same(meta', meta) /\ meta.count <= meta'.count /\ q < meta'.count
           /\ ready' \subseteq Promoted /\ q \notin ready'
           /\ \A p \in Pages : pending'[p] = IF p \in Promotable THEN 0 ELSE pending[p]
           /\ pending'[q] = 0
           /\ ready' \cap PendingPages' = {}
           /\ taken' = taken \cup {q}
           /\ (seen \cup ps) \ {q} \subseteq seen'
<1>1. Up /\ TypeOK
  BY DEF Up, IInv
<1>2. /\ \A p \in PagesOf(meta.tree) \cup meta.chain : p \notin Promoted /\ p < meta.count
      /\ \A p \in PagesOf(tree) : p \notin Promoted /\ p < meta.count
      /\ \A p \in freeing : p \notin Promoted /\ p < meta.count
  <2>1. \A p \in PagesOf(meta.tree) \cup meta.chain : p \notin Promoted /\ p < meta.count
    <3> SUFFICES ASSUME NEW p \in PagesOf(meta.tree) \cup meta.chain
                 PROVE  p \notin Promoted /\ p < meta.count
      OBVIOUS
    <3>1. p \in Pages /\ pending[p] \in Nat /\ meta.txid \in Nat
          /\ meta.count \in Nat /\ committed \in Nat
      BY <1>1 DEF PagesOf, TypeOK, Metas
    <3>2. p \notin ready /\ (pending[p] = 0 \/ pending[p] > meta.txid)
      BY <1>1 DEF IInv, Protected
    <3>3. p < committed /\ committed <= meta.count
      BY <1>1 DEF IInv, Counts
    <3>. QED  BY <3>1, <3>2, <3>3 DEF Promoted, Promotable, PendingPages, Pages
  <2>2. \A p \in PagesOf(tree) : p \notin Promoted /\ p < meta.count
    BY <1>1 DEF IInv, Working, Counts, Promoted, Promotable, Listed
  <2>3. \A p \in freeing : p \notin Promoted /\ p < meta.count
    BY <1>1 DEF IInv, ListsApart, Counts, Promoted, Promotable, Listed
  <2>. QED  BY <2>1, <2>2, <2>3
<1>3. \A r \in held : \A p \in PagesOf(snap[r].tree) : p \notin Promoted /\ p < meta.count
  <2> SUFFICES ASSUME NEW r \in held, NEW p \in PagesOf(snap[r].tree)
               PROVE  p \notin Promoted /\ p < meta.count
    OBVIOUS
  <2>1. /\ p \notin ready /\ p < committed /\ p \in Pages
        /\ pending[p] = 0 \/ pending[p] > snap[r].txid
    BY DEF IInv, Snapshots, PagesOf
  <2>2. snap[r].txid \in Nat /\ pending[p] \in Nat /\ committed \in Nat /\ meta.count \in Nat
    BY <1>1, <2>1 DEF TypeOK, Metas, held
  <2>3. p \notin Promotable
    BY <2>1, <2>2 DEF Promotable, PendingPages
  <2>. QED  BY <1>1, <2>1, <2>2, <2>3, MaxPagesAssumption DEF IInv, Counts, Promoted, Pages
<1>4. q \in Promoted \/ q = meta.count
  BY DEF Allocate
<1>5. /\ q \notin PagesOf(meta.tree) \cup meta.chain \cup PagesOf(tree)
      /\ q \notin freeing
      /\ \A r \in held : q \notin PagesOf(snap[r].tree)
  <2>1. meta.count \in Nat
    BY <1>1 DEF TypeOK, Metas
  <2>. QED  BY <1>2, <1>3, <1>4, <2>1
<1>6. Same(meta', meta) /\ meta.count <= meta'.count /\ q < meta'.count
  <2>1. CASE q \in Promoted /\ meta' = meta
    BY <1>1, <2>1 DEF Same, IInv, Counts, Listed, Promoted, Promotable, TypeOK, Metas
  <2>2. CASE q = meta.count /\ meta' = [meta EXCEPT !.count = @ + 1]
    BY <1>1, <2>2 DEF Same, TypeOK, Metas
  <2>. QED  BY <2>1, <2>2 DEF Allocate
<1>7. twice = {}
  BY <1>1 DEF IInv, ListsApart
<1>8. ready' \subseteq Promoted /\ q \notin ready'
  BY <1>7 DEF Allocate
<1>9. \A p \in Pages : pending'[p] = IF p \in Promotable THEN 0 ELSE pending[p]
  BY DEF Allocate, StillPending
<1>10. pending'[q] = 0
  <2>1. q \in ready => pending[q] = 0
    BY <1>1 DEF IInv, ListsApart, PendingPages
  <2>2. q = meta.count => pending[q] = 0
    BY <1>1 DEF IInv, Counts, Listed, PendingPages, TypeOK, Metas
  <2>. QED  BY <1>4, <1>9, <2>1, <2>2 DEF Promoted
<1>11. ready' \cap PendingPages' = {}
  BY <1>1, <1>8, <1>9 DEF PendingPages, Promoted, IInv, ListsApart
<1>12. taken' = taken \cup {q} /\ (seen \cup ps) \ {q} \subseteq seen'
  BY DEF Allocate
<1>. QED  BY <1>2, <1>3, <1>5, <1>6, <1>8, <1>9, <1>10, <1>11, <1>12


\* Everything but the tree is in order after a page was freed, another one
\* allocated and the latter written, whether or not the write worked.
LEMMA PlaceStep ==
    ASSUME IInv, TypeOK', pc = "idle", pc' \in {"idle", "failed"},
           NEW q \in Pages, NEW ps \in SUBSET PagesOf(tree), NEW x \in SUBSET ps,
           NEW c \in Contents,
           Allocate(q, ps), WritePages({q}, c), freeing' = freeing \cup x, twice' = {},
           UNCHANGED <<nextMeta, committed, chain, snap, next, hist>>,
           PagesOf(tree') \subseteq PagesOf(tree) \cup {q}
    PROVE  /\ SlotsSettled' /\ SlotsInDoubt' /\ Truthful' /\ BaseSafe' /\ OtherSlot'
           /\ Counts' /\ Protected' /\ Freed' /\ ListsApart' /\ Snapshots'
           /\ Prepared' /\ Durable' /\ AckedBehind' /\ Empty'
<1>1. Up /\ Up' /\ TypeOK /\ ps \in SUBSET Pages /\ tx \in Nat
  BY DEF Up, IInv, PagesOf, tx, TypeOK, Metas
<1>2. /\ q \notin PagesOf(meta.tree) \cup meta.chain \cup PagesOf(tree)
      /\ q \notin freeing
      /\ \A r \in held : q \notin PagesOf(snap[r].tree)
      /\ Promoted \cap (PagesOf(meta.tree) \cup meta.chain \cup PagesOf(tree) \cup freeing) = {}
      /\ \A r \in held : Promoted \cap PagesOf(snap[r].tree) = {}
      /\ Same(meta', meta) /\ meta.count <= meta'.count /\ q < meta'.count
      /\ ready' \subseteq Promoted /\ q \notin ready'
      /\ \A p \in Pages : pending'[p] = IF p \in Promotable THEN 0 ELSE pending[p]
      /\ pending'[q] = 0
      /\ ready' \cap PendingPages' = {}
      /\ taken' = taken \cup {q}
      /\ (seen \cup ps) \ {q} \subseteq seen'
  BY <1>1, AllocateFacts
<1>3. PendingPages' \subseteq PendingPages
  BY <1>2 DEF PendingPages
<1>4. SlotsSettled' /\ SlotsInDoubt' /\ OtherSlot' /\ AckedBehind'
  BY <1>2, SlotFrame DEF WritePages, hist
<1>5. Truthful' /\ BaseSafe'
  BY <1>1, <1>2, WriteFrame
<1>6. Counts'
  <2>1. committed' <= meta'.count
    BY <1>1, <1>2 DEF IInv, Counts, TypeOK, Metas
  <2>2. \A p \in PagesOf(meta'.tree) \cup meta'.list \cup meta'.chain : p < committed'
    BY <1>1, <1>2 DEF IInv, Counts, Same
  <2>3. chain' = meta'.chain
    BY <1>1, <1>2 DEF IInv, Counts, Same
  <2>4. \A p \in PagesOf(tree') \cup Listed' \cup taken' : p < meta'.count
    <3>1. \A p \in PagesOf(tree') \cup Listed' \cup taken' :
             p \in PagesOf(tree) \cup Listed \cup taken \cup {q}
      BY <1>2, <1>3 DEF Listed, Promoted, Promotable
    <3>2. \A p \in PagesOf(tree) \cup Listed \cup taken : p \in Pages /\ p < meta.count
      BY <1>1 DEF IInv, Counts, PagesOf, Listed, PendingPages, TypeOK
    <3>3. meta.count \in Nat /\ meta'.count \in Nat
      BY <1>1 DEF TypeOK, Metas
    <3>. QED  BY <1>2, <3>1, <3>2, <3>3 DEF Pages
  <2>. QED  BY <2>1, <2>2, <2>3, <2>4 DEF Counts, PagesOf, Listed, PendingPages
<1>7. Protected'
  <2> SUFFICES ASSUME NEW p \in PagesOf(meta'.tree) \cup meta'.chain
               PROVE  /\ p \notin ready' /\ p \notin taken'
                      /\ pending'[p] = 0 \/ pending'[p] > meta'.txid
    BY DEF Protected, PagesOf
  <2>1. p \in PagesOf(meta.tree) \cup meta.chain /\ p \in Pages
    BY <1>1, <1>2 DEF Same, PagesOf, TypeOK, Metas
  <2>2. p \notin taken /\ (pending[p] = 0 \/ pending[p] > meta.txid)
    BY <1>1, <2>1 DEF IInv, Protected
  <2>. QED  BY <1>2, <2>1, <2>2 DEF Same
<1>8. Freed'
  <2>1. tx' = tx
    BY <1>2 DEF tx, Same
  <2>2. freeing' \subseteq seen'
    BY <1>1, <1>2 DEF IInv, Freed
  <2>3. \A p \in Pages : pending'[p] <= tx
    BY <1>1, <1>2 DEF IInv, Freed, TypeOK
  <2>4. \A p \in Pages : pending'[p] = tx => p \in seen'
    <3> SUFFICES ASSUME NEW p \in Pages, pending'[p] = tx PROVE p \in seen'
      OBVIOUS
    <3>1. tx # 0
      BY <1>1 DEF tx, TypeOK, Metas
    <3>2. p # q /\ pending[p] = tx
      BY <1>2, <3>1
    <3>. QED  BY <1>1, <1>2, <3>2 DEF IInv, Freed
  <2>. QED  BY <2>1, <2>2, <2>3, <2>4 DEF Freed
<1>9. ListsApart'
  <2>1. x \cap PendingPages = {} /\ x \cap chain = {}
    BY DEF IInv, Working, Listed
  <2>. QED  BY <1>1, <1>2, <1>3, <2>1 DEF IInv, ListsApart
<1>10. Snapshots'
  <2>1. held' = held
    BY DEF held, Readable
  <2> SUFFICES ASSUME NEW r \in held
               PROVE  /\ snap[r].txid <= meta'.txid
                      /\ \A p \in PagesOf(snap[r].tree) :
                            /\ now'[p] = Node(snap[r].tree[p])
                            /\ p \notin ready' /\ p \notin taken' /\ p < committed'
                            /\ pending'[p] = 0 \/ pending'[p] > snap[r].txid
    BY <1>1, <2>1 DEF Snapshots, PagesOf, Node
  <2>2. snap[r].txid <= meta'.txid
    BY <1>2 DEF IInv, Snapshots, Same
  <2> SUFFICES ASSUME NEW p \in PagesOf(snap[r].tree)
               PROVE  /\ now'[p] = Node(snap[r].tree[p])
                      /\ p \notin ready' /\ p \notin taken' /\ p < committed'
                      /\ pending'[p] = 0 \/ pending'[p] > snap[r].txid
    BY <2>2
  <2>3. /\ now[p] = Node(snap[r].tree[p])
        /\ p \notin taken /\ p < committed
        /\ pending[p] = 0 \/ pending[p] > snap[r].txid
    BY DEF IInv, Snapshots
  <2>4. p \in Pages /\ p # q
    BY <1>2 DEF PagesOf
  <2>5. now'[p] = now[p]
    BY <2>4 DEF WritePages
  <2>. QED  BY <1>2, <2>3, <2>4, <2>5
<1>11. Prepared' /\ Durable' /\ Empty'
  BY DEF Prepared, Durable, Empty
<1>. QED  BY <1>4, <1>5, <1>6, <1>7, <1>8, <1>9, <1>10, <1>11

\* A page of the tree is on no list, so freeing it lists nothing twice.
LEMMA FreeOnce ==
    ASSUME IInv, pc = "idle", NEW p \in PagesOf(tree)
    PROVE  FreeTwice({p}) = {} /\ twice = {}
BY DEF IInv, Working, ListsApart, Up, FreeTwice, Unseen

\* Placing a page keeps the invariant.
LEMMA CopyInv == ASSUME IInv, NEW p \in Pages, NEW q \in Pages, Copy(p, q)  PROVE IInv'
<1>1. TypeOK'
  <2>1. Work
    BY DEF Work
  <2>. QED  BY <2>1, WorkType DEF IInv
<1>2. pc = "idle" /\ pc' = "idle" /\ p \in PagesOf(tree) /\ ~Dirty(p) /\ tx \in Nat
  BY DEF Copy, PlaceCopy, tx, IInv, TypeOK, Metas
<1>3. /\ Allocate(q, {p}) /\ WritePages({q}, Node(tx))
      /\ freeing' = freeing \cup FreeToFreeing({p})
      /\ UNCHANGED <<nextMeta, committed, chain, snap, next, hist>>
  BY DEF Copy, PlaceCopy
<1>4. twice' = {}
  BY <1>2, FreeOnce DEF Copy, PlaceCopy
<1>5. tree' = [tree EXCEPT ![p] = 0, ![q] = tx] /\ tree \in Trees
  BY DEF Copy, IInv, TypeOK
<1>6. /\ q \notin PagesOf(tree) /\ Same(meta', meta)
      /\ ready' \subseteq Promoted /\ q \notin ready' /\ pending'[q] = 0
      /\ \A i \in Pages : pending'[i] = IF i \in Promotable THEN 0 ELSE pending[i]
      /\ Promoted \cap PagesOf(tree) = {} /\ taken' = taken \cup {q}
      /\ q \notin freeing /\ q \notin meta.chain
  BY <1>2, <1>3, AllocateFacts
<1>7. PagesOf(tree') = (PagesOf(tree) \ {p}) \cup {q}
  <2>1. tx # 0
    BY <1>2 DEF tx, IInv, TypeOK, Metas
  <2>. QED  BY <1>2, <1>5, <1>6, <2>1 DEF PagesOf, Trees
<1>8. FreeToFreeing({p}) \subseteq {p}
  BY DEF FreeToFreeing, Unseen
<1>9. /\ SlotsSettled' /\ SlotsInDoubt' /\ Truthful' /\ BaseSafe' /\ OtherSlot'
      /\ Counts' /\ Protected' /\ Freed' /\ ListsApart' /\ Snapshots'
      /\ Prepared' /\ Durable' /\ AckedBehind' /\ Empty'
  BY <1>1, <1>2, <1>3, <1>4, <1>7, <1>8, ContentTypes, PlaceStep
<1>10. Working'
  <2>1. \A i \in PagesOf(tree') : now'[i] = Node(tree'[i]) /\ (Dirty(i)' \/ tree'[i] = meta'.tree[i])
    <3> SUFFICES ASSUME NEW i \in PagesOf(tree')
                 PROVE  now'[i] = Node(tree'[i]) /\ (Dirty(i)' \/ tree'[i] = meta'.tree[i])
      OBVIOUS
    <3>1. CASE i = q
      BY <1>3, <1>5, <1>6, <3>1 DEF WritePages, Dirty, Trees
    <3>2. CASE i # q
      <4>1. i \in PagesOf(tree) /\ i # p /\ i \in Pages
        BY <1>7, <3>2 DEF PagesOf
      <4>2. now'[i] = now[i] /\ tree'[i] = tree[i]
        BY <1>3, <1>5, <3>2, <4>1 DEF WritePages, Trees
      <4>. QED  BY <1>2, <1>3, <1>6, <4>1, <4>2 DEF IInv, Working, Dirty, Same
    <3>. QED  BY <3>1, <3>2
  <2>2. PagesOf(tree') \cap Listed' = {}
    BY <1>2, <1>3, <1>6, <1>7, <1>8 DEF IInv, Working, Listed, PendingPages
  <2>3. PagesOf(tree') \cap chain' = {}
    <3>1. chain = meta.chain
      BY <1>2 DEF IInv, Counts, Up
    <3>. QED  BY <1>2, <1>3, <1>6, <1>7, <3>1 DEF IInv, Working
  <2>. QED  BY <2>1, <2>2, <2>3 DEF Working, PagesOf, Listed, PendingPages
<1>. QED  BY <1>1, <1>9, <1>10 DEF IInv


\* Adding a page keeps the invariant.
LEMMA GrowInv == ASSUME IInv, NEW q \in Pages, Grow(q)  PROVE IInv'
<1>1. TypeOK'
  <2>1. Work
    BY DEF Work
  <2>. QED  BY <2>1, WorkType DEF IInv
<1>2. pc = "idle" /\ pc' = "idle" /\ tx \in Nat /\ tx # 0
  BY DEF Grow, tx, IInv, TypeOK, Metas
<1>3. /\ Allocate(q, {}) /\ WritePages({q}, Node(tx)) /\ freeing' = freeing
      /\ UNCHANGED <<nextMeta, committed, chain, snap, next, hist>>
  BY DEF Grow
<1>4. twice' = {}
  BY <1>2 DEF Grow, IInv, ListsApart, Up
<1>5. tree' = [tree EXCEPT ![q] = tx] /\ tree \in Trees
  BY DEF Grow, IInv, TypeOK
<1>6. /\ q \notin PagesOf(tree) /\ Same(meta', meta)
      /\ ready' \subseteq Promoted /\ q \notin ready' /\ pending'[q] = 0
      /\ \A i \in Pages : pending'[i] = IF i \in Promotable THEN 0 ELSE pending[i]
      /\ Promoted \cap PagesOf(tree) = {} /\ taken' = taken \cup {q}
      /\ q \notin freeing /\ q \notin meta.chain
  BY <1>2, <1>3, AllocateFacts
<1>7. PagesOf(tree') = PagesOf(tree) \cup {q}
  BY <1>2, <1>5, <1>6 DEF PagesOf, Trees
<1>8. freeing' = freeing \cup {}
  BY <1>3
<1>9. /\ SlotsSettled' /\ SlotsInDoubt' /\ Truthful' /\ BaseSafe' /\ OtherSlot'
      /\ Counts' /\ Protected' /\ Freed' /\ ListsApart' /\ Snapshots'
      /\ Prepared' /\ Durable' /\ AckedBehind' /\ Empty'
  BY <1>1, <1>2, <1>3, <1>4, <1>7, <1>8, ContentTypes, PlaceStep
<1>10. Working'
  <2>1. \A i \in PagesOf(tree') : now'[i] = Node(tree'[i]) /\ (Dirty(i)' \/ tree'[i] = meta'.tree[i])
    <3> SUFFICES ASSUME NEW i \in PagesOf(tree')
                 PROVE  now'[i] = Node(tree'[i]) /\ (Dirty(i)' \/ tree'[i] = meta'.tree[i])
      OBVIOUS
    <3>1. CASE i = q
      BY <1>3, <1>5, <1>6, <3>1 DEF WritePages, Dirty, Trees
    <3>2. CASE i # q
      <4>1. i \in PagesOf(tree) /\ i \in Pages
        BY <1>7, <3>2 DEF PagesOf
      <4>2. now'[i] = now[i] /\ tree'[i] = tree[i]
        BY <1>3, <1>5, <3>2, <4>1 DEF WritePages, Trees
      <4>. QED  BY <1>2, <1>3, <1>6, <4>1, <4>2 DEF IInv, Working, Dirty, Same
    <3>. QED  BY <3>1, <3>2
  <2>2. PagesOf(tree') \cap Listed' = {}
    BY <1>2, <1>3, <1>6, <1>7 DEF IInv, Working, Listed, PendingPages
  <2>3. PagesOf(tree') \cap chain' = {}
    <3>1. chain = meta.chain
      BY <1>2 DEF IInv, Counts, Up
    <3>. QED  BY <1>2, <1>3, <1>6, <1>7, <3>1 DEF IInv, Working
  <2>. QED  BY <2>1, <2>2, <2>3 DEF Working, PagesOf, Listed, PendingPages
<1>. QED  BY <1>1, <1>9, <1>10 DEF IInv

\* A write that fails leaves the tree in doubt and everything else in order.
LEMMA WriteFailsInv == ASSUME IInv, NEW p \in Pages, NEW q \in Pages, WriteFails(p, q)  PROVE IInv'
<1>1. TypeOK'
  <2>1. Failure
    BY DEF Failure
  <2>. QED  BY <2>1, WorkType DEF IInv
<1>2. pc = "idle" /\ pc' = "failed" /\ p \in PagesOf(tree) /\ Torn \in Contents
  BY DEF WriteFails, PlaceCopy, Torn, Contents
<1>3. /\ Allocate(q, {p}) /\ WritePages({q}, Torn)
      /\ freeing' = freeing \cup FreeToFreeing({p})
      /\ UNCHANGED <<nextMeta, committed, chain, snap, next, hist>>
  BY DEF WriteFails, PlaceCopy
<1>4. twice' = {}
  BY <1>2, FreeOnce DEF WriteFails, PlaceCopy
<1>5. FreeToFreeing({p}) \subseteq {p}
  BY DEF FreeToFreeing, Unseen
<1>6. PagesOf(tree') \subseteq PagesOf(tree) \cup {q}
  BY DEF WriteFails
<1>7. /\ SlotsSettled' /\ SlotsInDoubt' /\ Truthful' /\ BaseSafe' /\ OtherSlot'
      /\ Counts' /\ Protected' /\ Freed' /\ ListsApart' /\ Snapshots'
      /\ Prepared' /\ Durable' /\ AckedBehind' /\ Empty'
  BY <1>1, <1>2, <1>3, <1>4, <1>5, <1>6, PlaceStep
<1>8. Working'
  BY <1>2 DEF Working
<1>. QED  BY <1>1, <1>7, <1>8 DEF IInv

\* Freeing a page of the tree and writing nothing: what is left in order when
\* the page leaves the tree (Shrink), or when it does not (PlaceRefused).
LEMMA FreeStep ==
    ASSUME IInv, TypeOK', pc = "idle", pc' \in {"idle", "failed"}, NEW p \in PagesOf(tree),
           ready' \subseteq ready \cup FreeToReady({p}),
           freeing' = freeing \cup FreeToFreeing({p}),
           twice' = twice \cup FreeTwice({p}), seen' = seen \cup {p},
           UNCHANGED <<disk, mem, pending, chain, snap, next, hist>>,
           PagesOf(tree') \subseteq PagesOf(tree)
    PROVE  /\ SlotsSettled' /\ SlotsInDoubt' /\ Truthful' /\ BaseSafe' /\ OtherSlot'
           /\ Counts' /\ Protected' /\ Freed' /\ ListsApart' /\ Snapshots'
           /\ Prepared' /\ Durable' /\ AckedBehind' /\ Empty'
<1>1. Up /\ Up' /\ TypeOK /\ p \in Pages
  BY DEF Up, IInv, PagesOf
<1>2. /\ UNCHANGED <<now, maybe, slot, slotMaybe, meta, nextMeta, committed, taken, acked>>
      /\ UNCHANGED <<pending, chain, snap, next>>
  BY DEF disk, mem, hist
<1>3. SlotsSettled' /\ SlotsInDoubt' /\ OtherSlot' /\ AckedBehind'
  BY <1>2, SlotFrame DEF Same
<1>4. Truthful' /\ BaseSafe'
  BY <1>1, <1>2 DEF IInv, Truthful, BaseSafe, Safe, Base, PagesOf, Node, List
<1>5. FreeToReady({p}) \subseteq {p} /\ FreeToFreeing({p}) \subseteq {p} /\ twice' = {}
  BY FreeOnce DEF FreeToReady, FreeToFreeing, Unseen
<1>6. p < meta.count /\ p \notin Listed /\ p \notin chain
  BY <1>1 DEF IInv, Counts, Working
<1>7. p \in FreeToReady({p}) => Dirty(p)
  BY DEF FreeToReady
<1>8. Counts'
  BY <1>1, <1>2, <1>5, <1>6 DEF IInv, Counts, PagesOf, Listed, PendingPages
<1>9. Protected'
  <2> SUFFICES ASSUME NEW i \in PagesOf(meta.tree) \cup meta.chain
               PROVE  i \notin ready'
    BY <1>1, <1>2 DEF IInv, Protected, PagesOf
  <2>1. i \notin ready /\ i \notin taken /\ i < committed /\ i \in Pages /\ committed \in Nat
    BY <1>1 DEF IInv, Protected, Counts, PagesOf, TypeOK, Metas
  <2>2. ~Dirty(i)
    BY <2>1 DEF Dirty, Pages
  <2>. QED  BY <1>5, <1>7, <2>1, <2>2
<1>10. Freed'
  BY <1>1, <1>2, <1>5 DEF IInv, Freed, tx
<1>11. ListsApart'
  <2>1. PendingPages' = PendingPages
    BY <1>2 DEF PendingPages
  <2>2. FreeToReady({p}) \cap FreeToFreeing({p}) = {}
    BY DEF FreeToReady, FreeToFreeing
  <2>. QED  BY <1>1, <1>2, <1>5, <1>6, <2>1, <2>2 DEF IInv, ListsApart, Listed
<1>12. Snapshots'
  <2>1. held' = held
    BY <1>2 DEF held, Readable
  <2>2. \A r \in held : \A i \in PagesOf(snap[r].tree) : i \notin ready'
    <3> SUFFICES ASSUME NEW r \in held, NEW i \in PagesOf(snap[r].tree)
                 PROVE  i \notin ready'
      OBVIOUS
    <3>1. i \notin ready /\ i \notin taken /\ i < committed /\ i \in Pages /\ committed \in Nat
      BY <1>1 DEF IInv, Snapshots, PagesOf, TypeOK
    <3>2. ~Dirty(i)
      BY <3>1 DEF Dirty, Pages
    <3>. QED  BY <1>5, <1>7, <3>1, <3>2
  <2>. QED  BY <1>1, <1>2, <2>1, <2>2 DEF IInv, Snapshots, PagesOf, Node
<1>13. Prepared' /\ Durable' /\ Empty'
  BY DEF Prepared, Durable, Empty
<1>. QED  BY <1>3, <1>4, <1>8, <1>9, <1>10, <1>11, <1>12, <1>13

\* A place the quota refuses leaves a page freed and still in the tree, in a
\* transaction that can only be rolled back.
LEMMA PlaceRefusedInv == ASSUME IInv, NEW p \in Pages, PlaceRefused(p)  PROVE IInv'
<1>1. TypeOK'
  <2>1. Failure
    BY DEF Failure
  <2>. QED  BY <2>1, WorkType DEF IInv
<1>2. /\ pc = "idle" /\ pc' = "failed" /\ p \in PagesOf(tree)
      /\ ready' \subseteq ready \cup FreeToReady({p})
      /\ freeing' = freeing \cup FreeToFreeing({p})
      /\ twice' = twice \cup FreeTwice({p}) /\ seen' = seen \cup {p}
      /\ UNCHANGED <<disk, mem, pending, chain, snap, next, hist>>
      /\ PagesOf(tree') \subseteq PagesOf(tree)
  BY DEF PlaceRefused
<1>3. /\ SlotsSettled' /\ SlotsInDoubt' /\ Truthful' /\ BaseSafe' /\ OtherSlot'
      /\ Counts' /\ Protected' /\ Freed' /\ ListsApart' /\ Snapshots'
      /\ Prepared' /\ Durable' /\ AckedBehind' /\ Empty'
  BY <1>1, <1>2, FreeStep
<1>4. Working'
  BY <1>2 DEF Working
<1>. QED  BY <1>1, <1>3, <1>4 DEF IInv

\* Freeing a page of the tree keeps the invariant.
LEMMA ShrinkInv == ASSUME IInv, NEW p \in Pages, Shrink(p)  PROVE IInv'
<1>1. TypeOK'
  <2>1. Work
    BY DEF Work
  <2>. QED  BY <2>1, WorkType DEF IInv
<1>2. tree' = [tree EXCEPT ![p] = 0] /\ tree \in Trees
  BY DEF Shrink, IInv, TypeOK
<1>3. PagesOf(tree') = PagesOf(tree) \ {p}
  BY <1>2 DEF PagesOf, Trees
<1>4. /\ pc = "idle" /\ pc' = "idle" /\ p \in PagesOf(tree)
      /\ ready' = ready \cup FreeToReady({p})
      /\ freeing' = freeing \cup FreeToFreeing({p})
      /\ twice' = twice \cup FreeTwice({p}) /\ seen' = seen \cup {p}
      /\ UNCHANGED <<disk, mem, pending, chain, snap, next, hist>>
      /\ PagesOf(tree') \subseteq PagesOf(tree)
  BY <1>3 DEF Shrink
<1>5. /\ SlotsSettled' /\ SlotsInDoubt' /\ Truthful' /\ BaseSafe' /\ OtherSlot'
      /\ Counts' /\ Protected' /\ Freed' /\ ListsApart' /\ Snapshots'
      /\ Prepared' /\ Durable' /\ AckedBehind' /\ Empty'
  BY <1>1, <1>4, FreeStep
<1>6. Working'
  <2>1. FreeToReady({p}) \subseteq {p} /\ FreeToFreeing({p}) \subseteq {p}
    BY DEF FreeToReady, FreeToFreeing, Unseen
  <2>2. Listed' \subseteq Listed \cup {p}
    BY <1>4, <2>1 DEF Listed, PendingPages
  <2>3. \A i \in PagesOf(tree') : tree'[i] = tree[i]
    BY <1>2, <1>3 DEF PagesOf, Trees
  <2>4. UNCHANGED <<now, meta, committed, taken, chain>>
    BY <1>4 DEF disk, mem
  <2>5. PagesOf(tree') \cap Listed' = {} /\ PagesOf(tree') \cap chain' = {}
    BY <1>3, <1>4, <2>2, <2>4 DEF IInv, Working
  <2>6. \A i \in PagesOf(tree') : now'[i] = Node(tree'[i]) /\ (Dirty(i)' \/ tree'[i] = meta'.tree[i])
    BY <1>3, <1>4, <2>3, <2>4 DEF IInv, Working, Dirty
  <2>. QED  BY <2>5, <2>6 DEF Working, PagesOf, Listed, PendingPages
<1>. QED  BY <1>1, <1>5, <1>6 DEF IInv

\* Rewriting in place a page of this transaction keeps the invariant.
LEMMA RewriteInv == ASSUME IInv, NEW p \in Pages, RewriteInPlace(p)  PROVE IInv'
<1>1. TypeOK' /\ TypeOK
  <2>1. Work
    BY DEF Work
  <2>. QED  BY <2>1, WorkType DEF IInv
<1>2. /\ pc = "idle" /\ pc' = "idle" /\ p \in PagesOf(tree) /\ Dirty(p) /\ tx \in Nat /\ tx # 0
      /\ WritePages({p}, Node(tx)) /\ tree' = [tree EXCEPT ![p] = tx] /\ tree \in Trees
  BY <1>1 DEF RewriteInPlace, tx, TypeOK, Metas
<1>3. /\ UNCHANGED <<meta, nextMeta, committed, taken, ready, pending, freeing, seen, chain, twice>>
      /\ UNCHANGED <<snap, next, acked, slot, slotMaybe>>
  BY DEF RewriteInPlace, mem, list, hist, WritePages
<1>4. Up /\ Up'
  BY <1>2 DEF Up
<1>5. PagesOf(tree') = PagesOf(tree)
  BY <1>2 DEF PagesOf, Trees
<1>6. SlotsSettled' /\ SlotsInDoubt' /\ OtherSlot' /\ AckedBehind'
  BY <1>2, <1>3, SlotFrame DEF Same
<1>7. p \notin PagesOf(meta.tree) \cup meta.chain
  BY <1>1, <1>2, <1>4 DEF IInv, Protected, Counts, Dirty, Pages, TypeOK, PagesOf
<1>8. Truthful' /\ BaseSafe'
  BY <1>2, <1>3, <1>4, <1>7, WriteFrame, ContentTypes DEF Same
<1>9. Counts'
  BY <1>3, <1>4, <1>5 DEF IInv, Counts, PagesOf, Listed, PendingPages
<1>10. Protected' /\ Freed' /\ ListsApart'
  BY <1>3, <1>4 DEF IInv, Protected, Freed, ListsApart, PagesOf, PendingPages, tx
<1>11. Working'
  <2>1. \A i \in PagesOf(tree') : now'[i] = Node(tree'[i]) /\ (Dirty(i)' \/ tree'[i] = meta'.tree[i])
    <3> SUFFICES ASSUME NEW i \in PagesOf(tree')
                 PROVE  now'[i] = Node(tree'[i]) /\ (Dirty(i)' \/ tree'[i] = meta'.tree[i])
      OBVIOUS
    <3>1. CASE i = p
      BY <1>2, <1>3, <3>1 DEF WritePages, Dirty, Trees
    <3>2. CASE i # p
      <4>1. i \in PagesOf(tree) /\ i \in Pages
        BY <1>5 DEF PagesOf
      <4>2. now'[i] = now[i] /\ tree'[i] = tree[i]
        BY <1>2, <3>2, <4>1 DEF WritePages, Trees
      <4>. QED  BY <1>2, <1>3, <4>1, <4>2 DEF IInv, Working, Dirty
    <3>. QED  BY <3>1, <3>2
  <2>. QED  BY <1>2, <1>3, <1>5, <2>1 DEF IInv, Working, PagesOf, Listed, PendingPages
<1>12. Snapshots'
  <2>1. held' = held
    BY <1>3 DEF held, Readable
  <2>2. \A r \in held : \A i \in PagesOf(snap[r].tree) : now'[i] = now[i]
    <3> SUFFICES ASSUME NEW r \in held, NEW i \in PagesOf(snap[r].tree)
                 PROVE  now'[i] = now[i]
      OBVIOUS
    <3>1. i \notin taken /\ i < committed /\ i \in Pages
      BY DEF IInv, Snapshots, PagesOf
    <3>2. i # p
      BY <1>1, <1>2, <3>1 DEF Dirty, Pages, TypeOK
    <3>. QED  BY <1>2, <3>1, <3>2 DEF WritePages
  <2>. QED  BY <1>3, <1>4, <2>1, <2>2 DEF IInv, Snapshots, PagesOf, Node
<1>13. Prepared' /\ Durable' /\ Empty'
  BY <1>2 DEF Prepared, Durable, Empty
<1>. QED  BY <1>1, <1>6, <1>8, <1>9, <1>10, <1>11, <1>12, <1>13 DEF IInv


-----------------------------------------------------------------------------
(* The inductive invariant: Commit. *)

\* After the old chain is freed and freeing is rolled, what the list may take
\* and what it only lists are apart, and neither is in use.
LEMMA RollFacts ==
    ASSUME IInv, RollFreed
    PROVE  /\ twice' = {} /\ PendingPages' = Waiting
           /\ Takeable \cap Waiting = {}
           /\ (Takeable \cup Waiting) \cap PagesOf(tree) = {}
           /\ Takeable \cap (PagesOf(meta.tree) \cup meta.chain) = {}
           /\ \A p \in Takeable \cup Waiting : p \in Pages /\ p < meta.count
           /\ \A p \in Pages : pending'[p] <= tx /\ (pending'[p] = tx => p \in seen')
           /\ \A p \in PagesOf(meta.tree) \cup meta.chain :
                 pending'[p] = 0 \/ pending'[p] > meta.txid
           /\ \A r \in held : \A p \in PagesOf(snap[r].tree) :
                 p \notin Takeable /\ (pending'[p] = 0 \/ pending'[p] > snap[r].txid)
<1>1. pc = "idle" /\ Up /\ TypeOK /\ tx \in Nat /\ tx = meta.txid + 1 /\ meta.txid \in Nat
  BY DEF RollFreed, Up, IInv, tx, TypeOK, Metas
<1>2. /\ chain = meta.chain /\ chain \in SUBSET Pages
      /\ \A p \in chain : p < committed /\ p \notin ready /\ p \notin taken
                          /\ (pending[p] = 0 \/ pending[p] > meta.txid)
  BY <1>1 DEF IInv, Counts, Protected, TypeOK
<1>3. \A p \in chain : ~Dirty(p)
  BY <1>1, <1>2 DEF Dirty, TypeOK, Pages
<1>4. Takeable = Promoted
  BY <1>3 DEF Takeable, FreeToReady, Unseen
<1>5. FreeTwice(chain) = {}
  <2> SUFFICES ASSUME NEW p \in chain, p \notin seen PROVE p \notin Listed
    BY DEF FreeTwice, Unseen
  <2>1. pending[p] \in Nat /\ pending[p] <= tx /\ pending[p] # tx
    BY <1>1, <1>2 DEF IInv, Freed, TypeOK
  <2>2. pending[p] = 0
    BY <1>1, <1>2, <2>1
  <2>3. p \notin freeing
    BY <1>1 DEF IInv, ListsApart
  <2>. QED  BY <1>2, <2>2, <2>3 DEF Listed, PendingPages
<1>6. twice' = {}
  BY <1>1, <1>5 DEF RollFreed, IInv, ListsApart
<1>7. \A p \in Pages : Rolled[p] \in {tx, pending[p]} /\ Rolled[p] \in Nat
  BY <1>1 DEF Rolled, TypeOK
<1>8. \A p \in Pages : pending'[p] = IF p \in Waiting THEN Rolled[p] ELSE 0
  BY DEF RollFreed
<1>9. PendingPages' = Waiting
  BY <1>8 DEF PendingPages, Waiting
<1>10. \A p \in Pages : Rolled[p] # 0 => p \in freeing \cup chain \cup PendingPages
  BY DEF Rolled, FreeToFreeing, Unseen, PendingPages
<1>11. Promoted \cap freeing = {} /\ Promoted \cap chain = {} /\ Promoted \cap PagesOf(tree) = {}
  <2>1. Promoted \cap freeing = {}
    BY <1>1 DEF IInv, ListsApart, Promoted, Promotable
  <2>2. Promoted \cap chain = {}
    BY <1>1, <1>2 DEF Promoted, Promotable, PendingPages, TypeOK
  <2>3. Promoted \cap PagesOf(tree) = {}
    BY <1>1 DEF IInv, Working, Listed, Promoted, Promotable
  <2>. QED  BY <2>1, <2>2, <2>3
<1>12. Takeable \cap Waiting = {}
  <2>1. ready \cap PendingPages = {}
    BY <1>1 DEF IInv, ListsApart
  <2>. QED  BY <1>4, <1>10, <1>11, <2>1 DEF Waiting, Promoted
<1>13. (Takeable \cup Waiting) \cap PagesOf(tree) = {}
  <2>1. PagesOf(tree) \cap (freeing \cup chain \cup PendingPages) = {}
    BY <1>1 DEF IInv, Working, Listed
  <2>. QED  BY <1>4, <1>10, <1>11, <2>1 DEF Waiting
<1>14. Takeable \cap (PagesOf(meta.tree) \cup meta.chain) = {}
  <2> SUFFICES ASSUME NEW p \in PagesOf(meta.tree) \cup meta.chain PROVE p \notin Promoted
    BY <1>4
  <2>1. p \in Pages /\ p \notin ready /\ (pending[p] = 0 \/ pending[p] > meta.txid)
    BY <1>1 DEF IInv, Protected, PagesOf, TypeOK, Metas
  <2>2. pending[p] \in Nat
    BY <1>1, <2>1 DEF TypeOK
  <2>. QED  BY <1>1, <2>1, <2>2 DEF Promoted, Promotable, PendingPages
<1>15. \A p \in Takeable \cup Waiting : p \in Pages /\ p < meta.count
  <2>1. \A p \in Listed \cup chain : p \in Pages /\ p < meta.count
    <3>1. meta.count \in Nat /\ committed \in Nat /\ committed <= meta.count
      BY <1>1 DEF IInv, Counts, TypeOK, Metas
    <3>. QED  BY <1>1, <1>2, <3>1 DEF IInv, Counts, Listed, PendingPages, TypeOK, Pages
  <2>2. Takeable \cup Waiting \subseteq Listed \cup chain
    BY <1>4, <1>10 DEF Waiting, Listed, Promoted, Promotable
  <2>. QED  BY <2>1, <2>2
<1>16. \A p \in Pages : pending'[p] <= tx /\ (pending'[p] = tx => p \in seen')
  <2> SUFFICES ASSUME NEW p \in Pages
               PROVE  pending'[p] <= tx /\ (pending'[p] = tx => p \in seen')
    OBVIOUS
  <2>1. pending[p] <= tx /\ (pending[p] = tx => p \in seen) /\ pending[p] \in Nat
    BY <1>1 DEF IInv, Freed, TypeOK
  <2>2. Rolled[p] # pending[p] => p \in seen \cup chain
    BY <1>1 DEF Rolled, FreeToFreeing, Unseen, IInv, Freed
  <2>3. seen' = seen \cup chain /\ tx # 0
    BY <1>1 DEF RollFreed
  <2>. QED  BY <1>1, <1>7, <1>8, <2>1, <2>2, <2>3
<1>17. \A p \in PagesOf(meta.tree) \cup meta.chain : pending'[p] = 0 \/ pending'[p] > meta.txid
  <2> SUFFICES ASSUME NEW p \in PagesOf(meta.tree) \cup meta.chain
               PROVE  pending'[p] = 0 \/ pending'[p] > meta.txid
    OBVIOUS
  <2>1. p \in Pages /\ (pending[p] = 0 \/ pending[p] > meta.txid)
    BY <1>1 DEF IInv, Protected, PagesOf, TypeOK, Metas
  <2>. QED  BY <1>1, <1>7, <1>8, <2>1
<1>18. \A r \in held : \A p \in PagesOf(snap[r].tree) :
          p \notin Takeable /\ (pending'[p] = 0 \/ pending'[p] > snap[r].txid)
  <2> SUFFICES ASSUME NEW r \in held, NEW p \in PagesOf(snap[r].tree)
               PROVE  p \notin Takeable /\ (pending'[p] = 0 \/ pending'[p] > snap[r].txid)
    OBVIOUS
  <2>1. /\ p \in Pages /\ p \notin ready /\ (pending[p] = 0 \/ pending[p] > snap[r].txid)
        /\ snap[r].txid <= meta.txid
    BY DEF IInv, Snapshots, PagesOf
  <2>2. snap[r].txid \in Nat /\ pending[p] \in Nat
    BY <1>1, <2>1 DEF TypeOK, Metas, held
  <2>3. p \notin Promoted
    BY <2>1, <2>2 DEF Promoted, Promotable, PendingPages
  <2>. QED  BY <1>1, <1>4, <1>7, <1>8, <2>1, <2>2, <2>3
<1>. QED  BY <1>6, <1>9, <1>12, <1>13, <1>14, <1>15, <1>16, <1>17, <1>18

\* Taking pages for the list and counting them keeps the memory in order.
LEMMA TakeStep ==
    ASSUME IInv, TypeOK', RollFreed, pc' \in {"failed", "idle", "written"},
           NEW from \in SUBSET Takeable, NEW end \in 2 .. MaxPages, meta.count <= end,
           ready' = Takeable \ from, meta' = [meta EXCEPT !.count = end],
           taken' = taken \cup from \cup {p \in Pages : p >= meta.count /\ p < end},
           UNCHANGED <<slot, slotMaybe>>
    PROVE  /\ SlotsSettled' /\ SlotsInDoubt' /\ OtherSlot' /\ AckedBehind'
           /\ Counts' /\ Protected' /\ Freed' /\ ListsApart' /\ Empty'
<1>1. pc = "idle" /\ Up /\ Up' /\ TypeOK
  BY DEF RollFreed, Up, IInv
<1>2. Same(meta', meta) /\ meta'.count = end /\ tx' = tx
  BY <1>1 DEF Same, TypeOK, Metas, tx
<1>3. UNCHANGED <<nextMeta, committed, chain, tree, snap, acked>> /\ freeing' = {}
  BY DEF RollFreed, hist
<1>4. SlotsSettled' /\ SlotsInDoubt' /\ OtherSlot' /\ AckedBehind'
  BY <1>1, <1>2, <1>3, SlotFrame
<1>5. Counts'
  <2>1. committed \in Nat /\ meta.count \in Nat /\ end \in Nat
    BY <1>1, MaxPagesAssumption DEF TypeOK, Metas
  <2>2. committed' <= meta'.count
    BY <1>1, <1>2, <1>3, <2>1 DEF IInv, Counts
  <2>3. \A p \in PagesOf(tree) \cup Listed' \cup taken' : p < end
    <3>1. \A p \in PagesOf(tree) \cup taken \cup Takeable \cup Waiting : p \in Pages /\ p < meta.count
      BY <1>1, RollFacts DEF IInv, Counts, PagesOf, TypeOK
    <3>2. Listed' \subseteq Takeable \cup Waiting
      BY <1>3, RollFacts DEF Listed
    <3>. QED  BY <2>1, <3>1, <3>2 DEF Pages
  <2>. QED  BY <1>1, <1>2, <1>3, <2>2, <2>3 DEF IInv, Counts, Same, PagesOf, Listed, PendingPages
<1>6. Protected'
  <2> SUFFICES ASSUME NEW p \in PagesOf(meta.tree) \cup meta.chain
               PROVE  /\ p \notin ready' /\ p \notin taken'
                      /\ pending'[p] = 0 \/ pending'[p] > meta.txid
    BY <1>2 DEF Protected, PagesOf, Same
  <2>1. p \notin taken /\ p < committed /\ p \in Pages /\ committed <= meta.count
    BY <1>1 DEF IInv, Protected, Counts, PagesOf, TypeOK, Metas
  <2>2. ~(p >= meta.count)
    BY <1>1, <2>1 DEF TypeOK, Metas, Pages
  <2>. QED  BY <2>1, <2>2, RollFacts
<1>7. Freed'
  BY <1>2, <1>3, RollFacts DEF Freed
<1>8. ListsApart'
  BY <1>3, RollFacts DEF ListsApart
<1>. QED  BY <1>1, <1>4, <1>5, <1>6, <1>7, <1>8 DEF Empty


\* Writing the list keeps the invariant, and prepares the next meta.
LEMMA CommitListInv == ASSUME IInv, CommitList  PROVE IInv'
<1>1. TypeOK' /\ TypeOK /\ RollFreed /\ pc = "idle" /\ pc' = "written"
  BY CommitType DEF Commit, CommitList, RollFreed, IInv
<1>2. tx \in Nat /\ tx = meta.txid + 1 /\ Up /\ Up' /\ meta.count \in 2 .. MaxPages
  BY <1>1 DEF tx, TypeOK, Metas, Up
<1>3. PICK from \in SUBSET Takeable, grown \in 0 .. (MaxPages - meta.count) :
        LET end    == meta.count + grown
            taking == from \cup {p \in Pages : p >= meta.count /\ p < end}
        IN  /\ ready' = Takeable \ from
            /\ taken' = taken \cup taking
            /\ meta' = [meta EXCEPT !.count = end]
            /\ WritePages(taking, List(tx))
            /\ next' = CommittedMeta((Takeable \ from) \cup Waiting, taking, end)
  BY DEF CommitList, TakeListPages
<1> DEFINE end    == meta.count + grown
           taking == from \cup {p \in Pages : p >= meta.count /\ p < end}
<1>4. end \in 2 .. MaxPages /\ meta.count <= end
  BY <1>2, MaxPagesAssumption
<1>5. /\ twice' = {} /\ PendingPages' = Waiting
      /\ Takeable \cap Waiting = {}
      /\ (Takeable \cup Waiting) \cap PagesOf(tree) = {}
      /\ Takeable \cap (PagesOf(meta.tree) \cup meta.chain) = {}
      /\ \A p \in Takeable \cup Waiting : p \in Pages /\ p < meta.count
      /\ \A r \in held : \A p \in PagesOf(snap[r].tree) :
            p \notin Takeable /\ (pending'[p] = 0 \/ pending'[p] > snap[r].txid)
  BY <1>1, RollFacts
<1>6. taken' = taken \cup from \cup {p \in Pages : p >= meta.count /\ p < end}
  BY <1>3
<1>7. UNCHANGED <<slot, slotMaybe>>
  BY <1>3 DEF WritePages
<1>8. /\ SlotsSettled' /\ SlotsInDoubt' /\ OtherSlot' /\ AckedBehind'
      /\ Counts' /\ Protected' /\ Freed' /\ ListsApart' /\ Empty'
  BY <1>1, <1>3, <1>4, <1>6, <1>7, TakeStep
<1>9. Same(meta', meta) /\ meta'.count = end /\ tx' = tx
  BY <1>1, <1>3 DEF Same, TypeOK, Metas, tx
<1>10. /\ UNCHANGED <<nextMeta, committed, chain, tree, snap>> /\ freeing' = {}
       /\ Listed' = (Takeable \ from) \cup Waiting
  BY <1>1, <1>3, <1>5 DEF RollFreed, Listed
<1>11. taking \in SUBSET Pages
  BY <1>5
<1>12. \A p \in PagesOf(meta.tree) \cup meta.chain \cup PagesOf(tree) : p \notin taking
  <2> SUFFICES ASSUME NEW p \in PagesOf(meta.tree) \cup meta.chain \cup PagesOf(tree)
               PROVE  p \notin taking
    OBVIOUS
  <2>1. p \in Pages /\ p < meta.count
    <3>1. committed \in Nat /\ committed <= meta.count
      BY <1>1, <1>2 DEF IInv, Counts, TypeOK
    <3>2. p \in Pages
      BY <1>1 DEF PagesOf, TypeOK, Metas
    <3>3. p < committed \/ p < meta.count
      BY <1>2 DEF IInv, Counts
    <3>. QED  BY <1>2, <3>1, <3>2, <3>3 DEF Pages
  <2>2. p \notin Takeable
    BY <1>5
  <2>. QED  BY <1>2, <2>1, <2>2 DEF Pages
<1>13. Truthful' /\ BaseSafe'
  <2>1. WritePages(taking, List(tx)) /\ List(tx) \in Contents
    BY <1>2, <1>3, ContentTypes
  <2>2. taking \cap (PagesOf(meta.tree) \cup meta.chain) = {}
    BY <1>12
  <2>. QED  BY <1>2, <1>9, <1>11, <2>1, <2>2, WriteFrame
<1>14. Working'
  <2>1. \A p \in PagesOf(tree) : now'[p] = now[p]
    BY <1>3, <1>12 DEF WritePages, PagesOf
  <2>2. \A p \in PagesOf(tree) : now'[p] = Node(tree[p]) /\ (Dirty(p)' \/ tree[p] = meta'.tree[p])
    BY <1>1, <1>6, <1>9, <1>10, <2>1 DEF IInv, Working, Dirty, Same
  <2>3. PagesOf(tree) \cap Listed' = {} /\ PagesOf(tree) \cap chain = {}
    BY <1>1, <1>5, <1>10 DEF IInv, Working
  <2>. QED  BY <1>10, <2>2, <2>3 DEF Working, PagesOf, Listed, PendingPages
<1>15. Prepared'
  <2>1. /\ next'.txid = tx /\ next'.tree = tree
        /\ next'.list = (Takeable \ from) \cup Waiting
        /\ next'.chain = taking /\ next'.count = end
    BY <1>3 DEF CommittedMeta
  <2>2. \A p \in taking : p < end /\ now'[p] = List(tx)
    <3>1. \A p \in taking : p < end
      BY <1>2, <1>4, <1>5 DEF Pages
    <3>. QED  BY <1>3, <1>11, <3>1 DEF WritePages
  <2>3. taking \cap (PagesOf(tree) \cup (Takeable \ from) \cup Waiting) = {}
    BY <1>2, <1>5, <1>12 DEF Pages
  <2>4. next'.list = ready' \cup PendingPages'
    BY <1>3, <1>5, <2>1
  <2>. QED  BY <1>3, <1>5, <1>9, <1>10, <2>1, <2>2, <2>3, <2>4 DEF Prepared, PagesOf, List
<1>16. Snapshots'
  <2>1. held' = held
    BY <1>10 DEF held, Readable
  <2>2. \A r \in held : \A p \in PagesOf(snap[r].tree) :
           now'[p] = now[p] /\ p \notin ready' /\ p \notin taken' /\ p < committed
           /\ (pending'[p] = 0 \/ pending'[p] > snap[r].txid)
    <3> SUFFICES ASSUME NEW r \in held, NEW p \in PagesOf(snap[r].tree)
                 PROVE  now'[p] = now[p] /\ p \notin ready' /\ p \notin taken' /\ p < committed
                        /\ (pending'[p] = 0 \/ pending'[p] > snap[r].txid)
      OBVIOUS
    <3>1. p \in Pages /\ p \notin taken /\ p < committed /\ committed <= meta.count
      BY <1>2 DEF IInv, Snapshots, PagesOf, Counts
    <3>2. p \notin taking
      BY <1>1, <1>2, <1>5, <3>1 DEF Pages, TypeOK
    <3>. QED  BY <1>3, <1>5, <3>1, <3>2 DEF WritePages
  <2>3. \A r \in held : snap[r].txid <= meta'.txid
    BY <1>9 DEF IInv, Snapshots, Same
  <2>. QED  BY <1>2, <1>10, <2>1, <2>2, <2>3 DEF IInv, Snapshots, PagesOf, Node
<1>17. Durable'
  BY <1>1 DEF Durable
<1>. QED  BY <1>1, <1>8, <1>13, <1>14, <1>15, <1>16, <1>17 DEF IInv

\* A commit the quota refuses keeps the invariant: its pages are only lost.
LEMMA CommitRefusedInv == ASSUME IInv, CommitRefused  PROVE IInv'
<1>1. TypeOK' /\ TypeOK /\ RollFreed /\ pc = "idle" /\ pc' \in {"failed", "idle"}
  BY CommitType DEF Commit, CommitRefused, ListRefused, AfterError, RollFreed, IInv
<1>2. Up /\ Up' /\ meta.count \in 2 .. MaxPages /\ MaxPages \in 2 .. MaxPages
  BY <1>1, MaxPagesAssumption DEF TypeOK, Metas, Up
<1>3. /\ ready' = Takeable \ Takeable /\ meta' = [meta EXCEPT !.count = MaxPages]
      /\ UNCHANGED <<now, maybe, slot, slotMaybe, next>>
  BY DEF CommitRefused, ListRefused, TakeListPages, disk
<1>4. taken' = taken \cup Takeable \cup {p \in Pages : p >= meta.count /\ p < MaxPages}
  <2>1. {p \in Pages : p >= meta.count} = {p \in Pages : p >= meta.count /\ p < MaxPages}
    BY MaxPagesAssumption DEF Pages
  <2>. QED  BY <2>1 DEF CommitRefused, ListRefused
<1>5. /\ SlotsSettled' /\ SlotsInDoubt' /\ OtherSlot' /\ AckedBehind'
      /\ Counts' /\ Protected' /\ Freed' /\ ListsApart' /\ Empty'
  <2>1. Takeable \in SUBSET Takeable /\ meta.count <= MaxPages
    BY <1>2
  <2>. QED  BY <1>1, <1>2, <1>3, <1>4, <2>1, TakeStep
<1>6. Same(meta', meta)
  BY <1>1, <1>3 DEF Same, TypeOK, Metas
<1>7. UNCHANGED <<committed, chain, tree, snap>> /\ freeing' = {}
  BY <1>1 DEF RollFreed
<1>8. Truthful' /\ BaseSafe'
  BY <1>2, <1>3, <1>6 DEF IInv, Truthful, BaseSafe, Base, Safe, Same, PagesOf, Node, List
<1>9. Working'
  <2>1. Listed' = Waiting
    BY <1>1, <1>3, <1>7, RollFacts DEF Listed
  <2>2. PagesOf(tree) \cap Waiting = {}
    BY <1>1, RollFacts
  <2>3. \A p \in PagesOf(tree) : now[p] = Node(tree[p]) /\ (Dirty(p)' \/ tree[p] = meta'.tree[p])
    BY <1>1, <1>4, <1>6, <1>7 DEF IInv, Working, Dirty, Same
  <2>4. PagesOf(tree) \cap chain = {}
    BY <1>1 DEF IInv, Working
  <2>. QED  BY <1>3, <1>7, <2>1, <2>2, <2>3, <2>4 DEF Working, PagesOf, Listed, PendingPages
<1>10. Snapshots'
  <2>1. held' = held
    BY <1>7 DEF held, Readable
  <2>2. \A r \in held : \A p \in PagesOf(snap[r].tree) :
           p \notin ready' /\ p \notin taken' /\ p < committed
           /\ (pending'[p] = 0 \/ pending'[p] > snap[r].txid)
    <3> SUFFICES ASSUME NEW r \in held, NEW p \in PagesOf(snap[r].tree)
                 PROVE  p \notin ready' /\ p \notin taken' /\ p < committed
                        /\ (pending'[p] = 0 \/ pending'[p] > snap[r].txid)
      OBVIOUS
    <3>1. p \in Pages /\ p \notin taken /\ p < committed /\ committed <= meta.count
      BY <1>2 DEF IInv, Snapshots, PagesOf, Counts
    <3>2. p \notin Takeable /\ (pending'[p] = 0 \/ pending'[p] > snap[r].txid)
      BY <1>1, RollFacts
    <3>3. ~(p >= meta.count)
      BY <1>1, <1>2, <3>1 DEF Pages, TypeOK
    <3>. QED  BY <1>3, <1>4, <3>1, <3>2, <3>3
  <2>3. \A r \in held : snap[r].txid <= meta'.txid
    BY <1>6 DEF IInv, Snapshots, Same
  <2>. QED  BY <1>2, <1>3, <1>7, <2>1, <2>2, <2>3 DEF IInv, Snapshots, PagesOf, Node
<1>11. Prepared' /\ Durable'
  BY <1>1 DEF Prepared, Durable
<1>. QED  BY <1>1, <1>5, <1>8, <1>9, <1>10, <1>11 DEF IInv


\* A sync settles what was in doubt on what a read returns, which is one of
\* the outcomes it settles between.
LEMMA SyncFacts ==
    ASSUME IInv, Sync
    PROVE  /\ now' = now /\ slot' = slot
           /\ \A p \in Pages : maybe'[p] = {now[p]} /\ maybe'[p] \subseteq maybe[p]
           /\ \A s \in Slots : slotMaybe'[s] = {slot[s]} /\ slotMaybe'[s] \subseteq slotMaybe[s]
           /\ Truthful'
BY DEF IInv, Sync, Truthful

\* What is whole in the file stays whole when less is in doubt.
LEMMA SafeStays ==
    ASSUME NEW m \in Metas, Safe(m), Truthful',
           \A p \in Pages : maybe'[p] \subseteq maybe[p]
    PROVE  Safe(m)'
<1>1. \A p \in PagesOf(m.tree) \cup m.chain : p \in Pages /\ maybe'[p] = maybe[p]
  <2> SUFFICES ASSUME NEW p \in PagesOf(m.tree) \cup m.chain
               PROVE  p \in Pages /\ maybe'[p] = maybe[p]
    OBVIOUS
  <2>1. p \in Pages
    BY DEF PagesOf, Metas
  <2>2. \E c : maybe[p] = {c}
    BY DEF Safe
  <2>3. now'[p] \in maybe'[p]
    BY <2>1 DEF Truthful
  <2>. QED  BY <2>1, <2>2, <2>3
<1>. QED  BY <1>1 DEF Safe, PagesOf, Node, List

\* The first sync of a commit.
LEMMA CommitSyncInv == ASSUME IInv, CommitSync  PROVE IInv'
<1>1. TypeOK' /\ TypeOK /\ Sync /\ pc = "written" /\ pc' = "synced" /\ Up /\ Up'
  BY CommitType DEF Commit, CommitSync, IInv, Up
<1>2. /\ UNCHANGED <<meta, nextMeta, committed, taken, ready, pending, freeing, seen, chain, twice>>
      /\ UNCHANGED <<tree, snap, next, acked>>
  BY DEF CommitSync, mem, list, hist
<1>3. /\ now' = now /\ slot' = slot
      /\ \A p \in Pages : maybe'[p] = {now[p]} /\ maybe'[p] \subseteq maybe[p]
      /\ \A s \in Slots : slotMaybe'[s] = {slot[s]} /\ slotMaybe'[s] \subseteq slotMaybe[s]
      /\ Truthful'
  BY <1>1, SyncFacts
<1>4. Base = meta /\ Base' = meta
  BY <1>1, <1>2 DEF Base
<1>5. SlotsSettled'
  BY <1>1, <1>3, <1>4 DEF IInv, SlotsSettled, Behind, Same, Fits, PagesOf
<1>6. BaseSafe'
  BY <1>1, <1>3, <1>4, SafeStays DEF IInv, BaseSafe, TypeOK
<1>7. SlotsInDoubt' /\ OtherSlot' /\ AckedBehind' /\ Empty'
  BY <1>1, <1>2, <1>3, <1>4 DEF IInv, SlotsInDoubt, OtherSlot, AckedBehind, Empty, Other
<1>8. Counts' /\ Protected' /\ Freed' /\ ListsApart'
  BY <1>1, <1>2 DEF IInv, Counts, Protected, Freed, ListsApart, PagesOf, Listed, PendingPages, tx
<1>9. Working'
  BY <1>1, <1>2, <1>3 DEF IInv, Working, PagesOf, Listed, PendingPages, Dirty, Node
<1>10. Prepared'
  BY <1>1, <1>2, <1>3 DEF IInv, Prepared, PagesOf, PendingPages, tx, List
<1>11. Durable'
  BY <1>1, <1>3 DEF Durable
<1>12. Snapshots'
  BY <1>1, <1>2, <1>3 DEF IInv, Snapshots, held, Readable, PagesOf, Node
<1>. QED  BY <1>1, <1>3, <1>5, <1>6, <1>7, <1>8, <1>9, <1>10, <1>11, <1>12 DEF IInv

\* A commit that failed before its meta page was written leaves the
\* transaction as it was.
LEMMA CommitSyncFailsInv == ASSUME IInv, CommitSyncFails  PROVE IInv'
<1>1. TypeOK' /\ TypeOK /\ pc \in {"written", "synced"} /\ pc' \in {"failed", "idle"} /\ Up /\ Up'
  BY CommitType DEF Commit, CommitSyncFails, AfterError, IInv, Up
<1>2. /\ UNCHANGED <<meta, nextMeta, committed, taken, ready, pending, freeing, seen, chain, twice>>
      /\ UNCHANGED <<tree, snap, acked, now, maybe, slot, slotMaybe>>
  BY DEF CommitSyncFails, mem, list, hist, disk
<1>3. Base = meta /\ Base' = meta
  BY <1>1, <1>2 DEF Base
<1>4. SlotsSettled' /\ SlotsInDoubt' /\ OtherSlot' /\ AckedBehind' /\ Empty'
  BY <1>1, <1>2, <1>3
     DEF IInv, SlotsSettled, SlotsInDoubt, OtherSlot, AckedBehind, Empty, Other, Behind, Same, Fits, PagesOf
<1>5. Truthful' /\ BaseSafe'
  BY <1>2, <1>3 DEF IInv, Truthful, BaseSafe, Safe, PagesOf, Node, List
<1>6. Counts' /\ Protected' /\ Freed' /\ ListsApart'
  BY <1>1, <1>2 DEF IInv, Counts, Protected, Freed, ListsApart, PagesOf, Listed, PendingPages, tx
<1>7. Working'
  BY <1>1, <1>2 DEF IInv, Working, PagesOf, Listed, PendingPages, Dirty, Node
<1>8. Prepared' /\ Durable'
  BY <1>1 DEF Prepared, Durable
<1>9. Snapshots'
  BY <1>1, <1>2 DEF IInv, Snapshots, held, Readable, PagesOf, Node
<1>. QED  BY <1>1, <1>4, <1>5, <1>6, <1>7, <1>8, <1>9 DEF IInv

\* The meta page is written: from here a crash may show either transaction.
LEMMA CommitMetaInv == ASSUME IInv, CommitMeta  PROVE IInv'
<1>1. TypeOK' /\ TypeOK /\ pc = "synced" /\ pc' = "meta" /\ Up /\ Up' /\ nextMeta \in Slots
  BY CommitType DEF Commit, CommitMeta, IInv, Up, TypeOK
<1>2. /\ UNCHANGED <<meta, nextMeta, committed, taken, ready, pending, freeing, seen, chain, twice>>
      /\ UNCHANGED <<tree, snap, next, acked, now, maybe>>
  BY DEF CommitMeta, mem, list, hist, writeMeta
<1>3. /\ slot' = [slot EXCEPT ![nextMeta] = next]
      /\ slotMaybe' = [slotMaybe EXCEPT ![nextMeta] = @ \cup {next}]
      /\ Other(nextMeta) \in Slots /\ Other(nextMeta) # nextMeta
      /\ \A s \in Slots : s = nextMeta \/ s = Other(nextMeta)
  BY <1>1, OtherIsSlot DEF CommitMeta, writeMeta
<1>4. Base = meta /\ Base' = meta
  BY <1>1, <1>2 DEF Base
<1>5. /\ \A s \in Slots : slotMaybe[s] = {slot[s]} /\ Behind(slot[s], meta)
      /\ slot[Other(nextMeta)].txid = meta.txid
  BY <1>1, <1>4 DEF IInv, Durable, SlotsSettled, OtherSlot
<1>6. SlotsInDoubt'
  <2>1. \A m \in slotMaybe'[Other(nextMeta)] : Same(m, meta) /\ Fits(m)
    BY <1>1, <1>3, <1>5 DEF Behind, TypeOK
  <2>2. \A m \in slotMaybe'[nextMeta] : Behind(m, meta) \/ m = next
    BY <1>1, <1>3, <1>5 DEF TypeOK
  <2>3. slot'[nextMeta] = next
    BY <1>1, <1>3 DEF TypeOK
  <2>4. next.txid # 0
    BY <1>1 DEF IInv, Prepared, tx, TypeOK, Metas
  <2>5. \A s \in Slots : \A m \in slotMaybe'[s] : m.txid = 0 => Same(m, NoMeta)
    BY <1>1, <1>3, <2>4 DEF IInv, SlotsInDoubt, TypeOK
  <2>. QED  BY <1>1, <1>2, <2>1, <2>2, <2>3, <2>5 DEF SlotsInDoubt, Other, Behind, Same, Fits, PagesOf
<1>7. SlotsSettled' /\ OtherSlot' /\ AckedBehind' /\ Empty'
  BY <1>1, <1>2, <1>4 DEF IInv, SlotsSettled, OtherSlot, AckedBehind, Empty
<1>8. Truthful'
  BY <1>1, <1>2, <1>3 DEF IInv, Truthful, TypeOK
<1>9. BaseSafe'
  BY <1>2, <1>4 DEF IInv, BaseSafe, Safe, PagesOf, Node, List
<1>10. Counts' /\ Protected' /\ Freed' /\ ListsApart'
  BY <1>1, <1>2 DEF IInv, Counts, Protected, Freed, ListsApart, PagesOf, Listed, PendingPages, tx
<1>11. Working'
  BY <1>1, <1>2 DEF IInv, Working, PagesOf, Listed, PendingPages, Dirty, Node
<1>12. Prepared'
  BY <1>1, <1>2 DEF IInv, Prepared, PagesOf, PendingPages, tx, List
<1>13. Durable'
  BY <1>1, <1>2 DEF IInv, Durable
<1>14. Snapshots'
  BY <1>1, <1>2 DEF IInv, Snapshots, held, Readable, PagesOf, Node
<1>. QED  BY <1>1, <1>6, <1>7, <1>8, <1>9, <1>10, <1>11, <1>12, <1>13, <1>14 DEF IInv

\* The second sync is done: the prepared meta is the committed state.
LEMMA CommitDoneInv == ASSUME IInv, CommitDone  PROVE IInv'
<1>1. TypeOK' /\ TypeOK /\ Sync /\ pc = "meta" /\ pc' = "idle" /\ Up /\ Up' /\ nextMeta \in Slots
  BY CommitType DEF Commit, CommitDone, IInv, Up, TypeOK
<1>2. /\ meta' = next /\ nextMeta' = Other(nextMeta) /\ committed' = next.count
      /\ chain' = next.chain /\ seen' = {} /\ taken' = {} /\ acked' = next.txid
      /\ UNCHANGED <<ready, pending, freeing, twice, tree, snap>>
  BY DEF CommitDone
<1>3. /\ now' = now /\ slot' = slot
      /\ \A p \in Pages : maybe'[p] = {now[p]}
      /\ \A s \in Slots : slotMaybe'[s] = {slot[s]} /\ slotMaybe'[s] \subseteq slotMaybe[s]
      /\ Truthful'
  BY <1>1, SyncFacts
<1>4. /\ Other(nextMeta) \in Slots /\ Other(nextMeta) # nextMeta
      /\ Other(Other(nextMeta)) = nextMeta
      /\ \A s \in Slots : s = nextMeta \/ s = Other(nextMeta)
  BY <1>1, OtherIsSlot
<1>5. /\ next.txid = tx /\ tx = meta.txid + 1 /\ meta.txid \in Nat /\ next.tree = tree
      /\ next.list = ready \cup PendingPages /\ next.count = meta.count
      /\ freeing = {} /\ next.count \in Nat
      /\ \A p \in next.chain : p < meta.count /\ now[p] = List(tx)
      /\ next.chain \cap (PagesOf(tree) \cup ready \cup PendingPages) = {}
      /\ next \in Metas
  BY <1>1 DEF IInv, Prepared, tx, TypeOK, Metas
<1>6. slot[nextMeta] = next /\ slot[Other(nextMeta)].txid = meta.txid
  BY <1>1, <1>3, <1>4 DEF IInv, SlotsInDoubt, Same
<1>7. Base' = next
  BY <1>1, <1>2 DEF Base
<1>8. \A p \in PagesOf(tree) \cup next.list \cup next.chain : p \in Pages /\ p < next.count
  BY <1>1, <1>5 DEF IInv, Counts, Listed, PagesOf, PendingPages, TypeOK, Metas
<1>9. SlotsSettled'
  <2>1. Behind(next, next)
    BY <1>5, <1>8 DEF Behind, Same, Fits
  <2>2. Behind(slot[Other(nextMeta)], next)
    BY <1>5, <1>6 DEF Behind
  <2>3. \A s \in Slots : \A m \in slotMaybe'[s] : Behind(m, next)
    BY <1>3, <1>4, <1>6, <2>1, <2>2
  <2>4. \A m \in slotMaybe'[nextMeta] : m.txid = next.txid
    BY <1>1, <1>3, <1>6
  <2>. QED  BY <1>1, <1>7, <2>3, <2>4 DEF SlotsSettled, Behind, Same, Fits, PagesOf
<1>10. BaseSafe'
  <2>1. \A p \in PagesOf(tree) : maybe'[p] = {Node(tree[p])}
    BY <1>1, <1>3 DEF IInv, Working, PagesOf
  <2>2. \A p \in next.chain : maybe'[p] = {List(next.txid)}
    BY <1>3, <1>5, <1>8
  <2>3. next.list \cap (PagesOf(tree) \cup next.chain) = {}
    BY <1>1, <1>5 DEF IInv, Working, Listed
  <2>. QED  BY <1>5, <1>7, <2>1, <2>2, <2>3 DEF BaseSafe, Safe, PagesOf, Node, List
<1>11. OtherSlot' /\ AckedBehind' /\ Empty' /\ SlotsInDoubt'
  <2>1. \A s \in Slots : \A m \in slotMaybe'[s] : m.txid = 0 => Same(m, NoMeta)
    BY <1>3 DEF IInv, SlotsInDoubt
  <2>. QED  BY <1>1, <1>2, <1>3, <1>4, <1>5, <1>6, <1>7, <2>1
       DEF OtherSlot, AckedBehind, Empty, SlotsInDoubt, Same, TypeOK, Metas
<1>12. Counts'
  <2>1. \A p \in PagesOf(tree) \cup Listed : p < meta.count
    BY <1>1 DEF IInv, Counts
  <2>. QED  BY <1>2, <1>5, <1>8, <2>1 DEF Counts, PagesOf, Listed, PendingPages
<1>13. Protected'
  <2>1. PagesOf(tree) \cap Listed = {}
    BY <1>1 DEF IInv, Working
  <2>. QED  BY <1>2, <1>5, <1>8, <2>1 DEF Protected, PagesOf, Listed, PendingPages
<1>14. Freed'
  <2>1. tx' = tx + 1
    BY <1>2, <1>5 DEF tx
  <2>2. \A p \in Pages : pending[p] <= tx /\ pending[p] \in Nat
    BY <1>1 DEF IInv, Freed, TypeOK
  <2>. QED  BY <1>2, <1>5, <2>1, <2>2 DEF Freed
<1>15. ListsApart'
  BY <1>1, <1>2, <1>5 DEF IInv, ListsApart, PendingPages
<1>16. Working'
  BY <1>1, <1>2, <1>3, <1>5 DEF IInv, Working, PagesOf, Listed, PendingPages, Node
<1>17. Prepared' /\ Durable'
  BY <1>1 DEF Prepared, Durable
<1>18. Snapshots'
  <2>1. held' = held
    BY <1>2 DEF held, Readable
  <2>2. \A r \in held : snap[r].txid <= meta'.txid
    BY <1>1, <1>2, <1>5 DEF IInv, Snapshots, TypeOK, Metas, held
  <2>3. \A r \in held : \A p \in PagesOf(snap[r].tree) : p < committed'
    <3>1. committed <= next.count /\ committed \in Nat
      BY <1>1, <1>5 DEF IInv, Counts, TypeOK
    <3>. QED  BY <1>2, <1>5, <3>1 DEF IInv, Snapshots, PagesOf, Pages
  <2>. QED  BY <1>1, <1>2, <1>3, <2>1, <2>2, <2>3 DEF IInv, Snapshots, PagesOf, Node
<1>. QED  BY <1>1, <1>3, <1>9, <1>10, <1>11, <1>12, <1>13, <1>14, <1>15, <1>16, <1>17, <1>18 DEF IInv

-----------------------------------------------------------------------------
(* The inductive invariant: opening, rolling back, closing and crashing.   *)

\* loadMeta's choice is the newer of the two meta pages.
LEMMA ChosenIsNewest ==
    ASSUME NEW f \in Metas, NEW s \in Metas
    PROVE  /\ Chosen(f, s) \in {f, s}
           /\ f.txid <= Chosen(f, s).txid
           /\ s.txid <= Chosen(f, s).txid
<1>1. f.txid \in Nat /\ s.txid \in Nat
  BY DEF Metas
<1>. QED  BY <1>1 DEF Chosen, Loaded, Readable

\* Away from the end of a commit every outcome of a crash is the committed
\* state.
LEMMA SettledChoice ==
    ASSUME IInv, pc \notin {"creating", "meta"},
           NEW f \in slotMaybe[0], NEW s \in slotMaybe[1]
    PROVE  /\ Chosen(f, s) \in Metas
           /\ Same(Chosen(f, s), Base)
           /\ Fits(Chosen(f, s))
           /\ Behind(f, Chosen(f, s)) /\ Behind(s, Chosen(f, s))
<1>1. f \in Metas /\ s \in Metas
  BY DEF IInv, TypeOK, Slots
<1>2. Behind(f, Base) /\ Behind(s, Base) /\ (f.txid = Base.txid \/ s.txid = Base.txid)
  BY DEF IInv, SlotsSettled, Slots
<1>3. f.txid \in Nat /\ s.txid \in Nat
  BY <1>1 DEF Metas
<1>4. Chosen(f, s).txid = Base.txid /\ Behind(Chosen(f, s), Base)
  BY <1>1, <1>2, <1>3, ChosenIsNewest DEF Behind
<1>5. Same(Chosen(f, s), Base) /\ Fits(Chosen(f, s))
  BY <1>4 DEF Behind
<1>6. Behind(f, Chosen(f, s)) /\ Behind(s, Chosen(f, s))
  BY <1>2, <1>5 DEF Behind, Same
<1>. QED  BY <1>1, <1>5, <1>6, ChosenIsNewest

\* Whatever a crash leaves in the meta pages, the one Open then chooses is
\* whole, is not behind anything reported, and the other is behind it.
LEMMA CrashChoice ==
    ASSUME IInv, NEW f \in slotMaybe[0], NEW s \in slotMaybe[1]
    PROVE  /\ Chosen(f, s) \in Metas
           /\ Safe(Chosen(f, s))
           /\ Fits(Chosen(f, s))
           /\ acked <= Chosen(f, s).txid
           /\ Behind(f, Chosen(f, s)) /\ Behind(s, Chosen(f, s))
<1> DEFINE c == Chosen(f, s)
<1>1. f \in Metas /\ s \in Metas /\ c \in Metas /\ c \in {f, s}
  BY ChosenIsNewest DEF IInv, TypeOK, Slots
<1>2. f.txid \in Nat /\ s.txid \in Nat /\ f.txid <= c.txid /\ s.txid <= c.txid
  BY <1>1, ChosenIsNewest DEF Metas
<1>3. CASE pc \notin {"creating", "meta"}
  <2>1. Same(c, Base) /\ Fits(c) /\ Behind(f, c) /\ Behind(s, c)
    BY <1>3, SettledChoice
  <2>2. Safe(c) /\ acked <= c.txid
    BY <2>1 DEF IInv, BaseSafe, Safe, Same, AckedBehind
  <2>. QED  BY <1>1, <2>1, <2>2
<1>4. CASE pc = "creating"
  <2>1. /\ Same(f, NoMeta) \/ f = FirstMeta
        /\ Same(s, NoMeta) \/ s = FirstMeta
    BY <1>4 DEF IInv, SlotsInDoubt, Slots
  <2>2. /\ FirstMeta.txid = 1 /\ FirstMeta.tree = EmptyTree /\ FirstMeta.list = {}
        /\ FirstMeta.chain = {}
        /\ NoMeta.txid = 0 /\ NoMeta.tree = EmptyTree /\ NoMeta.list = {}
        /\ NoMeta.chain = {}
    BY DEF FirstMeta, NoMeta
  <2>3. \A m \in {f, s} : /\ m.tree = EmptyTree /\ m.list = {} /\ m.chain = {}
                          /\ PagesOf(m.tree) = {}
    BY <2>1, <2>2 DEF Same, PagesOf, EmptyTree
  <2>4. Safe(c) /\ Fits(c) /\ Fits(f) /\ Fits(s)
    BY <1>1, <2>3 DEF Safe, Fits
  <2>5. acked <= c.txid
    BY <1>1, <1>2, <1>4 DEF IInv, AckedBehind
  <2>6. Behind(f, c) /\ Behind(s, c)
    BY <1>1, <1>2, <2>3, <2>4 DEF Behind, Same
  <2>. QED  BY <1>1, <2>4, <2>5, <2>6
<1>5. CASE pc = "meta"
  <2>1. nextMeta \in Slots /\ Up /\ meta.txid \in Nat /\ Base = meta
    BY <1>5 DEF IInv, TypeOK, Metas, Up, Base
  <2>2. /\ next.txid = meta.txid + 1 /\ next.tree = tree /\ next.count = meta.count
        /\ next.list = ready \cup PendingPages
        /\ \A p \in next.chain : p < meta.count /\ now[p] = List(next.txid)
        /\ next.chain \cap (PagesOf(tree) \cup ready \cup PendingPages) = {}
        /\ next \in Metas
    BY <1>5 DEF IInv, Prepared, tx, TypeOK
  <2>3. Fits(next)
    <3>1. \A p \in PagesOf(tree) \cup Listed : p < meta.count
      BY <2>1 DEF IInv, Counts
    <3>. QED  BY <2>2, <3>1 DEF Fits, Listed
  <2>4. Safe(next)
    <3>1. \A p \in Pages : maybe[p] = {now[p]}
      BY <1>5 DEF IInv, Durable
    <3>2. \A p \in PagesOf(tree) : p \in Pages /\ now[p] = Node(tree[p])
      BY <1>5 DEF IInv, Working, PagesOf
    <3>3. PagesOf(tree) \cap Listed = {}
      BY <1>5 DEF IInv, Working
    <3>4. next.chain \subseteq Pages
      BY <2>2 DEF Metas
    <3>. QED  BY <2>2, <3>1, <3>2, <3>3, <3>4 DEF Safe, Listed
  <2>5. Behind(next, next)
    BY <2>2, <2>3 DEF Behind, Same, Metas
  <2>6. \A m \in {f, s} : Behind(m, meta) \/ m = next
    BY <1>5, <2>1, OtherIsSlot DEF IInv, SlotsInDoubt, Slots, Other, Behind, Same, TypeOK, Metas
  <2>7. \E m \in {f, s} : Same(m, meta)
    BY <1>5, <2>1 DEF IInv, SlotsInDoubt, Slots, Other
  <2>8. acked <= meta.txid /\ acked \in Nat /\ Safe(meta)
    BY <2>1 DEF IInv, AckedBehind, BaseSafe, TypeOK
  <2>9. CASE c = next
    <3>1. Behind(f, c) /\ Behind(s, c)
      BY <1>2, <2>1, <2>2, <2>5, <2>6, <2>9 DEF Behind
    <3>. QED  BY <1>1, <2>1, <2>2, <2>3, <2>4, <2>8, <2>9, <3>1
  <2>10. CASE c # next
    <3>1. f # next /\ s # next
      BY <1>1, <1>2, <2>1, <2>2, <2>6, <2>10 DEF Behind
    <3>2. c.txid = meta.txid
      BY <1>1, <1>2, <2>1, <2>6, <2>7, <3>1 DEF Behind, Same
    <3>3. Same(c, meta) /\ Fits(c)
      BY <1>1, <2>6, <2>10, <3>2 DEF Behind
    <3>4. Behind(f, c) /\ Behind(s, c)
      BY <2>6, <3>1, <3>3 DEF Behind, Same
    <3>5. Safe(c) /\ acked <= c.txid
      BY <2>8, <3>3 DEF Safe, Same
    <3>. QED  BY <1>1, <3>3, <3>4, <3>5
  <2>. QED  BY <2>9, <2>10
<1>. QED  BY <1>3, <1>4, <1>5

\* Loading the newer meta page and its list restores the committed state.
LEMMA LoadInv ==
    ASSUME IInv, TypeOK', Load, pc \in {"idle", "failed", "down"},
           held' = {}, acked' = acked \/ acked' = Chosen(slot[0], slot[1]).txid
    PROVE  IInv'
<1> DEFINE chosen == Loaded(slot[0], slot[1])
           m == slot[chosen]
<1>1. slot[0] \in slotMaybe[0] /\ slot[1] \in slotMaybe[1] /\ TypeOK
  BY DEF IInv, Truthful, Slots
<1>2. chosen \in Slots /\ m = Chosen(slot[0], slot[1])
  BY ChosenIsOne DEF Chosen, Slots
<1>3. /\ m \in Metas /\ Safe(m) /\ Fits(m) /\ Same(m, Base) /\ acked <= m.txid
      /\ Behind(slot[0], m) /\ Behind(slot[1], m)
  BY <1>1, <1>2, CrashChoice, SettledChoice
<1>4. /\ m.txid \in Nat /\ m.count \in 2 .. MaxPages /\ m.chain \subseteq Pages
      /\ m.list \subseteq Pages /\ m.tree \in Trees
  BY <1>3 DEF Metas
<1>5. \A p \in Pages : now[p] \in maybe[p]
  BY DEF IInv, Truthful
<1>6. ListReadable(m)
  BY <1>3, <1>4, <1>5 DEF ListReadable, Safe, Fits, Pages
<1>7. /\ meta' = m /\ nextMeta' = Other(chosen) /\ committed' = m.count /\ taken' = {}
      /\ ready' = m.list /\ chain' = m.chain /\ pending' = [p \in Pages |-> 0]
      /\ freeing' = {} /\ seen' = {} /\ twice' = {} /\ tree' = m.tree /\ pc' = "idle"
      /\ UNCHANGED <<now, maybe, slot, slotMaybe>>
  BY <1>6 DEF Load, readFreelist, disk
<1>8. Up' /\ Base' = m /\ Listed' = m.list /\ PendingPages' = {}
  BY <1>7 DEF Up, Base, Listed, PendingPages
<1>9. SlotsSettled' /\ SlotsInDoubt'
  BY <1>3, <1>7, <1>8 DEF IInv, SlotsSettled, SlotsInDoubt, Behind, Same, Fits, PagesOf
<1>10. Truthful' /\ BaseSafe'
  BY <1>3, <1>7, <1>8 DEF IInv, Truthful, BaseSafe, Safe, PagesOf, Node, List
<1>11. OtherSlot'
  <2>1. /\ Other(chosen) \in Slots /\ Other(Other(chosen)) = chosen
    BY <1>2, OtherIsSlot
  <2>2. slot[Other(chosen)].txid <= m.txid
    BY <1>3, <2>1 DEF Behind, Slots
  <2>. QED  BY <1>4, <1>7, <2>1, <2>2 DEF OtherSlot
<1>12. Counts'
  BY <1>3, <1>4, <1>7, <1>8 DEF Counts, Fits, PagesOf
<1>13. Protected' /\ Freed' /\ ListsApart'
  <2>1. m.list \cap (PagesOf(m.tree) \cup m.chain) = {}
    BY <1>3 DEF Safe
  <2>2. tx' \in Nat /\ tx' # 0
    BY <1>4, <1>7 DEF tx
  <2>3. Protected'
    BY <1>4, <1>7, <2>1 DEF Protected, PagesOf
  <2>4. Freed'
    BY <1>7, <2>2 DEF Freed
  <2>. QED  BY <1>7, <1>8, <2>3, <2>4 DEF ListsApart
<1>14. Working'
  <2>1. \A p \in PagesOf(m.tree) : now[p] = Node(m.tree[p]) /\ p \notin m.chain
    BY <1>3, <1>5 DEF Safe, PagesOf, Node, List
  <2>2. PagesOf(m.tree) \cap m.list = {}
    BY <1>3 DEF Safe
  <2>. QED  BY <1>7, <1>8, <2>1, <2>2 DEF Working, PagesOf, Node
<1>15. Prepared' /\ Durable' /\ Empty'
  BY <1>7 DEF Prepared, Durable, Empty
<1>16. Snapshots' /\ AckedBehind'
  BY <1>2, <1>3, <1>4, <1>7, <1>8 DEF Snapshots, AckedBehind
<1>. QED  BY <1>9, <1>10, <1>11, <1>12, <1>13, <1>14, <1>15, <1>16 DEF IInv

\* OpenWith finds the committed state, and its list reads back.
LEMMA OpenInv == ASSUME IInv, Open  PROVE IInv'
<1>1. TypeOK'
  BY LifetimeType DEF IInv, Lifetime
<1>2. held' = {}
  BY DEF Open, held, Readable, NoMeta
<1>. QED  BY <1>1, <1>2, LoadInv DEF Open

\* A rollback under no snapshot returns to the committed state.
LEMMA RollbackInv == ASSUME IInv, held = {}, Rollback  PROVE IInv'
<1>1. TypeOK'
  BY LifetimeType DEF IInv
<1>2. held' = {}
  BY DEF Rollback, held, Readable
<1>. QED  BY <1>1, <1>2, LoadInv DEF Rollback

\* A process that is gone leaves nothing but the file: if what Open would
\* choose from it is whole and nothing newer is in doubt, all is well.
LEMMA DownInv ==
    ASSUME IInv, TypeOK', Forget, pc' = "down", UNCHANGED acked, Truthful',
           Safe(Base'), acked <= Base.txid',
           \A s \in Slots : slotMaybe'[s] \subseteq slotMaybe[s],
           \A s \in Slots : \A m \in slotMaybe'[s] : Behind(m, Base'),
           \E s \in Slots : \A m \in slotMaybe'[s] : m.txid = Base.txid',
           \A p \in Pages : maybe'[p] \subseteq maybe[p]
    PROVE  IInv'
<1>1. ~Up' /\ held' = {} /\ acked' = acked
  BY DEF Forget, Up, held, Readable, NoMeta
<1>2. Base' \in Metas
  <2>1. slot'[0] \in Metas /\ slot'[1] \in Metas
    BY DEF TypeOK, Slots
  <2>. QED  BY <1>1, <2>1, ChosenIsOne DEF Base, Chosen
<1>3. BaseSafe'
  BY <1>2, SafeStays DEF BaseSafe, Safe, PagesOf, Node, List
<1>4. SlotsSettled' /\ SlotsInDoubt'
  <2>1. \A s \in Slots : \A m \in slotMaybe'[s] : m.txid = 0 => Same(m, NoMeta)
    BY DEF IInv, SlotsInDoubt
  <2>. QED  BY <1>1, <2>1 DEF SlotsSettled, SlotsInDoubt, Behind, Same, Fits, PagesOf
<1>5. OtherSlot' /\ Counts' /\ Protected' /\ Freed' /\ ListsApart'
  BY <1>1 DEF OtherSlot, Counts, Protected, Freed, ListsApart
<1>6. Working' /\ Prepared' /\ Durable' /\ Snapshots'
  BY <1>1 DEF Working, Prepared, Durable, Snapshots
<1>7. AckedBehind' /\ Empty'
  BY <1>1 DEF AckedBehind, Empty, Forget
<1>. QED  BY <1>3, <1>4, <1>5, <1>6, <1>7 DEF IInv

\* Power lost at any moment, whatever part of the unsynced writes it keeps.
LEMMA CrashInv == ASSUME IInv, Crash  PROVE IInv'
<1>1. TypeOK' /\ Forget /\ pc' = "down" /\ UNCHANGED acked /\ ~Up'
  BY LifetimeType DEF IInv, Lifetime, Crash, hist, Up
<1>2. /\ \A p \in Pages : maybe'[p] \subseteq maybe[p]
      /\ \A p \in Pages : now'[p] \in maybe'[p]
  BY DEF Crash
<1>3. PICK f \in slotMaybe[0], s \in slotMaybe[1] :
         /\ slot' = [x \in Slots |-> IF x = 0 THEN f ELSE s]
         /\ slotMaybe' = [x \in Slots |-> IF x = 0 THEN {f} ELSE {s}]
  BY DEF Crash
<1>4. /\ slot'[0] = f /\ slot'[1] = s /\ slotMaybe'[0] = {f} /\ slotMaybe'[1] = {s}
  BY <1>3 DEF Slots
<1>5. Base' = Chosen(f, s)
  BY <1>1, <1>4 DEF Base, Chosen, Loaded, Readable
<1>6. /\ Safe(Chosen(f, s)) /\ acked <= Chosen(f, s).txid
      /\ Behind(f, Chosen(f, s)) /\ Behind(s, Chosen(f, s)) /\ Chosen(f, s) \in {f, s}
  BY CrashChoice, ChosenIsOne
<1>7. Truthful'
  BY <1>2, <1>4 DEF Truthful, Slots
<1>8. \A x \in Slots : \A m \in slotMaybe'[x] : Behind(m, Base')
  BY <1>4, <1>5, <1>6 DEF Slots
<1>9. \E x \in Slots : \A m \in slotMaybe'[x] : m.txid = Base.txid'
  BY <1>4, <1>5, <1>6 DEF Slots
<1>10. \A x \in Slots : slotMaybe'[x] \subseteq slotMaybe[x]
  BY <1>4 DEF Slots
<1>. QED  BY <1>1, <1>2, <1>5, <1>6, <1>7, <1>8, <1>9, <1>10, DownInv

\* A process that dies with nothing in doubt leaves what it had committed.
LEMMA KillInv == ASSUME IInv, pc \notin {"meta", "creating"}, Kill  PROVE IInv'
<1>1. /\ TypeOK' /\ Forget /\ pc' = "down" /\ ~Up'
      /\ UNCHANGED <<now, maybe, slot, slotMaybe, acked>>
  BY LifetimeType DEF IInv, Kill, hist, Up, disk
<1>2. slot[0] \in slotMaybe[0] /\ slot[1] \in slotMaybe[1] /\ Truthful'
  BY <1>1 DEF IInv, Truthful, Slots
<1>3. Base' = Chosen(slot[0], slot[1])
  BY <1>1 DEF Base
<1>4. Same(Base', Base) /\ Safe(Base') /\ acked <= Base.txid'
  BY <1>2, <1>3, SettledChoice, CrashChoice
<1>5. /\ \A s \in Slots : \A m \in slotMaybe[s] : Behind(m, Base')
      /\ \E s \in Slots : \A m \in slotMaybe[s] : m.txid = Base.txid'
  BY <1>4 DEF IInv, SlotsSettled, Behind, Same
<1>. QED  BY <1>1, <1>2, <1>4, <1>5, DownInv

\* Close writes the committed state again, marked, over the other meta page.
LEMMA CloseInv == ASSUME IInv, Close  PROVE IInv'
<1>1. /\ TypeOK' /\ TypeOK /\ pc \in {"idle", "failed"} /\ pc' = "closing" /\ Up /\ Up'
      /\ nextMeta \in Slots /\ meta \in Metas
  BY LifetimeType DEF IInv, Lifetime, Close, Up, TypeOK
<1>2. /\ UNCHANGED <<meta, nextMeta, committed, taken, ready, pending, freeing, seen, chain, twice>>
      /\ UNCHANGED <<tree, snap, next, acked, now, maybe>>
  BY DEF Close, mem, list, disk, writeMeta
<1> DEFINE marked == [meta EXCEPT !.clean = TRUE]
<1>3. Same(marked, meta) /\ marked.count = meta.count /\ marked.txid = meta.txid
  BY <1>1 DEF Same, Metas
<1>4. Base = meta /\ Base' = meta
  BY <1>1, <1>2 DEF Base
<1>5. Behind(marked, meta)
  <2>1. \A p \in PagesOf(meta.tree) \cup meta.list \cup meta.chain : p < committed /\ p \in Pages
    BY <1>1 DEF IInv, Counts, PagesOf, Metas
  <2>2. committed <= meta.count /\ committed \in Nat /\ meta.count \in Nat
    BY <1>1 DEF IInv, Counts, TypeOK, Metas
  <2>3. Fits(marked)
    BY <1>3, <2>1, <2>2 DEF Fits, Same, Pages
  <2>. QED  BY <1>1, <1>3, <2>3 DEF Behind, Metas
<1>6. /\ \A s \in Slots : \A m \in slotMaybe[s] : Behind(m, meta)
      /\ \E s \in Slots : \A m \in slotMaybe[s] : m.txid = meta.txid
      /\ \A s \in Slots : \A m \in slotMaybe[s] : m.txid = 0 => Same(m, NoMeta)
  BY <1>1, <1>4 DEF IInv, SlotsSettled, SlotsInDoubt
<1>7. meta.txid = 0 => Same(marked, NoMeta)
  <2>1. PICK s \in Slots : slot[s].txid = meta.txid /\ slot[s] \in slotMaybe[s]
    BY <1>6 DEF IInv, Truthful
  <2>. QED  BY <1>3, <1>6, <2>1 DEF Behind, Same
<1>8. \/ UNCHANGED <<slot, slotMaybe>>
      \/ /\ slot' = [slot EXCEPT ![nextMeta] = marked]
         /\ slotMaybe' = [slotMaybe EXCEPT ![nextMeta] = @ \cup {marked}]
  BY DEF Close, writeMeta, disk
<1>9. SlotsSettled' /\ SlotsInDoubt'
  <2>1. \A s \in Slots : \A m \in slotMaybe'[s] : m \in slotMaybe[s] \/ m = marked
    BY <1>1, <1>8 DEF TypeOK
  <2>2. \A s \in Slots : \A m \in slotMaybe'[s] : Behind(m, meta) /\ (m.txid = 0 => Same(m, NoMeta))
    BY <1>3, <1>5, <1>6, <1>7, <2>1
  <2>3. \E s \in Slots : \A m \in slotMaybe'[s] : m.txid = meta.txid
    BY <1>3, <1>6, <2>1
  <2>. QED  BY <1>1, <1>4, <2>2, <2>3 DEF SlotsSettled, SlotsInDoubt, Behind, Same, Fits, PagesOf
<1>10. Truthful' /\ BaseSafe'
  <2>1. Truthful'
    BY <1>1, <1>2, <1>8 DEF IInv, Truthful, TypeOK
  <2>. QED  BY <1>2, <1>4, <2>1 DEF IInv, BaseSafe, Safe, PagesOf, Node, List
<1>11. OtherSlot' /\ AckedBehind' /\ Empty'
  <2>1. Other(nextMeta) \in Slots /\ Other(nextMeta) # nextMeta
    BY <1>1, OtherIsSlot
  <2>2. slot[Other(nextMeta)].txid = meta.txid /\ slot[nextMeta].txid <= meta.txid
    BY <1>1 DEF IInv, OtherSlot
  <2>3. slot'[Other(nextMeta)].txid = meta.txid /\ slot'[nextMeta].txid <= meta.txid
    <3>1. slot'[Other(nextMeta)] = slot[Other(nextMeta)]
      BY <1>1, <1>8, <2>1 DEF TypeOK
    <3>2. slot'[nextMeta] = slot[nextMeta] \/ slot'[nextMeta] = marked
      BY <1>1, <1>8 DEF TypeOK
    <3>3. marked.txid <= meta.txid
      BY <1>1, <1>3 DEF Metas
    <3>. QED  BY <2>2, <3>1, <3>2, <3>3
  <2>. QED  BY <1>1, <1>2, <1>4, <2>3 DEF IInv, OtherSlot, AckedBehind, Empty, Other
<1>12. Counts' /\ Protected' /\ Freed' /\ ListsApart'
  BY <1>1, <1>2 DEF IInv, Counts, Protected, Freed, ListsApart, PagesOf, Listed, PendingPages, tx
<1>13. Working' /\ Prepared' /\ Durable'
  BY <1>1 DEF Working, Prepared, Durable
<1>14. Snapshots'
  BY <1>1, <1>2 DEF IInv, Snapshots, held, Readable, PagesOf, Node
<1>. QED  BY <1>1, <1>9, <1>10, <1>11, <1>12, <1>13, <1>14 DEF IInv

\* The end of a close, synced or not.
LEMMA CloseDoneInv == ASSUME IInv, CloseDone  PROVE IInv'
<1>1. TypeOK' /\ Forget /\ pc = "closing" /\ pc' = "down" /\ ~Up' /\ UNCHANGED acked
  BY LifetimeType DEF IInv, Lifetime, CloseDone, Up, hist
<1>2. Sync \/ UNCHANGED <<now, maybe, slot, slotMaybe>>
  BY DEF CloseDone, disk
<1>3. /\ slot' = slot /\ Truthful'
      /\ \A p \in Pages : maybe'[p] \subseteq maybe[p]
      /\ \A s \in Slots : slotMaybe'[s] \subseteq slotMaybe[s]
  <2>1. CASE Sync
    BY <2>1, SyncFacts
  <2>2. CASE UNCHANGED <<now, maybe, slot, slotMaybe>>
    BY <2>2 DEF IInv, Truthful
  <2>. QED  BY <1>2, <2>1, <2>2
<1>4. slot[0] \in slotMaybe[0] /\ slot[1] \in slotMaybe[1]
  BY DEF IInv, Truthful, Slots
<1>5. Base' = Chosen(slot[0], slot[1])
  BY <1>1, <1>3 DEF Base
<1>6. Same(Base', Base) /\ Safe(Base') /\ acked <= Base.txid'
  BY <1>1, <1>4, <1>5, SettledChoice, CrashChoice
<1>7. /\ \A s \in Slots : \A m \in slotMaybe'[s] : Behind(m, Base')
      /\ \E s \in Slots : \A m \in slotMaybe'[s] : m.txid = Base.txid'
  BY <1>1, <1>3, <1>6 DEF IInv, SlotsSettled, Behind, Same
<1>. QED  BY <1>1, <1>3, <1>6, <1>7, DownInv

\* CreateWith writes both meta pages over a file that holds nothing.
LEMMA CreateInv == ASSUME IInv, Create  PROVE IInv'
<1>1. TypeOK' /\ TypeOK /\ pc = "absent" /\ pc' = "creating" /\ ~Up /\ ~Up' /\ Slots = {0, 1}
  BY LifetimeType DEF IInv, Lifetime, Create, Up, Slots
<1>2. /\ slot' = [s \in Slots |-> FirstMeta]
      /\ slotMaybe' = [s \in Slots |-> slotMaybe[s] \cup {FirstMeta}]
      /\ meta' = FirstMeta /\ nextMeta' = 0 /\ committed' = FirstMeta.count
      /\ UNCHANGED <<now, maybe, taken, ready, pending, freeing, seen, chain, twice>>
      /\ UNCHANGED <<tree, snap, next, acked>>
  BY DEF Create, list, hist
<1>3. /\ FirstMeta.txid = 1 /\ PagesOf(FirstMeta.tree) = {} /\ FirstMeta.list = {}
      /\ FirstMeta.chain = {} /\ FirstMeta.count = 2
  BY DEF FirstMeta, NoMeta, PagesOf, EmptyTree
<1>4. \A s \in Slots : \A m \in slotMaybe[s] : Same(m, NoMeta)
  <2> SUFFICES ASSUME NEW s \in Slots, NEW m \in slotMaybe[s] PROVE Same(m, NoMeta)
    OBVIOUS
  <2>1. m.txid <= 0 /\ m.txid \in Nat
    BY <1>1 DEF IInv, SlotsSettled, Behind, Empty, TypeOK, Metas
  <2>. QED  BY <2>1 DEF IInv, SlotsInDoubt
<1>5. SlotsInDoubt' /\ SlotsSettled'
  <2>1. \A s \in Slots : \A m \in slotMaybe'[s] :
           (Same(m, NoMeta) \/ m = FirstMeta) /\ (m.txid = 0 => Same(m, NoMeta))
    BY <1>2, <1>3, <1>4
  <2>. QED  BY <1>1, <2>1 DEF SlotsInDoubt, SlotsSettled
<1>6. Truthful'
  BY <1>2 DEF IInv, Truthful
<1>7. Base' = FirstMeta
  BY <1>1, <1>2 DEF Base, Chosen, Loaded
<1>8. BaseSafe'
  BY <1>3, <1>7 DEF BaseSafe, Safe, PagesOf
<1>9. OtherSlot' /\ Counts' /\ Protected' /\ Freed' /\ ListsApart'
  BY <1>1 DEF OtherSlot, Counts, Protected, Freed, ListsApart
<1>10. Working' /\ Prepared' /\ Durable'
  BY <1>1 DEF Working, Prepared, Durable
<1>11. Snapshots'
  <2>1. held = {} /\ held' = held
    BY <1>1, <1>2 DEF IInv, Snapshots, held, Readable
  <2>. QED  BY <2>1 DEF Snapshots
<1>12. AckedBehind' /\ Empty'
  BY <1>1, <1>2, <1>3, <1>7 DEF IInv, AckedBehind, Empty
<1>. QED  BY <1>1, <1>5, <1>6, <1>8, <1>9, <1>10, <1>11, <1>12 DEF IInv

\* CreateWith has synced: the file holds the empty database.
LEMMA CreateDoneInv == ASSUME IInv, CreateDone  PROVE IInv'
<1>1. TypeOK' /\ TypeOK /\ Sync /\ pc = "creating" /\ pc' = "idle" /\ ~Up /\ Up' /\ Slots = {0, 1}
  BY LifetimeType DEF IInv, Lifetime, CreateDone, Up, Slots
<1>2. /\ UNCHANGED <<meta, nextMeta, committed, taken, ready, pending, freeing, seen, chain, twice>>
      /\ UNCHANGED <<tree, snap, next>> /\ acked' = 1
  BY DEF CreateDone, mem, list
<1>3. /\ now' = now /\ slot' = slot
      /\ \A s \in Slots : slotMaybe'[s] = {slot[s]}
      /\ Truthful'
  BY <1>1, SyncFacts
<1>4. /\ meta = FirstMeta /\ nextMeta = 0 /\ ready = {} /\ freeing = {} /\ taken = {}
      /\ chain = {} /\ twice = {} /\ seen = {} /\ pending = [p \in Pages |-> 0]
      /\ tree = EmptyTree
  BY <1>1 DEF IInv, Empty
<1>5. /\ FirstMeta.txid = 1 /\ PagesOf(FirstMeta.tree) = {} /\ FirstMeta.list = {}
      /\ FirstMeta.chain = {} /\ FirstMeta.count = 2 /\ PagesOf(EmptyTree) = {}
  BY DEF FirstMeta, NoMeta, PagesOf, EmptyTree
<1>6. \A s \in Slots : slot[s] = FirstMeta
  BY <1>1 DEF IInv, Empty
<1>7. Base' = FirstMeta /\ Fits(FirstMeta) /\ Same(FirstMeta, FirstMeta)
  BY <1>1, <1>2, <1>4, <1>5 DEF Base, Fits, Same
<1>8. SlotsSettled' /\ SlotsInDoubt'
  BY <1>1, <1>3, <1>5, <1>6, <1>7 DEF SlotsSettled, SlotsInDoubt, Behind, Same, Fits, PagesOf
<1>9. BaseSafe'
  BY <1>5, <1>7 DEF BaseSafe, Safe, PagesOf
<1>10. OtherSlot' /\ AckedBehind' /\ Empty'
  BY <1>1, <1>2, <1>3, <1>4, <1>5, <1>6, <1>7 DEF OtherSlot, AckedBehind, Empty, Other
<1>11. PendingPages' = {} /\ Listed' = {} /\ tx' = 2
  BY <1>2, <1>4, <1>5 DEF PendingPages, Listed, tx
<1>12. Counts' /\ Protected' /\ Freed' /\ ListsApart' /\ Working'
  <2>1. committed' = 2
    BY <1>1, <1>2 DEF IInv, Empty
  <2>2. Counts'
    BY <1>2, <1>4, <1>5, <1>11, <2>1 DEF Counts, PagesOf
  <2>3. Protected'
    BY <1>2, <1>4, <1>5 DEF Protected, PagesOf
  <2>4. Freed'
    BY <1>2, <1>4, <1>11 DEF Freed
  <2>5. ListsApart'
    BY <1>2, <1>4, <1>11 DEF ListsApart
  <2>6. Working'
    BY <1>2, <1>4, <1>5, <1>11 DEF Working, PagesOf
  <2>. QED  BY <2>2, <2>3, <2>4, <2>5, <2>6
<1>13. Prepared' /\ Durable'
  BY <1>1 DEF Prepared, Durable
<1>14. Snapshots'
  <2>1. held = {} /\ held' = held
    BY <1>1, <1>2 DEF IInv, Snapshots, held, Readable
  <2>. QED  BY <1>1, <2>1 DEF Snapshots
<1>. QED  BY <1>1, <1>3, <1>8, <1>9, <1>10, <1>12, <1>13, <1>14 DEF IInv

\* A file nothing can be read from was never reported to exist.
LEMMA RecreateInv == ASSUME IInv, Recreate  PROVE IInv'
<1>1. /\ TypeOK' /\ TypeOK /\ pc = "down" /\ pc' = "absent" /\ ~Up /\ ~Up'
      /\ slot[0].txid = 0 /\ slot[1].txid = 0
  BY LifetimeType DEF IInv, Lifetime, Recreate, Up, Readable
<1>2. /\ UNCHANGED <<now, maybe, slot, slotMaybe>>
      /\ UNCHANGED <<meta, nextMeta, committed, taken, ready, pending, freeing, seen, chain, twice>>
      /\ UNCHANGED <<tree, snap, next, acked>>
  BY DEF Recreate, disk, mem, list, hist
<1>3. Base' = Base /\ Base.txid = 0
  BY <1>1, <1>2, ChosenIsOne DEF Base
<1>4. SlotsSettled' /\ SlotsInDoubt' /\ Truthful' /\ BaseSafe'
  BY <1>1, <1>2, <1>3 DEF IInv, SlotsSettled, SlotsInDoubt, Truthful, BaseSafe, Safe, Behind, Same, Fits
<1>5. OtherSlot' /\ Counts' /\ Protected' /\ Freed' /\ ListsApart'
  BY <1>1 DEF OtherSlot, Counts, Protected, Freed, ListsApart
<1>6. Working' /\ Prepared' /\ Durable'
  BY <1>1 DEF Working, Prepared, Durable
<1>7. Snapshots'
  <2>1. held = {} /\ held' = held
    BY <1>1, <1>2 DEF IInv, Snapshots, held, Readable
  <2>. QED  BY <2>1 DEF Snapshots
<1>8. AckedBehind' /\ Empty'
  BY <1>1, <1>2, <1>3 DEF IInv, AckedBehind, Empty, TypeOK
<1>. QED  BY <1>1, <1>4, <1>5, <1>6, <1>7, <1>8 DEF IInv

\* Taking a snapshot of the committed state, and letting one go.
LEMMA HoldInv == ASSUME IInv, Hold  PROVE IInv'
<1>1. PICK r \in Readers : Snapshot(r) \/ Release(r)
  BY DEF Hold
<1>2. /\ TypeOK' /\ TypeOK /\ pc = "idle" /\ pc' = pc /\ Up /\ Up'
  BY <1>1, LifetimeType DEF IInv, Snapshot, Release, Up
<1>3. /\ UNCHANGED <<now, maybe, slot, slotMaybe>>
      /\ UNCHANGED <<meta, nextMeta, committed, taken, ready, pending, freeing, seen, chain, twice>>
      /\ UNCHANGED <<tree, next, acked>>
      /\ snap' = [snap EXCEPT ![r] = meta] \/ snap' = [snap EXCEPT ![r] = NoMeta]
  BY <1>1 DEF Snapshot, Release, disk, mem, list, hist
<1>4. Base = meta /\ Base' = meta
  BY <1>2, <1>3 DEF Base
<1>5. SlotsSettled' /\ SlotsInDoubt' /\ OtherSlot' /\ AckedBehind' /\ Empty'
  BY <1>2, <1>3, <1>4
     DEF IInv, SlotsSettled, SlotsInDoubt, OtherSlot, AckedBehind, Empty, Other, Behind, Same, Fits
<1>6. Truthful' /\ BaseSafe'
  BY <1>3, <1>4 DEF IInv, Truthful, BaseSafe, Safe
<1>7. Counts' /\ Protected' /\ Freed' /\ ListsApart'
  BY <1>2, <1>3 DEF IInv, Counts, Protected, Freed, ListsApart, PagesOf, Listed, PendingPages, tx
<1>8. Working'
  BY <1>2, <1>3 DEF IInv, Working, PagesOf, Listed, PendingPages, Dirty, Node
<1>9. Prepared' /\ Durable'
  BY <1>2 DEF Prepared, Durable
<1>10. Snapshots'
  <2>1. /\ \A x \in Readers : snap'[x] \in {snap[x], meta, NoMeta}
        /\ NoMeta.txid = 0
    BY <1>2, <1>3 DEF TypeOK, NoMeta
  <2>2. \A p \in PagesOf(meta.tree) :
           /\ p \in Pages /\ now[p] = Node(meta.tree[p]) /\ p \notin ready /\ p \notin taken
           /\ p < committed /\ (pending[p] = 0 \/ pending[p] > meta.txid)
    BY <1>2, <1>4 DEF IInv, BaseSafe, Safe, Truthful, Protected, Counts, PagesOf
  <2>3. meta.txid <= meta.txid
    BY <1>2 DEF TypeOK, Metas
  <2> SUFFICES ASSUME NEW x \in held'
               PROVE  /\ snap'[x].txid <= meta.txid
                      /\ \A p \in PagesOf(snap'[x].tree) :
                            /\ now[p] = Node(snap'[x].tree[p])
                            /\ p \notin ready
                            /\ p \notin taken
                            /\ p < committed
                            /\ pending[p] = 0 \/ pending[p] > snap'[x].txid
    BY <1>2, <1>3 DEF Snapshots, PagesOf, Node
  <2>4. x \in Readers /\ snap'[x].txid # 0
    BY DEF held, Readable
  <2>5. CASE snap'[x] = meta
    BY <2>2, <2>3, <2>5
  <2>6. CASE snap'[x] = snap[x]
    <3>1. x \in held
      BY <2>4, <2>6 DEF held, Readable
    <3>. QED  BY <2>6, <3>1 DEF IInv, Snapshots
  <2>. QED  BY <2>1, <2>4, <2>5, <2>6
<1>. QED  BY <1>2, <1>5, <1>6, <1>7, <1>8, <1>9, <1>10 DEF IInv

-----------------------------------------------------------------------------
(* The theorems. *)

\* The invariant holds of a file that does not exist yet.
LEMMA InitInv == Init => IInv
<1> SUFFICES ASSUME Init PROVE IInv
  OBVIOUS
<1>1. TypeOK /\ pc = "absent" /\ ~Up /\ held = {} /\ NoMeta.txid = 0
  BY InitType DEF Init, Up, held, Readable, NoMeta
<1>2. /\ \A s \in Slots : slotMaybe[s] = {NoMeta} /\ slot[s] = NoMeta
      /\ \A p \in Pages : maybe[p] = {now[p]}
  BY DEF Init
<1>3. Base = NoMeta
  BY <1>1, <1>2, ChosenIsOne DEF Base, Slots
<1>4. /\ PagesOf(NoMeta.tree) = {} /\ NoMeta.list = {} /\ NoMeta.chain = {}
  BY DEF NoMeta, PagesOf, EmptyTree
<1>5. SlotsSettled /\ SlotsInDoubt
  BY <1>1, <1>2, <1>3, <1>4 DEF SlotsSettled, SlotsInDoubt, Behind, Same, Fits, Slots
<1>6. Truthful /\ BaseSafe
  BY <1>2, <1>3, <1>4 DEF Truthful, BaseSafe, Safe
<1>7. /\ OtherSlot /\ Counts /\ Protected /\ Freed /\ ListsApart
      /\ Working /\ Prepared /\ Durable /\ Snapshots
  BY <1>1 DEF OtherSlot, Counts, Protected, Freed, ListsApart, Working, Prepared, Durable, Snapshots
<1>8. AckedBehind /\ Empty
  BY <1>1, <1>3 DEF Init, AckedBehind, Empty
<1>. QED  BY <1>1, <1>5, <1>6, <1>7, <1>8 DEF IInv

\* Every step of the pager keeps the invariant.
LEMMA NextInv == IInv /\ [CarefulNext]_vars => IInv'
<1> SUFFICES ASSUME IInv, [CarefulNext]_vars PROVE IInv'
  OBVIOUS
<1>1. CASE Work
  BY <1>1, RewriteInv, ShrinkInv, GrowInv, CopyInv DEF Work
<1>2. CASE Failure
  BY <1>2, PlaceRefusedInv, WriteFailsInv DEF Failure
<1>3. CASE Commit
  BY <1>3, CommitListInv, CommitRefusedInv, CommitSyncInv, CommitSyncFailsInv,
     CommitMetaInv, CommitDoneInv DEF Commit
<1>4. CASE Lifetime
  BY <1>4, CreateInv, CreateDoneInv, OpenInv, RecreateInv, CloseInv, CloseDoneInv, CrashInv
     DEF Lifetime
<1>5. CASE Hold
  BY <1>5, HoldInv
<1>6. CASE held = {} /\ Rollback
  BY <1>6, RollbackInv
<1>7. CASE pc \notin {"meta", "creating"} /\ Kill
  BY <1>7, KillInv
<1>8. CASE UNCHANGED vars
  <2>1. /\ UNCHANGED <<now, maybe, slot, slotMaybe>>
        /\ UNCHANGED <<meta, nextMeta, committed, taken, ready, pending, freeing, seen, chain, twice>>
        /\ UNCHANGED <<tree, snap, next, pc, acked, closedAt>>
    BY <1>8 DEF vars, disk, mem, list, hist
  <2>2. Base' = Base /\ Up' = Up /\ Listed' = Listed /\ PendingPages' = PendingPages /\ tx' = tx
        /\ held' = held
    BY <2>1 DEF Base, Up, Listed, PendingPages, tx, held, Readable
  <2>3. TypeOK' /\ SlotsSettled' /\ SlotsInDoubt' /\ Truthful' /\ BaseSafe' /\ OtherSlot'
    BY <2>1, <2>2 DEF IInv, TypeOK, SlotsSettled, SlotsInDoubt, Truthful, BaseSafe, Safe,
                      OtherSlot, Other, Behind, Same, Fits
  <2>4. Counts' /\ Protected' /\ Freed' /\ ListsApart' /\ Prepared' /\ Durable'
    BY <2>1, <2>2 DEF IInv, Counts, Protected, Freed, ListsApart, Prepared, Durable
  <2>5. Working' /\ Snapshots' /\ AckedBehind' /\ Empty'
    BY <2>1, <2>2 DEF IInv, Working, Dirty, Snapshots, AckedBehind, Empty
  <2>. QED  BY <2>3, <2>4, <2>5 DEF IInv
<1>. QED  BY <1>1, <1>2, <1>3, <1>4, <1>5, <1>6, <1>7, <1>8 DEF CarefulNext

\* The inductive invariant holds of every state the pager reaches under a
\* careful caller.
THEOREM Invariance == CarefulSpec => []IInv
<1>1. Init => IInv
  BY InitInv
<1>2. IInv /\ [CarefulNext]_vars => IInv'
  BY NextInv
<1>. QED  BY <1>1, <1>2, PTL DEF CarefulSpec

\* A crash at any point of any commit, close or creation leaves a meta page
\* whose whole tree and whole list are in the file (Commit, pager.go), once
\* the file has been created.
THEOREM CrashSafety == CarefulSpec => []CrashSafe
<1>1. IInv => CrashSafe
  <2> SUFFICES ASSUME IInv, acked > 0, NEW f \in slotMaybe[0], NEW s \in slotMaybe[1]
               PROVE  Readable(Chosen(f, s)) /\ Intact(Chosen(f, s))
    BY DEF CrashSafe, Survivors
  <2> DEFINE c == Chosen(f, s)
  <2>1. c \in Metas /\ Safe(c) /\ Fits(c) /\ acked <= c.txid
    BY CrashChoice
  <2>2. acked \in Nat /\ c.txid \in Nat
    BY <2>1 DEF IInv, TypeOK, Metas
  <2>. QED  BY <2>1, <2>2 DEF Readable, Intact, Safe, Fits
<1>. QED  BY <1>1, Invariance, PTL

\* No crash loses a transaction whose Commit reported success, nor one that
\* an Open has shown (Commit and OpenWith, pager.go).
THEOREM AckedSafety == CarefulSpec => []NothingAckedIsLost
<1>1. IInv => NothingAckedIsLost
  <2> SUFFICES ASSUME IInv, NEW f \in slotMaybe[0], NEW s \in slotMaybe[1]
               PROVE  Chosen(f, s).txid >= acked
    BY DEF NothingAckedIsLost, Survivors
  <2>1. Chosen(f, s) \in Metas /\ acked <= Chosen(f, s).txid
    BY CrashChoice
  <2>2. acked \in Nat /\ Chosen(f, s).txid \in Nat
    BY <2>1 DEF IInv, TypeOK, Metas
  <2>. QED  BY <2>1, <2>2
<1>. QED  BY <1>1, Invariance, PTL

\* For a caller that rolls back every operation that failed, the tree and the
\* free list never claim the same page and the list holds no page twice,
\* through failed places, commits the quota or the disk refused, and the
\* promotion of pages that waited for snapshots (Free, promote, Allocate and
\* Commit, freelist.go and pager.go).  A caller that carries on after a failed
\* operation, as perform does (store/invoke.go), is outside CarefulSpec and
\* breaks it.
THEOREM OwnershipSafety == CarefulSpec => []OneOwner
<1>1. IInv => OneOwner
  <2> SUFFICES ASSUME IInv, pc = "idle"
               PROVE  /\ PagesOf(tree) \cap Listed = {}
                      /\ PagesOf(tree) \cap chain = {}
                      /\ chain \cap ready = {}
                      /\ ready \cap freeing = {}
                      /\ ready \cap PendingPages = {}
                      /\ freeing \cap PendingPages = {}
                      /\ twice = {}
    BY DEF OneOwner
  <2>1. Up
    BY DEF Up
  <2>2. chain = meta.chain
    BY <2>1 DEF IInv, Counts
  <2>. QED  BY <2>1, <2>2 DEF IInv, Working, ListsApart, Protected
<1>. QED  BY <1>1, Invariance, PTL

\* No page the writer's tree leads to is handed out and written over while it
\* is in use (place, btree/tree.go, and Allocate, freelist.go).
THEOREM ReadSafety == CarefulSpec => []ReadsBack
<1>1. IInv => ReadsBack
  BY DEF IInv, Working, ReadsBack
<1>. QED  BY <1>1, Invariance, PTL

\* Under a held snapshot nothing the snapshot can see is written over,
\* whatever is committed meanwhile (promote, freelist.go).
THEOREM SnapshotSafety == CarefulSpec => []SnapshotsHold
<1>1. IInv => SnapshotsHold
  BY DEF IInv, Snapshots, SnapshotsHold
<1>. QED  BY <1>1, Invariance, PTL

=============================================================================
