--------------------------- MODULE PagerPromises ---------------------------
(***************************************************************************)
(* What the inductive invariant of Pager is good for beyond the safety of  *)
(* crashes: the file implements an atomic store, a clean mark is only ever *)
(* read at the transaction it was made at, and no page is lost for good.   *)
(***************************************************************************)
EXTENDS PagerProofs

-----------------------------------------------------------------------------
(* What a crash may show.                                                  *)

\* Away from the end of a commit a crash shows the committed state.
LEMMA ShowsBase ==
    ASSUME IInv, pc \notin {"creating", "meta"}
    PROVE  MayShow = {Value(Base)}
<1>1. ASSUME NEW f \in slotMaybe[0], NEW s \in slotMaybe[1]
      PROVE  Value(Chosen(f, s)) = Value(Base)
  BY <1>1, SettledChoice DEF Same, Value
<1>2. slot[0] \in slotMaybe[0] /\ slot[1] \in slotMaybe[1]
  BY DEF IInv, Truthful, Slots
<1>3. Chosen(slot[0], slot[1]) \in Survivors
  BY <1>2 DEF Survivors
<1>4. ASSUME NEW m \in Survivors PROVE Value(m) = Value(Base)
  <2>1. PICK f \in slotMaybe[0], s \in slotMaybe[1] : m = Chosen(f, s)
    BY <1>4 DEF Survivors
  <2> QED
    BY <2>1, <1>1
<1> QED
  BY <1>3, <1>4 DEF MayShow

\* What Open and Rollback load is the committed state.
LEMMA LoadsBase ==
    ASSUME IInv, pc \notin {"creating", "meta"}
    PROVE  Value(Chosen(slot[0], slot[1])) = Value(Base)
<1>1. slot[0] \in slotMaybe[0] /\ slot[1] \in slotMaybe[1]
  BY DEF IInv, Truthful, Slots
<1> QED
  BY <1>1, SettledChoice DEF Same, Value

\* With the meta page of a commit written, a crash may also show that commit.
LEMMA ShowsNext ==
    ASSUME IInv, pc = "meta"
    PROVE  Value(next) \in MayShow /\ MayShow \subseteq {Value(meta), Value(next)}
<1>1. /\ nextMeta \in Slots /\ meta.txid \in Nat
      /\ next.txid = meta.txid + 1 /\ Readable(next)
  BY DEF IInv, TypeOK, Prepared, tx, Metas, Readable
<1>2. /\ \A m \in slotMaybe[Other(nextMeta)] : Same(m, meta)
      /\ \A m \in slotMaybe[nextMeta] : Behind(m, meta) \/ m = next
      /\ next \in slotMaybe[nextMeta]
  BY <1>1 DEF IInv, SlotsInDoubt, Truthful
<1>3. ASSUME NEW f \in slotMaybe[0], NEW s \in slotMaybe[1]
      PROVE  /\ Value(Chosen(f, s)) \in {Value(meta), Value(next)}
             /\ next \in {f, s} => Chosen(f, s) = next
  <2>1. /\ f \in Metas /\ s \in Metas
        /\ f.txid \in Nat /\ s.txid \in Nat
    BY <1>3 DEF IInv, TypeOK, Slots, Metas
  <2>2. \/ Same(f, meta) /\ (Behind(s, meta) \/ s = next)
        \/ Same(s, meta) /\ (Behind(f, meta) \/ f = next)
    BY <1>1, <1>2, <1>3 DEF Other, Slots
  <2>3. /\ Chosen(f, s) \in {f, s}
        /\ f.txid <= Chosen(f, s).txid /\ s.txid <= Chosen(f, s).txid
    BY <2>1, ChosenIsNewest
  <2>4. next \in {f, s} => Chosen(f, s) = next
    BY <1>1, <2>1, <2>2, <2>3 DEF Same, Behind
  <2>5. next \notin {f, s} => Same(Chosen(f, s), meta)
    BY <1>1, <2>1, <2>2, <2>3 DEF Same, Behind
  <2> QED
    BY <2>4, <2>5 DEF Same, Value
<1>4. next \in Survivors
  <2>1. slot[0] \in slotMaybe[0] /\ slot[1] \in slotMaybe[1]
    BY DEF IInv, Truthful, Slots
  <2>2. CASE nextMeta = 0
    BY <1>2, <1>3, <2>1, <2>2 DEF Survivors
  <2>3. CASE nextMeta = 1
    BY <1>2, <1>3, <2>1, <2>3 DEF Survivors
  <2> QED
    BY <1>1, <2>2, <2>3 DEF Slots
<1> QED
  BY <1>3, <1>4 DEF MayShow, Survivors

\* While the file is being created a crash shows nothing, or the empty tree.
LEMMA ShowsFirst ==
    ASSUME IInv, pc = "creating"
    PROVE  Value(FirstMeta) \in MayShow /\ MayShow \subseteq {Value(NoMeta), Value(FirstMeta)}
<1>1. /\ \A s \in Slots : \A m \in slotMaybe[s] : Same(m, NoMeta) \/ m = FirstMeta
      /\ FirstMeta \in slotMaybe[0] /\ FirstMeta \in slotMaybe[1]
  BY DEF IInv, SlotsInDoubt, Truthful, Empty, Slots
<1>2. ASSUME NEW m \in Survivors PROVE Value(m) \in {Value(NoMeta), Value(FirstMeta)}
  <2>1. PICK f \in slotMaybe[0], s \in slotMaybe[1] : m = Chosen(f, s)
    BY <1>2 DEF Survivors
  <2>2. m \in {f, s}
    BY <2>1 DEF Chosen
  <2>3. Same(m, NoMeta) \/ m = FirstMeta
    BY <1>1, <2>1, <2>2 DEF Slots
  <2> QED
    BY <2>3 DEF Same, Value
<1>3. FirstMeta \in Survivors
  <2>1. Chosen(FirstMeta, FirstMeta) = FirstMeta
    BY DEF Chosen
  <2> QED
    BY <1>1, <2>1 DEF Survivors
<1> QED
  BY <1>2, <1>3 DEF MayShow

Showing ==
    /\ pc \notin {"creating", "meta"} => MayShow = {Value(Base)}
    /\ pc = "meta" => Value(next) \in MayShow /\ MayShow \subseteq {Value(meta), Value(next)}
    /\ pc = "creating" => /\ Value(FirstMeta) \in MayShow
                          /\ MayShow \subseteq {Value(NoMeta), Value(FirstMeta)}

\* What a crash may show, in one place.
LEMMA Shows == IInv => Showing
BY ShowsBase, ShowsNext, ShowsFirst DEF Showing

-----------------------------------------------------------------------------
(* Callers know the committed state.                                       *)

\* Every step keeps what callers were told at the committed state.
LEMMA ToldStep == IInv /\ Told /\ [CarefulNext]_vars => Told'
<1> SUFFICES ASSUME IInv, Told, [CarefulNext]_vars PROVE Told'
  OBVIOUS
<1>1. CASE CommitDone
  BY <1>1 DEF CommitDone, Told
<1>2. CASE CreateDone
  <2>1. meta = FirstMeta /\ meta' = meta /\ acked' = 1
    BY <1>2 DEF CreateDone, mem, IInv, Empty
  <2> QED
    BY <2>1 DEF Told, FirstMeta, NoMeta
<1>3. CASE Open
  BY <1>3 DEF Open, Load, Chosen, Loaded, Told
<1>4. CASE Rollback
  <2>1. pc \notin {"creating", "meta"} /\ Up /\ acked' = acked
    BY <1>4 DEF Rollback, Up
  <2>2. meta' = Chosen(slot[0], slot[1])
    BY <1>4 DEF Rollback, Load, Chosen, Loaded
  <2>3. Value(meta') = Value(meta)
    BY <2>1, <2>2, LoadsBase DEF Base
  <2> QED
    BY <2>1, <2>3 DEF Told, Value
<1>5. ASSUME acked' = acked, ~Up' \/ (Up /\ meta'.txid = meta.txid) PROVE Told'
  BY <1>5 DEF Told
<1>6. CASE Work \/ Failure
  <2>1. acked' = acked /\ Up
    BY <1>6 DEF Work, Failure, RewriteInPlace, Shrink, Grow, Copy, PlaceCopy, PlaceRefused, WriteFails,
                hist, Up
  <2>2. meta' = meta \/ meta' = [meta EXCEPT !.count = @ + 1]
    BY <1>6 DEF Work, Failure, RewriteInPlace, Shrink, Grow, Copy, PlaceCopy, PlaceRefused, WriteFails,
                mem, Allocate
  <2>3. meta'.txid = meta.txid
    BY <2>2 DEF IInv, TypeOK, Metas
  <2> QED
    BY <1>5, <2>1, <2>3
<1>7. CASE CommitList \/ CommitRefused
  <2>1. acked' = acked /\ Up
    BY <1>7 DEF CommitList, CommitRefused, ListRefused, RollFreed, hist, Up
  <2>2. \E n : meta' = [meta EXCEPT !.count = n]
    BY <1>7 DEF CommitList, CommitRefused, ListRefused
  <2>3. meta'.txid = meta.txid
    BY <2>2 DEF IInv, TypeOK, Metas
  <2> QED
    BY <1>5, <2>1, <2>3
<1>8. CASE CommitSync \/ CommitSyncFails \/ CommitMeta \/ Close
  BY <1>5, <1>8 DEF CommitSync, CommitSyncFails, CommitMeta, Close, mem, hist, Up
<1>9. CASE Create \/ Recreate \/ CloseDone \/ Crash \/ Kill
  BY <1>5, <1>9 DEF Create, Recreate, CloseDone, Crash, Kill, hist, Up
<1>10. CASE Hold
  BY <1>5, <1>10 DEF Hold, Snapshot, Release, mem, hist, Up
<1>11. CASE UNCHANGED vars
  BY <1>5, <1>11 DEF vars, mem, hist, Up
<1> QED
  BY <1>1, <1>2, <1>3, <1>4, <1>6, <1>7, <1>8, <1>9, <1>10, <1>11 DEF CarefulNext, Commit, Lifetime

\* While the file is open, the version callers were told of is the committed
\* one: no commit is reported late or twice (Commit and OpenWith, pager.go).
THEOREM ToldAlways == CarefulSpec => []Told
<1>1. Init => Told
  BY DEF Init, Told, Up
<1> QED
  BY <1>1, ToldStep, Invariance, PTL DEF CarefulSpec

-----------------------------------------------------------------------------
(* Each step is a step of the atomic store.                                *)

\* A step that leaves the meta pages alone only changes the writer's value.
LEMMA Writes ==
    ASSUME TypeOK', MayShow' = MayShow, acked' = acked,
           pc \notin {"absent", "down"}, pc' \notin {"absent", "down"}
    PROVE  Abstract!Next
<1>1. tree' \in Trees
  BY DEF TypeOK
<1> QED
  BY <1>1 DEF Abstract!Next, Abstract!Write

\* The meta pages decide what a crash may show.
LEMMA SameSlots == ASSUME slotMaybe' = slotMaybe PROVE MayShow' = MayShow
BY DEF MayShow, Survivors

\* Leaving with the committed state, and nothing in doubt.
LEMMA Leaves ==
    ASSUME IInv, IInv', pc \notin {"creating", "meta"}, pc' = "down", Forget, slot' = slot,
           acked' = acked
    PROVE  Abstract!Next
<1>1. MayShow = {Value(Base)} /\ Value(Chosen(slot[0], slot[1])) = Value(Base)
  BY ShowsBase, LoadsBase
<1>2. MayShow' = {Value(Base)'}
  <2>1. Showing'
    BY Shows, PTL
  <2> QED
    BY <2>1 DEF Showing
<1>3. Value(Base)' = Value(Chosen(slot[0], slot[1]))
  BY DEF Base, Up, Value, Chosen, Loaded, Readable
<1>4. tree' = EmptyTree /\ MayShow' = {Value(Base)} /\ Value(Base) \in MayShow
  BY <1>1, <1>2, <1>3 DEF Forget
<1> QED
  BY <1>4 DEF Abstract!Next, Abstract!Leave

\* A step that stays open with the committed state, and nothing in doubt.
LEMMA Stays ==
    ASSUME IInv, IInv', pc \notin {"creating", "meta"}, pc' \notin {"creating", "meta"},
           Up, Up', Value(meta)' = Value(meta), acked' = acked
    PROVE  Abstract!Next
<1>1. MayShow = {Value(meta)}
  BY ShowsBase DEF Base
<1>2. MayShow' = {Value(Base)'}
  <2>1. Showing'
    BY Shows, PTL
  <2> QED
    BY <2>1 DEF Showing
<1>3. Value(Base)' = Value(meta)
  BY DEF Base, Value
<1>4. pc \notin {"absent", "down"} /\ pc' \notin {"absent", "down"} /\ TypeOK'
  BY DEF Up, IInv
<1> QED
  BY <1>1, <1>2, <1>3, <1>4, Writes

\* The meta page of a commit is written: the commit point.
LEMMA PointOfCommit == ASSUME IInv, IInv', Told, CommitMeta PROVE Abstract!Next
<1>1. /\ pc = "synced" /\ pc' = "meta" /\ writeMeta(nextMeta, next)
      /\ UNCHANGED <<meta, next, tree, acked>>
  BY DEF CommitMeta, mem, hist
<1>2. MayShow = {Value(meta)}
  BY <1>1, ShowsBase DEF Base, Up
<1>3. (Value(next) \in MayShow)' /\ (MayShow \subseteq {Value(meta), Value(next)})'
  <2>1. Showing'
    BY Shows, PTL
  <2> QED
    BY <1>1, <2>1 DEF Showing
<1>4. Value(next)' = Value(next) /\ Value(meta)' = Value(meta)
  BY <1>1 DEF Value
<1>5. \A s \in Slots : slotMaybe[s] \subseteq slotMaybe'[s]
  BY <1>1 DEF writeMeta, IInv, TypeOK
<1>6. MayShow \subseteq MayShow'
  BY <1>5 DEF MayShow, Survivors, Slots
<1>7. MayShow' = MayShow \cup {Value(next)}
  BY <1>2, <1>3, <1>4, <1>6
<1>8. Value(next) = [version |-> acked + 1, value |-> tree]
  BY <1>1 DEF IInv, Prepared, Told, Up, tx, Value
<1> QED
  BY <1>1, <1>7, <1>8 DEF Abstract!Next, Abstract!CommitPoint, Abstract!Version

\* The second sync: the commit is reported.
LEMMA Reports == ASSUME IInv, IInv', Told, CommitDone PROVE Abstract!Next
<1>1. /\ pc = "meta" /\ pc' = "idle" /\ meta' = next /\ acked' = next.txid /\ tree' = tree
  BY DEF CommitDone
<1>2. Value(next) \in MayShow
  BY <1>1, ShowsNext
<1>3. Value(next) = [version |-> acked + 1, value |-> tree] /\ next.txid = acked + 1
  BY <1>1 DEF IInv, Prepared, Told, Up, tx, Value
<1>4. pc' \notin {"creating", "meta"} /\ Up'
  BY <1>1 DEF Up
<1>5. MayShow' = {Value(Base)'}
  <2>1. Showing'
    BY Shows, PTL
  <2> QED
    BY <1>4, <2>1 DEF Showing
<1>6. Value(Base)' = Value(next)
  BY <1>1, <1>4 DEF Base, Value
<1> QED
  BY <1>1, <1>2, <1>3, <1>5, <1>6 DEF Abstract!Next, Abstract!CommitReported, Abstract!Version

\* CreateWith writes its meta pages: the first version is made from nothing.
LEMMA Creates == ASSUME IInv, IInv', Create PROVE Abstract!Next
<1>1. /\ pc = "absent" /\ pc' = "creating" /\ tree' = tree /\ acked' = acked
      /\ slotMaybe' = [s \in Slots |-> slotMaybe[s] \cup {FirstMeta}]
  BY DEF Create, hist
<1>2. tree = EmptyTree /\ acked = 0 /\ Base.txid = 0 /\ ~Up
  BY <1>1 DEF IInv, Empty, Up
<1>3. Base = Chosen(slot[0], slot[1]) /\ Base \in {slot[0], slot[1]}
  BY <1>2 DEF Base, Chosen
<1>4. Same(Base, NoMeta)
  BY <1>2, <1>3 DEF IInv, SlotsInDoubt, Truthful, Slots
<1>5. MayShow = {Value(NoMeta)}
  BY <1>1, <1>4, ShowsBase DEF Same, Value
<1>6. (Value(FirstMeta) \in MayShow)' /\ (MayShow \subseteq {Value(NoMeta), Value(FirstMeta)})'
  <2>1. Showing'
    BY Shows, PTL
  <2> QED
    BY <1>1, <2>1 DEF Showing
<1>7. MayShow \subseteq MayShow'
  BY <1>1 DEF MayShow, Survivors, Slots
<1>8. MayShow' = MayShow \cup {Value(FirstMeta)}
  BY <1>5, <1>6, <1>7
<1>9. Value(FirstMeta) = [version |-> acked + 1, value |-> tree]
  BY <1>2 DEF Value, FirstMeta, NoMeta
<1> QED
  BY <1>1, <1>2, <1>8, <1>9 DEF Abstract!Next, Abstract!CommitPoint, Abstract!Version

\* The sync of CreateWith: the first version is reported.
LEMMA Created == ASSUME IInv, IInv', CreateDone PROVE Abstract!Next
<1>1. /\ pc = "creating" /\ pc' = "idle" /\ acked' = 1 /\ meta' = meta /\ tree' = tree
  BY DEF CreateDone, mem
<1>2. meta = FirstMeta /\ acked = 0 /\ tree = EmptyTree
  BY <1>1 DEF IInv, Empty
<1>3. Value(FirstMeta) \in MayShow
  BY <1>1, ShowsFirst
<1>4. Value(FirstMeta) = [version |-> acked + 1, value |-> tree]
  BY <1>2 DEF Value, FirstMeta, NoMeta
<1>5. pc' \notin {"creating", "meta"} /\ Up'
  BY <1>1 DEF Up
<1>6. MayShow' = {Value(Base)'}
  <2>1. Showing'
    BY Shows, PTL
  <2> QED
    BY <1>5, <2>1 DEF Showing
<1>7. Value(Base)' = Value(FirstMeta)
  BY <1>1, <1>2, <1>5 DEF Base, Value
<1> QED
  BY <1>1, <1>2, <1>3, <1>4, <1>6, <1>7 DEF Abstract!Next, Abstract!CommitReported, Abstract!Version

\* Open and Rollback: the writer sees the version that survived.
LEMMA Returns ==
    ASSUME IInv, pc \notin {"creating", "meta"}, Load, acked <= Base.txid, acked' = Base.txid
    PROVE  Abstract!Next
<1>1. MayShow = {Value(Base)} /\ Value(Chosen(slot[0], slot[1])) = Value(Base)
  BY ShowsBase, LoadsBase
<1>2. /\ tree' = Chosen(slot[0], slot[1]).tree /\ pc' \notin {"absent", "down"}
      /\ slotMaybe' = slotMaybe
  BY DEF Load, Chosen, Loaded, disk
<1>3. tree' = Base.tree
  BY <1>1, <1>2 DEF Value
<1>4. MayShow' = MayShow
  BY <1>2, SameSlots
<1>5. Base.txid \in Nat /\ acked \in Nat
  BY DEF IInv, TypeOK, Base, Metas, Chosen, Slots
<1>6. /\ Value(Base) \in MayShow /\ MayShow = {Value(Base)}
      /\ Value(Base).version = Base.txid /\ Value(Base).value = Base.tree
  BY <1>1 DEF Value
<1>7. Value(Base).version >= acked
  BY <1>5, <1>6
<1> QED
  BY <1>2, <1>3, <1>4, <1>6, <1>7 DEF Abstract!Next, Abstract!Return

\* Power is lost: one of the versions a crash may show is what there is.
LEMMA Crashes == ASSUME Crash PROVE Abstract!Next
<1>1. PICK first \in slotMaybe[0], second \in slotMaybe[1] :
          slotMaybe' = [s \in Slots |-> IF s = 0 THEN {first} ELSE {second}]
  BY DEF Crash
<1>2. slotMaybe'[0] = {first} /\ slotMaybe'[1] = {second}
  BY <1>1 DEF Slots
<1>3. MayShow' = {Value(Chosen(first, second))}
  BY <1>2 DEF MayShow, Survivors, Value, Chosen, Loaded, Readable
<1>4. Value(Chosen(first, second)) \in MayShow
  BY DEF MayShow, Survivors
<1>5. tree' = EmptyTree /\ pc' = "down" /\ acked' = acked
  BY DEF Crash, Forget, hist
<1> QED
  BY <1>3, <1>4, <1>5 DEF Abstract!Next, Abstract!Leave

\* Every step of the file is a step of the atomic store, or none.
LEMMA StepMaps ==
    ASSUME IInv, IInv', Told, CarefulNext
    PROVE  Abstract!Next \/ UNCHANGED Abstract!vars
<1>0. TypeOK'
  BY DEF IInv
<1>1. CASE Work \/ Failure
  <2>1. /\ slotMaybe' = slotMaybe /\ acked' = acked
        /\ pc \notin {"absent", "down"} /\ pc' \notin {"absent", "down"}
    BY <1>1 DEF Work, Failure, RewriteInPlace, Shrink, Grow, Copy, PlaceCopy, PlaceRefused, WriteFails,
                disk, hist, WritePages
  <2> QED
    BY <1>0, <2>1, SameSlots, Writes
<1>2. CASE CommitList \/ CommitRefused \/ CommitSyncFails
  <2>1. /\ slotMaybe' = slotMaybe /\ acked' = acked
        /\ pc \notin {"absent", "down"} /\ pc' \notin {"absent", "down"}
    BY <1>2 DEF CommitList, CommitRefused, ListRefused, CommitSyncFails, AfterError, RollFreed, disk, hist, WritePages
  <2> QED
    BY <1>0, <2>1, SameSlots, Writes
<1>3. CASE CommitSync \/ Close
  <2>1. /\ pc \notin {"creating", "meta"} /\ pc' \notin {"creating", "meta"} /\ Up /\ Up'
        /\ meta' = meta /\ acked' = acked
    BY <1>3 DEF CommitSync, Close, mem, hist, Up
  <2>2. Value(meta)' = Value(meta)
    BY <2>1 DEF Value
  <2> QED
    BY <2>1, <2>2, Stays
<1>4. CASE CommitMeta
  BY <1>4, PointOfCommit
<1>5. CASE CommitDone
  BY <1>5, Reports
<1>6. CASE Create
  BY <1>6, Creates
<1>7. CASE CreateDone
  BY <1>7, Created
<1>8. CASE Open
  <2>1. pc = "down" /\ Load /\ acked' = Chosen(slot[0], slot[1]).txid
    BY <1>8 DEF Open
  <2>2. Base = Chosen(slot[0], slot[1]) /\ acked <= Base.txid
    BY <2>1 DEF Base, Up, IInv, AckedBehind
  <2> QED
    BY <2>1, <2>2, Returns
<1>9. CASE Rollback
  <2>1. pc \in {"idle", "failed"} /\ Load /\ acked' = acked
    BY <1>9 DEF Rollback
  <2>2. acked = Base.txid /\ acked <= Base.txid
    BY <2>1 DEF Base, Up, Told, IInv, AckedBehind
  <2> QED
    BY <2>1, <2>2, Returns
<1>10. CASE Recreate
  <2>1. slotMaybe' = slotMaybe /\ acked' = acked /\ tree' = tree /\ pc = "down" /\ pc' = "absent"
    BY <1>10 DEF Recreate, disk, hist
  <2> QED
    BY <2>1, SameSlots DEF Abstract!vars
<1>11. CASE CloseDone
  <2>1. pc = "closing" /\ pc' = "down" /\ Forget /\ slot' = slot /\ acked' = acked
    BY <1>11 DEF CloseDone, Sync, disk, hist
  <2> QED
    BY <2>1, Leaves
<1>12. CASE pc \notin {"meta", "creating"} /\ Kill
  <2>1. pc' = "down" /\ Forget /\ slot' = slot /\ acked' = acked
    BY <1>12 DEF Kill, disk, hist
  <2> QED
    BY <1>12, <2>1, Leaves
<1>13. CASE Crash
  BY <1>13, Crashes
<1>14. CASE Hold
  <2>1. slotMaybe' = slotMaybe /\ acked' = acked /\ pc = "idle" /\ pc' = "idle"
    BY <1>14 DEF Hold, Snapshot, Release, disk, hist
  <2> QED
    BY <1>0, <2>1, SameSlots, Writes
<1> QED
  BY <1>1, <1>2, <1>3, <1>4, <1>5, <1>6, <1>7, <1>8, <1>9, <1>10, <1>11, <1>12, <1>13, <1>14
     DEF CarefulNext, Commit, Lifetime

\* The file implements an atomic store, with any failures, snapshots, closes,
\* dying processes and crashes that keep any part of what was not synced
\* (Commit, loadMeta, Rollback and Close, pager.go).
THEOREM RefinesAtomicStore == CarefulSpec => Refines
<1>1. Init => Abstract!Init
  <2> SUFFICES ASSUME Init PROVE Abstract!Init
    OBVIOUS
  <2>1. slotMaybe[0] = {NoMeta} /\ slotMaybe[1] = {NoMeta}
    BY DEF Init, Slots
  <2>2. Survivors = {NoMeta}
    BY <2>1 DEF Survivors, Chosen
  <2>3. MayShow = {[version |-> 0, value |-> EmptyTree]}
    BY <2>2 DEF MayShow, Value, NoMeta
  <2> QED
    BY <2>3 DEF Init, Abstract!Init, Abstract!Version
<1>2. IInv /\ IInv' /\ Told /\ [CarefulNext]_vars => [Abstract!Next]_(Abstract!vars)
  <2> SUFFICES ASSUME IInv, IInv', Told, [CarefulNext]_vars
               PROVE  Abstract!Next \/ UNCHANGED Abstract!vars
    OBVIOUS
  <2>1. CASE CarefulNext
    BY <2>1, StepMaps
  <2>2. CASE UNCHANGED vars
    <3>1. slotMaybe' = slotMaybe /\ acked' = acked /\ tree' = tree /\ pc' = pc
      BY <2>2 DEF vars, disk, hist
    <3> QED
      BY <3>1, SameSlots DEF Abstract!vars
  <2> QED
    BY <2>1, <2>2
<1> QED
  BY <1>1, <1>2, Invariance, ToldAlways, PTL DEF CarefulSpec, Refines, Abstract!Spec

-----------------------------------------------------------------------------
(* The clean mark.                                                         *)

\* What Base was is not forgotten: no step goes back behind it.
LEMMA MarksStep == IInv /\ IInv' /\ Marks /\ [CarefulNext]_vars => Marks'
<1> SUFFICES ASSUME IInv, IInv', Marks, [CarefulNext]_vars PROVE Marks'
  OBVIOUS
<1>0. /\ TypeOK /\ TypeOK' /\ meta.txid \in Nat /\ closedAt \in Nat
  BY DEF IInv, TypeOK, Metas
<1>1. CASE Work \/ Failure
  <2>1. /\ slotMaybe' = slotMaybe /\ slot' = slot /\ closedAt' = closedAt /\ Up /\ Up'
        /\ pc' \notin {"written", "synced", "meta", "creating"}
    BY <1>1 DEF Work, Failure, RewriteInPlace, Shrink, Grow, Copy, PlaceCopy, PlaceRefused, WriteFails,
                disk, hist, WritePages, Up
  <2>2. meta' = meta \/ meta' = [meta EXCEPT !.count = @ + 1]
    BY <1>1 DEF Work, Failure, RewriteInPlace, Shrink, Grow, Copy, PlaceCopy, PlaceRefused, WriteFails,
                mem, Allocate
  <2>3. meta'.txid = meta.txid /\ meta'.clean = meta.clean
    BY <1>0, <2>2 DEF TypeOK, Metas
  <2> QED
    BY <2>1, <2>3 DEF Marks, Base
<1>2. CASE CommitList \/ CommitRefused
  <2>1. /\ slotMaybe' = slotMaybe /\ slot' = slot /\ closedAt' = closedAt /\ Up /\ Up'
        /\ pc' # "creating"
    BY <1>2 DEF CommitList, CommitRefused, ListRefused, AfterError, RollFreed, disk, hist, WritePages, Up
  <2>2. \E n : meta' = [meta EXCEPT !.count = n]
    BY <1>2 DEF CommitList, CommitRefused, ListRefused
  <2>3. meta'.txid = meta.txid /\ meta'.clean = meta.clean
    BY <1>0, <2>2 DEF TypeOK, Metas
  <2>4. pc' \in {"written", "synced", "meta"} => ~next'.clean
    <3>1. CASE CommitList
      <4>1. \E listed, pages, count : next' = CommittedMeta(listed, pages, count)
        BY <3>1 DEF CommitList
      <4> QED
        BY <4>1 DEF CommittedMeta
    <3>2. CASE CommitRefused
      BY <3>2 DEF CommitRefused, ListRefused, AfterError
    <3> QED
      BY <1>2, <3>1, <3>2
  <2> QED
    BY <2>1, <2>3, <2>4 DEF Marks, Base
<1>3. CASE CommitSync \/ CommitSyncFails
  <2>1. /\ \A s \in Slots : slotMaybe'[s] \subseteq slotMaybe[s]
        /\ meta' = meta /\ closedAt' = closedAt /\ Up /\ Up' /\ pc' # "creating"
        /\ pc' \in {"written", "synced", "meta"} => pc = "written" /\ next' = next
    BY <1>3 DEF CommitSync, CommitSyncFails, AfterError, Sync, disk, mem, hist, Up, IInv, Truthful
  <2> QED
    BY <2>1 DEF Marks, Base
<1>4. CASE CommitMeta
  <2>1. /\ \A s \in Slots : slotMaybe'[s] \subseteq slotMaybe[s] \cup {next}
        /\ meta' = meta /\ closedAt' = closedAt /\ Up /\ Up' /\ pc' = "meta" /\ pc = "synced" /\ next' = next
    BY <1>4, <1>0 DEF CommitMeta, writeMeta, mem, hist, Up, TypeOK
  <2> QED
    BY <2>1 DEF Marks, Base
<1>5. CASE CommitDone
  <2>1. /\ \A s \in Slots : slotMaybe'[s] \subseteq slotMaybe[s]
        /\ meta' = next /\ closedAt' = closedAt /\ Up /\ Up' /\ pc' = "idle" /\ pc = "meta"
    BY <1>5 DEF CommitDone, Sync, Up, IInv, Truthful
  <2>2. next.txid = meta.txid + 1 /\ ~next.clean
    BY <2>1 DEF IInv, Prepared, tx, Marks
  <2>3. closedAt <= meta.txid
    BY <2>1 DEF Marks, Base
  <2>4. closedAt <= next.txid
    BY <1>0, <2>2, <2>3
  <2> QED
    BY <2>1, <2>2, <2>4 DEF Marks, Base
<1>6. CASE Create
  <2>1. /\ \A s \in Slots : slotMaybe'[s] \subseteq slotMaybe[s] \cup {FirstMeta}
        /\ meta' = FirstMeta /\ closedAt' = closedAt /\ ~Up' /\ pc' = "creating" /\ pc = "absent"
        /\ slot'[0] = FirstMeta /\ slot'[1] = FirstMeta
    BY <1>6 DEF Create, hist, Up, Slots
  <2>2. Base.txid = 0 /\ ~FirstMeta.clean /\ FirstMeta.txid = 1
    BY <2>1 DEF IInv, Empty, FirstMeta, NoMeta
  <2>3. closedAt = 0
    BY <1>0, <2>2 DEF Marks
  <2>4. Base' = FirstMeta
    BY <2>1 DEF Base, Chosen
  <2> QED
    BY <2>1, <2>2, <2>3, <2>4 DEF Marks
<1>7. CASE CreateDone
  <2>1. /\ \A s \in Slots : slotMaybe'[s] \subseteq slotMaybe[s]
        /\ meta' = meta /\ closedAt' = closedAt /\ Up' /\ pc' = "idle" /\ pc = "creating"
    BY <1>7 DEF CreateDone, Sync, mem, Up, IInv, Truthful
  <2>2. closedAt = 0 /\ ~meta.clean
    BY <2>1 DEF Marks
  <2> QED
    BY <1>0, <2>1, <2>2 DEF Marks, Base
<1>8. CASE Open \/ Rollback
  <2>1. /\ slotMaybe' = slotMaybe /\ closedAt' = closedAt /\ Load
        /\ pc' \in {"idle", "broken"} /\ pc \notin {"creating", "meta"}
    BY <1>8 DEF Open, Rollback, Load, disk
  <2>2. pc' = "idle" /\ Up'
    BY <2>1 DEF IInv, Empty, Up
  <2>3. meta' = Chosen(slot[0], slot[1])
    BY <2>1 DEF Load, Chosen, Loaded
  <2>4. meta'.txid = Base.txid
    BY <2>1, <2>3, LoadsBase DEF Value
  <2>5. meta'.clean => meta'.txid <= closedAt
    <3>1. slot[0] \in slotMaybe[0] /\ slot[1] \in slotMaybe[1] /\ meta' \in {slot[0], slot[1]}
      BY <2>3 DEF IInv, Truthful, Slots, Chosen
    <3> QED
      BY <3>1 DEF Marks, Slots
  <2> QED
    BY <2>1, <2>2, <2>4, <2>5 DEF Marks, Base
<1>9. CASE Recreate
  BY <1>9 DEF Recreate, disk, hist, Up, Marks, Base
<1>10. CASE Close
  <2> DEFINE marked == [meta EXCEPT !.clean = TRUE]
  <2>1. /\ closedAt' = meta.txid /\ meta' = meta /\ Up /\ Up' /\ pc' = "closing" /\ pc \notin {"creating", "meta"}
        /\ \A s \in Slots : slotMaybe'[s] \subseteq slotMaybe[s] \cup {marked}
    BY <1>10, <1>0 DEF Close, writeMeta, disk, mem, Up, TypeOK
  <2>2. marked.txid = meta.txid /\ meta.txid <= meta.txid
    BY <1>0 DEF TypeOK, Metas
  <2> HIDE DEF marked
  <2>3. \A s \in Slots : \A m \in slotMaybe[s] : m.txid <= meta.txid
    BY <2>1 DEF IInv, SlotsSettled, Base, Behind
  <2>4. \A s \in Slots : \A m \in slotMaybe'[s] : m.txid <= closedAt'
    BY <2>1, <2>2, <2>3, Zenon
  <2>5. closedAt' <= Base'.txid /\ meta'.txid <= closedAt'
    BY <1>0, <2>1 DEF Base
  <2> QED
    BY <2>1, <2>4, <2>5 DEF Marks
<1>11. CASE CloseDone \/ (pc \notin {"meta", "creating"} /\ Kill)
  <2>1. /\ slot' = slot /\ closedAt' = closedAt /\ ~Up' /\ pc' = "down" /\ pc \notin {"creating", "meta"}
        /\ \A s \in Slots : slotMaybe'[s] \subseteq slotMaybe[s]
    BY <1>11 DEF CloseDone, Kill, Sync, disk, hist, Up, IInv, Truthful
  <2>2. Base'.txid = Base.txid
    BY <2>1, LoadsBase DEF Base, Value, Chosen, Loaded, Readable
  <2> QED
    BY <2>1, <2>2 DEF Marks
<1>12. CASE Crash
  <2>1. PICK first \in slotMaybe[0], second \in slotMaybe[1] :
            /\ slot' = [s \in Slots |-> IF s = 0 THEN first ELSE second]
            /\ slotMaybe' = [s \in Slots |-> IF s = 0 THEN {first} ELSE {second}]
    BY <1>12 DEF Crash
  <2>2. closedAt' = closedAt /\ ~Up' /\ pc' = "down"
    BY <1>12 DEF Crash, hist, Up
  <2>3. Base' = Chosen(first, second)
    BY <2>1, <2>2 DEF Base, Slots, Chosen, Loaded, Readable
  <2>4. \A s \in Slots : slotMaybe'[s] \subseteq slotMaybe[s]
    BY <2>1 DEF Slots
  <2>5. closedAt <= Chosen(first, second).txid
    <3>1. CASE pc = "creating"
      <4>1. closedAt = 0 /\ Chosen(first, second).txid \in Nat
        BY <3>1, CrashChoice DEF Marks, Metas
      <4> QED
        BY <4>1
    <3>2. CASE pc = "meta"
      <4>1. Value(Chosen(first, second)) \in {Value(meta), Value(next)}
        BY <3>2, ShowsNext DEF MayShow, Survivors
      <4>2. Chosen(first, second).txid = meta.txid \/ Chosen(first, second).txid = meta.txid + 1
        BY <3>2, <4>1 DEF Value, IInv, Prepared, tx
      <4>3. closedAt <= meta.txid
        BY <3>2 DEF Marks, Base, Up
      <4> QED
        BY <1>0, <4>2, <4>3
    <3>3. CASE pc \notin {"creating", "meta"}
      BY <3>3, SettledChoice DEF Same, Marks
    <3> QED
      BY <3>1, <3>2, <3>3
  <2> QED
    BY <2>2, <2>3, <2>4, <2>5 DEF Marks
<1>13. CASE Hold
  BY <1>13 DEF Hold, Snapshot, Release, disk, mem, hist, Up, Marks, Base
<1>14. CASE UNCHANGED vars
  BY <1>14 DEF vars, disk, mem, hist, Up, Marks, Base
<1> QED
  BY <1>1, <1>2, <1>3, <1>4, <1>5, <1>6, <1>7, <1>8, <1>9, <1>10, <1>11, <1>12, <1>13, <1>14
     DEF CarefulNext, Commit, Lifetime

\* A clean mark that is read was made at the transaction it is read at: no
\* commit, failed close, crash or rollback carries one over (Commit and Close,
\* pager.go).
THEOREM CleanMarkAlways == CarefulSpec => []CleanMark
<1>1. Init => Marks
  <2> SUFFICES ASSUME Init PROVE Marks
    OBVIOUS
  <2>1. ~Up /\ closedAt = 0 /\ pc = "absent" /\ Base = NoMeta
    BY DEF Init, Up, Base, Slots, Chosen
  <2>2. NoMeta.txid = 0
    BY DEF NoMeta
  <2>3. \A s \in Slots : slotMaybe[s] = {NoMeta}
    BY DEF Init
  <2> QED
    BY <2>1, <2>2, <2>3 DEF Marks
<1>2. IInv /\ Marks => CleanMark
  <2> SUFFICES ASSUME IInv, Marks, pc = "idle", meta.clean PROVE meta.txid = closedAt
    BY DEF CleanMark
  <2>1. meta.txid <= closedAt /\ closedAt <= meta.txid
    BY DEF Marks, Up, Base
  <2>2. meta.txid \in Nat /\ closedAt \in Nat
    BY DEF IInv, TypeOK, Metas
  <2> QED
    BY <2>1, <2>2
<1> QED
  BY <1>1, <1>2, MarksStep, Invariance, PTL DEF CarefulSpec

-----------------------------------------------------------------------------
(* No page is lost.                                                        *)

\* Allocating keeps every other page that was free, and sees none of its own.
LEMMA AllocateKeeps ==
    ASSUME IInv, pc = "idle", NEW q \in Pages, NEW freed \in SUBSET Pages, Allocate(q, freed)
    PROVE  /\ \A i \in Pages : i < meta'.count /\ i # q => i < meta.count
           /\ \A i \in Pages : i # q /\ i \in ready \cup PendingPages => i \in ready' \cup PendingPages'
           /\ q < meta'.count /\ meta.count <= meta'.count
           /\ seen' \subseteq seen \cup freed
           /\ (\A i \in seen \cup freed : i < meta.count) => q \notin seen'
<1>1. TypeOK /\ meta.count \in Int
  BY DEF IInv, TypeOK, Metas
<1>0. \A i \in Pages : i \in Int
  BY DEF Pages
<1>2. /\ \A i \in Pages : i \in PendingPages' <=> (i \in PendingPages /\ i \notin Promotable)
      /\ Promoted = ready \cup Promotable
  BY DEF Allocate, StillPending, PendingPages, Promoted, Promotable
<1>3. CASE q \in Promoted /\ ready' = (Promoted \ {q}) \cup ({q} \cap twice)
           /\ seen' = (seen \cup freed) \ {q} /\ meta' = meta
  <2>1. q < meta.count
    BY <1>2, <1>3 DEF IInv, Counts, Up, Listed, Promotable
  <2>2. meta.count <= meta'.count
    BY <1>1, <1>3
  <2> QED
    BY <1>2, <1>3, <2>1, <2>2
<1>4. CASE Promoted = {} /\ q = meta.count /\ ready' = {} /\ seen' = seen \cup freed
           /\ meta' = [meta EXCEPT !.count = @ + 1]
  <2>1. meta'.count = meta.count + 1
    BY <1>1, <1>4 DEF TypeOK, Metas
  <2>2. /\ \A i \in Pages : i < meta'.count /\ i # q => i < meta.count
        /\ q < meta'.count /\ meta.count <= meta'.count
    BY <1>0, <1>1, <1>4, <2>1
  <2>3. ~(q < meta.count)
    BY <1>1, <1>4
  <2> QED
    BY <1>2, <1>4, <2>2, <2>3
<1> QED
  BY <1>3, <1>4 DEF Allocate

\* A page of the tree that is freed is listed.
LEMMA FreeLists ==
    ASSUME SeenApart, NEW p \in PagesOf(tree)
    PROVE  /\ Dirty(p) => FreeToReady({p}) = {p}
           /\ ~Dirty(p) => FreeToFreeing({p}) = {p}
BY DEF SeenApart, FreeToReady, FreeToFreeing, Unseen

\* The pages of the tree after one is let go and one is taken.
LEMMA TreePages ==
    ASSUME TypeOK, TypeOK', NEW p \in Pages, NEW q \in Pages, p # q,
           tree' = [tree EXCEPT ![p] = 0, ![q] = tx]
    PROVE  PagesOf(tree') = (PagesOf(tree) \ {p}) \cup {q}
<1>1. tx # 0 /\ tree \in [Pages -> Nat]
  BY DEF TypeOK, Metas, tx, Trees
<1> QED
  BY <1>1 DEF PagesOf

\* Copying a page loses none.
LEMMA CopyKeeps ==
    ASSUME IInv, LedTo, SeenApart, NEW p \in Pages, NEW q \in Pages, Copy(p, q), IInv'
    PROVE  LedTo' /\ SeenApart'
<1>1. /\ pc = "idle" /\ p \in PagesOf(tree) /\ ~Dirty(p) /\ Allocate(q, {p})
      /\ freeing' = freeing \cup FreeToFreeing({p}) /\ chain' = chain
      /\ tree' = [tree EXCEPT ![p] = 0, ![q] = tx]
  BY DEF Copy, PlaceCopy
<1>2. q \notin PagesOf(tree) /\ q \notin meta.chain
  BY <1>1, AllocateFacts
<1>3. PagesOf(tree') = (PagesOf(tree) \ {p}) \cup {q}
  BY <1>1, <1>2, TreePages DEF IInv
<1>4. freeing' = freeing \cup {p}
  BY <1>1, FreeLists
<1>5. /\ \A i \in Pages : i < meta'.count /\ i # q => i < meta.count
      /\ \A i \in Pages : i # q /\ i \in ready \cup PendingPages => i \in ready' \cup PendingPages'
      /\ meta.count <= meta'.count
      /\ seen' \subseteq seen \cup {p}
      /\ (\A i \in seen \cup {p} : i < meta.count) => q \notin seen'
  BY <1>1, AllocateKeeps
<1>6. LedTo'
  BY <1>1, <1>3, <1>4, <1>5 DEF LedTo, Listed
<1>7. p < meta.count /\ p \notin chain /\ q \notin chain
  BY <1>1, <1>2 DEF IInv, Counts, Working, Up
<1>8. \A i \in seen' : i < meta'.count
  <2>1. \A i \in seen' : i < meta.count /\ i \in Int
    BY <1>5, <1>7 DEF SeenApart, IInv, TypeOK, Pages
  <2>2. meta.count \in Int /\ meta'.count \in Int
    BY DEF IInv, TypeOK, Metas
  <2> QED
    BY <1>5, <2>1, <2>2
<1>9. seen' \cap (PagesOf(tree') \cup chain') = {}
  BY <1>1, <1>3, <1>5, <1>7 DEF SeenApart
<1> QED
  BY <1>6, <1>8, <1>9 DEF SeenApart, PagesOf

\* Adding a page loses none.
LEMMA GrowKeeps ==
    ASSUME IInv, LedTo, SeenApart, NEW q \in Pages, Grow(q), IInv'
    PROVE  LedTo' /\ SeenApart'
<1>1. /\ pc = "idle" /\ Allocate(q, {}) /\ freeing' = freeing /\ chain' = chain
      /\ tree' = [tree EXCEPT ![q] = tx]
  BY DEF Grow
<1>2. q \notin PagesOf(tree) /\ q \notin meta.chain
  BY <1>1, AllocateFacts
<1>3. PagesOf(tree') = PagesOf(tree) \cup {q}
  <2>1. tx # 0 /\ tree \in [Pages -> Nat]
    BY DEF IInv, TypeOK, Metas, tx, Trees
  <2> QED
    BY <1>1, <2>1 DEF PagesOf
<1>4. /\ \A i \in Pages : i < meta'.count /\ i # q => i < meta.count
      /\ \A i \in Pages : i # q /\ i \in ready \cup PendingPages => i \in ready' \cup PendingPages'
      /\ meta.count <= meta'.count
      /\ seen' \subseteq seen
      /\ (\A i \in seen : i < meta.count) => q \notin seen'
  <2>1. {} \in SUBSET Pages /\ seen \cup {} = seen
    OBVIOUS
  <2> QED
    BY <1>1, <2>1, AllocateKeeps
<1>5. LedTo'
  BY <1>1, <1>3, <1>4 DEF LedTo, Listed
<1>6. q \notin chain
  BY <1>1, <1>2 DEF IInv, Counts, Up
<1>7. \A i \in seen' : i < meta'.count
  <2>1. \A i \in seen' : i < meta.count /\ i \in Int
    BY <1>4 DEF SeenApart, IInv, TypeOK, Pages
  <2>2. meta.count \in Int /\ meta'.count \in Int
    BY DEF IInv, TypeOK, Metas
  <2> QED
    BY <1>4, <2>1, <2>2
<1>8. seen' \cap (PagesOf(tree') \cup chain') = {}
  BY <1>1, <1>3, <1>4, <1>6 DEF SeenApart
<1> QED
  BY <1>5, <1>7, <1>8 DEF SeenApart, PagesOf

\* Dropping a page lists it.
LEMMA ShrinkKeeps ==
    ASSUME IInv, LedTo, SeenApart, NEW p \in Pages, Shrink(p)
    PROVE  LedTo' /\ SeenApart'
<1>1. /\ pc = "idle" /\ p \in PagesOf(tree) /\ seen' = seen \cup {p}
      /\ ready' = ready \cup FreeToReady({p}) /\ freeing' = freeing \cup FreeToFreeing({p})
      /\ tree' = [tree EXCEPT ![p] = 0]
      /\ UNCHANGED <<meta, pending, chain>>
  BY DEF Shrink, mem
<1>2. PagesOf(tree') = PagesOf(tree) \ {p}
  <2>1. tree \in [Pages -> Nat]
    BY DEF IInv, TypeOK, Trees
  <2> QED
    BY <1>1, <2>1 DEF PagesOf
<1>3. p \in ready' \cup freeing'
  BY <1>1, FreeLists
<1>4. PendingPages' = PendingPages
  BY <1>1 DEF PendingPages
<1>5. LedTo'
  BY <1>1, <1>2, <1>3, <1>4 DEF LedTo, Listed
<1>6. p < meta.count /\ p \notin chain
  BY <1>1 DEF IInv, Counts, Working, Up
<1> QED
  BY <1>1, <1>2, <1>5, <1>6 DEF SeenApart

\* Rewriting a page in place changes none.
LEMMA RewriteKeeps ==
    ASSUME IInv, LedTo, SeenApart, NEW p \in Pages, RewriteInPlace(p)
    PROVE  LedTo' /\ SeenApart'
<1>1. /\ p \in PagesOf(tree) /\ tree' = [tree EXCEPT ![p] = tx]
      /\ UNCHANGED <<meta, ready, pending, freeing, seen, chain>>
  BY DEF RewriteInPlace, mem, list
<1>2. PagesOf(tree') = PagesOf(tree)
  <2>1. tx # 0 /\ tree \in [Pages -> Nat]
    BY DEF IInv, TypeOK, Metas, tx, Trees
  <2> QED
    BY <1>1, <2>1 DEF PagesOf
<1>3. Listed' = Listed
  BY <1>1 DEF Listed, PendingPages
<1> QED
  BY <1>1, <1>2, <1>3 DEF LedTo, SeenApart

\* The meta a commit is about to write leads to every page of the file: its
\* old list is on the new one, and the new list's own pages are part of it.
LEMMA ListKeeps ==
    ASSUME IInv, LedTo, SeenApart, CommitList
    PROVE  Covers(next, meta.count)'
<1>1. PICK from \in SUBSET Takeable, grown \in 0 .. (MaxPages - meta.count) :
          LET end    == meta.count + grown
              taking == from \cup {p \in Pages : p >= meta.count /\ p < end}
          IN  /\ meta' = [meta EXCEPT !.count = end]
              /\ next' = CommittedMeta((Takeable \ from) \cup Waiting, taking, end)
  BY DEF CommitList
<1> DEFINE end    == meta.count + grown
           taking == from \cup {p \in Pages : p >= meta.count /\ p < end}
<1>2. /\ meta'.count = end /\ next'.tree = tree /\ next'.chain = taking
      /\ next'.list = (Takeable \ from) \cup Waiting
  BY <1>1 DEF IInv, TypeOK, Metas, CommittedMeta
<1>3. tx # 0 /\ pending \in [Pages -> Nat] /\ meta.count \in Int /\ chain \subseteq Pages
  BY DEF IInv, TypeOK, Metas, tx
<1>4. \A i \in Pages : i \in Listed \cup chain => i \in Takeable \cup Waiting
  <2> SUFFICES ASSUME NEW i \in Pages, i \in Listed \cup chain PROVE i \in Takeable \cup Waiting
    OBVIOUS
  <2>1. CASE i \in ready \cup Promotable
    BY <2>1 DEF Takeable, Promoted
  <2>2. CASE i \notin Promotable /\ i \in freeing \cup PendingPages
    <3>1. Rolled[i] # 0
      BY <1>3, <2>2 DEF Rolled, PendingPages
    <3> QED
      BY <2>2, <3>1 DEF Waiting
  <2>3. CASE i \in chain /\ i \notin Promotable
    <3>1. i \notin seen
      BY <2>3 DEF SeenApart
    <3>2. CASE Dirty(i)
      BY <2>3, <3>1, <3>2 DEF Takeable, FreeToReady, Unseen
    <3>3. CASE ~Dirty(i)
      <4>1. Rolled[i] # 0
        BY <1>3, <2>3, <3>1, <3>3 DEF Rolled, FreeToFreeing, Unseen
      <4> QED
        BY <2>3, <4>1 DEF Waiting
    <3> QED
      BY <3>2, <3>3
  <2> QED
    BY <2>1, <2>2, <2>3 DEF Listed
<1>5. ASSUME NEW i \in Pages, i < end PROVE i \in PagesOf(tree) \cup next'.list \cup next'.chain
  <2>1. i \in Int
    BY DEF Pages
  <2>2. CASE i < meta.count
    BY <1>2, <1>4, <2>2 DEF LedTo
  <2>3. CASE i >= meta.count
    BY <1>2, <1>5, <2>3
  <2> QED
    BY <1>3, <2>1, <2>2, <2>3
<1> QED
  BY <1>2, <1>5 DEF Covers, PagesOf

\* Of two metas that lead to the same pages, one covers what the other does.
LEMMA CoversSame ==
    ASSUME NEW m, NEW n, NEW end, Covers(m, end),
           n.tree = m.tree, n.list = m.list, n.chain = m.chain
    PROVE  Covers(n, end)
BY DEF Covers, PagesOf

\* A step that adds nothing to the meta pages and leaves the committed state.
LEMMA OwnedStays ==
    ASSUME IInv, Owned, \A s \in Slots : slotMaybe'[s] \subseteq slotMaybe[s],
           Up' => /\ Up /\ committed' = committed
                  /\ meta'.tree = meta.tree /\ meta'.list = meta.list /\ meta'.chain = meta.chain,
           pc' = "idle" => LedTo' /\ SeenApart',
           pc' \in {"written", "synced", "meta"} => Covers(next, meta.count)'
    PROVE  Owned'
<1>1. \A s \in Slots : \A m \in slotMaybe'[s] : Covers(m, m.count)
  BY DEF Owned
<1>2. ASSUME Up' PROVE Covers(meta, committed)'
  <2>1. Covers(meta, committed) /\ committed' = committed
    BY <1>2 DEF Owned
  <2>2. Covers(meta', committed)
    BY <1>2, <2>1, CoversSame
  <2> QED
    BY <2>1, <2>2 DEF Covers, PagesOf
<1>3. (\A s \in Slots : \A m \in slotMaybe[s] : Covers(m, m.count))'
  BY <1>1 DEF Covers, PagesOf
<1> QED
  BY <1>2, <1>3 DEF Owned

\* No step of orderly callers loses a page.
LEMMA OwnedStep == IInv /\ IInv' /\ Owned /\ [OrderlyNext]_vars => Owned'
<1> SUFFICES ASSUME IInv, IInv', Owned, [OrderlyNext]_vars PROVE Owned'
  OBVIOUS
<1>0. /\ TypeOK /\ TypeOK' /\ \A s \in Slots : slot[s] \in slotMaybe[s]
  BY DEF IInv, Truthful
<1>1. CASE Work \/ Failure
  <2>1. slotMaybe' = slotMaybe /\ Up /\ Up' /\ committed' = committed /\ pc = "idle"
        /\ pc' \notin {"written", "synced", "meta"}
    BY <1>1 DEF Work, Failure, RewriteInPlace, Shrink, Grow, Copy, PlaceCopy, PlaceRefused, WriteFails,
                disk, mem, WritePages, Up
  <2>2. meta' = meta \/ meta' = [meta EXCEPT !.count = @ + 1]
    BY <1>1 DEF Work, Failure, RewriteInPlace, Shrink, Grow, Copy, PlaceCopy, PlaceRefused, WriteFails,
                mem, Allocate
  <2>3. meta'.tree = meta.tree /\ meta'.list = meta.list /\ meta'.chain = meta.chain
    BY <1>0, <2>2 DEF TypeOK, Metas
  <2>4. LedTo /\ SeenApart
    BY <2>1 DEF Owned
  <2>5. pc' = "idle" => LedTo' /\ SeenApart'
    <3>1. CASE Work
      BY <2>4, <3>1, RewriteKeeps, ShrinkKeeps, GrowKeeps, CopyKeeps DEF Work
    <3>2. CASE Failure
      BY <3>2 DEF Failure, PlaceRefused, WriteFails
    <3> QED
      BY <1>1, <3>1, <3>2
  <2> QED
    BY <2>1, <2>3, <2>5, OwnedStays
<1>2. CASE CommitList
  <2>1. slotMaybe' = slotMaybe /\ Up /\ Up' /\ committed' = committed /\ pc = "idle" /\ pc' = "written"
    BY <1>2 DEF CommitList, RollFreed, WritePages, Up
  <2>2. \E n : meta' = [meta EXCEPT !.count = n]
    BY <1>2 DEF CommitList
  <2>3. meta'.tree = meta.tree /\ meta'.list = meta.list /\ meta'.chain = meta.chain
    BY <1>0, <2>2 DEF TypeOK, Metas
  <2>4. Covers(next, meta.count)'
    BY <1>2, <2>1, ListKeeps DEF Owned
  <2> QED
    BY <2>1, <2>3, <2>4, OwnedStays
<1>3. CASE (CommitRefused \/ CommitSyncFails) /\ pc' = "failed"
  <2>1. slotMaybe' = slotMaybe /\ Up /\ Up' /\ committed' = committed
    BY <1>3 DEF CommitRefused, ListRefused, CommitSyncFails, RollFreed, disk, mem, Up
  <2>2. meta' = meta \/ meta' = [meta EXCEPT !.count = MaxPages]
    BY <1>3 DEF CommitRefused, ListRefused, CommitSyncFails, mem
  <2>3. meta'.tree = meta.tree /\ meta'.list = meta.list /\ meta'.chain = meta.chain
    BY <1>0, <2>2 DEF TypeOK, Metas
  <2> QED
    BY <1>3, <2>1, <2>3, OwnedStays
<1>4. CASE CommitSync
  <2>1. /\ \A s \in Slots : slotMaybe'[s] \subseteq slotMaybe[s]
        /\ Up /\ Up' /\ meta' = meta /\ committed' = committed /\ next' = next
        /\ pc = "written" /\ pc' = "synced"
    BY <1>0, <1>4 DEF CommitSync, Sync, mem, Up
  <2>2. Covers(next, meta.count)'
    BY <2>1 DEF Owned, Covers, PagesOf
  <2> QED
    BY <2>1, <2>2, OwnedStays
<1>5. CASE CommitMeta
  <2>1. /\ \A s \in Slots : slotMaybe'[s] \subseteq slotMaybe[s] \cup {next}
        /\ Up /\ Up' /\ meta' = meta /\ committed' = committed /\ next' = next
        /\ pc = "synced" /\ pc' = "meta"
    BY <1>0, <1>5 DEF CommitMeta, writeMeta, mem, Up, TypeOK
  <2>2. Covers(next, meta.count) /\ next.count = meta.count /\ Covers(meta, committed)
    BY <2>1 DEF Owned, IInv, Prepared
  <2>3. \A s \in Slots : \A m \in slotMaybe'[s] : Covers(m, m.count)
    BY <2>1, <2>2 DEF Owned
  <2> QED
    BY <2>1, <2>2, <2>3 DEF Owned, Covers, PagesOf
<1>6. CASE CommitDone
  <2>1. /\ \A s \in Slots : slotMaybe'[s] \subseteq slotMaybe[s]
        /\ meta' = next /\ committed' = next.count /\ chain' = next.chain /\ seen' = {}
        /\ pc = "meta" /\ pc' = "idle" /\ UNCHANGED <<tree, ready, pending, freeing>>
    BY <1>0, <1>6 DEF CommitDone, Sync
  <2>2. /\ Covers(next, next.count) /\ next.tree = tree /\ next.list = ready \cup PendingPages
    BY <2>1 DEF Owned, IInv, Prepared
  <2>3. PendingPages' = PendingPages
    BY <2>1 DEF PendingPages
  <2>4. LedTo' /\ SeenApart'
    BY <2>1, <2>2, <2>3 DEF LedTo, SeenApart, Listed, Covers, PagesOf
  <2>5. \A s \in Slots : \A m \in slotMaybe'[s] : Covers(m, m.count)
    BY <2>1 DEF Owned
  <2>6. Covers(meta, committed)'
    BY <2>1, <2>2 DEF Covers, PagesOf
  <2> QED
    BY <2>1, <2>4, <2>5, <2>6 DEF Owned, Covers, PagesOf
<1>7. CASE Create
  <2>1. /\ \A s \in Slots : slotMaybe'[s] \subseteq slotMaybe[s] \cup {FirstMeta}
        /\ pc' = "creating"
    BY <1>7 DEF Create
  <2>2. Covers(FirstMeta, FirstMeta.count)
    BY DEF Covers, FirstMeta, NoMeta, Pages
  <2>3. \A s \in Slots : \A m \in slotMaybe'[s] : Covers(m, m.count)
    BY <2>1, <2>2 DEF Owned
  <2> QED
    BY <2>1, <2>3 DEF Owned, Covers, PagesOf, Up
<1>8. CASE CreateDone
  <2>1. /\ \A s \in Slots : slotMaybe'[s] \subseteq slotMaybe[s]
        /\ UNCHANGED <<meta, committed, tree, ready, pending, freeing, seen, chain>>
        /\ pc = "creating" /\ pc' = "idle"
    BY <1>0, <1>8 DEF CreateDone, Sync, mem, list
  <2>2. meta.count = 2 /\ committed = 2 /\ seen = {}
    BY <2>1 DEF IInv, Empty, FirstMeta, NoMeta
  <2>3. \A p \in Pages : ~(p < 2)
    BY DEF Pages
  <2>4. LedTo' /\ SeenApart' /\ Covers(meta, committed)'
    BY <2>1, <2>2, <2>3 DEF LedTo, SeenApart, Covers
  <2>5. \A s \in Slots : \A m \in slotMaybe'[s] : Covers(m, m.count)
    BY <2>1 DEF Owned
  <2> QED
    BY <2>1, <2>4, <2>5 DEF Owned, Covers, PagesOf
<1>9. CASE Open \/ Rollback
  <2>1. Load /\ slotMaybe' = slotMaybe /\ pc' # "broken"
    BY <1>9 DEF Open, Rollback, Load, disk, IInv, Empty
  <2>2. PICK m : m \in {slot[0], slot[1]} /\ meta' = m /\ committed' = m.count /\ readFreelist(m)
                 /\ tree' = m.tree /\ pc' = IF ListReadable(m) THEN "idle" ELSE "broken"
    BY <2>1 DEF Load, Loaded
  <2>3. Covers(m, m.count)
    BY <1>0, <2>2 DEF Owned, Slots
  <2>4. pc' = "idle" /\ ready' = m.list /\ chain' = m.chain /\ seen' = {} /\ tree' = m.tree
    BY <2>1, <2>2 DEF readFreelist
  <2>5. LedTo' /\ SeenApart'
    BY <2>2, <2>3, <2>4 DEF LedTo, SeenApart, Listed, Covers, PagesOf
  <2>6. Covers(meta, committed)'
    BY <2>2, <2>3 DEF Covers, PagesOf
  <2> QED
    BY <2>1, <2>4, <2>5, <2>6 DEF Owned, Covers, PagesOf
<1>10. CASE Recreate \/ CloseDone \/ Kill
  <2>1. /\ \A s \in Slots : slotMaybe'[s] \subseteq slotMaybe[s]
        /\ pc' \in {"absent", "down"}
    BY <1>0, <1>10 DEF Recreate, CloseDone, Kill, Sync, disk
  <2>2. ~Up'
    BY <2>1 DEF Up
  <2> QED
    BY <2>1, <2>2, OwnedStays
<1>11. CASE Crash
  <2>1. \E first \in slotMaybe[0], second \in slotMaybe[1] :
            slotMaybe' = [s \in Slots |-> IF s = 0 THEN {first} ELSE {second}]
    BY <1>11 DEF Crash
  <2>2. \A s \in Slots : slotMaybe'[s] \subseteq slotMaybe[s]
    BY <2>1 DEF Slots
  <2>3. pc' = "down" /\ ~Up'
    BY <1>11 DEF Crash, Up
  <2> QED
    BY <2>2, <2>3, OwnedStays
<1>12. CASE Close /\ meta.count = committed
  <2> DEFINE marked == [meta EXCEPT !.clean = TRUE]
  <2>1. /\ \A s \in Slots : slotMaybe'[s] \subseteq slotMaybe[s] \cup {marked}
        /\ Up /\ Up' /\ meta' = meta /\ committed' = committed /\ pc' = "closing"
    BY <1>0, <1>12 DEF Close, writeMeta, disk, mem, Up, TypeOK
  <2>2. /\ marked.tree = meta.tree /\ marked.list = meta.list /\ marked.chain = meta.chain
        /\ marked.count = committed
    BY <1>0, <1>12 DEF TypeOK, Metas
  <2> HIDE DEF marked
  <2>3. Covers(marked, marked.count) /\ Covers(meta, committed)
    BY <2>1, <2>2, CoversSame DEF Owned
  <2>4. \A s \in Slots : \A m \in slotMaybe'[s] : Covers(m, m.count)
    BY <2>1, <2>3 DEF Owned
  <2> QED
    BY <2>1, <2>3, <2>4 DEF Owned, Covers, PagesOf
<1>13. CASE Hold \/ UNCHANGED vars
  <2>1. /\ slotMaybe' = slotMaybe /\ pc' = pc /\ Up' = Up /\ meta' = meta /\ committed' = committed
        /\ UNCHANGED <<tree, ready, pending, freeing, seen, chain, next>>
    BY <1>13 DEF Hold, Snapshot, Release, vars, disk, mem, list, Up
  <2>2. Listed' = Listed
    BY <2>1 DEF Listed, PendingPages
  <2> QED
    BY <2>1, <2>2 DEF Owned, LedTo, SeenApart, Covers, PagesOf
<1>14. CASE OrderlyNext
  <2>1. \/ Work \/ Failure \/ CommitList \/ CommitSync \/ CommitMeta \/ CommitDone
        \/ Create \/ CreateDone \/ Open \/ Recreate \/ CloseDone \/ Crash \/ Rollback \/ Kill \/ Hold
        \/ (CommitRefused \/ CommitSyncFails) /\ pc' = "failed"
        \/ Close /\ meta.count = committed
    BY <1>14 DEF OrderlyNext, OrderlyStep, CarefulNext, Commit, Lifetime
  <2> QED
    BY <2>1, <1>1, <1>2, <1>3, <1>4, <1>5, <1>6, <1>7, <1>8, <1>9, <1>10, <1>11, <1>12, <1>13
<1> QED
  BY <1>13, <1>14

\* Every page of the file is in the tree, on the free list or part of it, in
\* every state a crash may return to, for callers that roll back a commit that
\* failed and close between transactions (Free, writeFreelist and Commit).
THEOREM AccountedAlways == OrderlySpec => []Accounted
<1>1. OrderlySpec => CarefulSpec
  <2>1. [OrderlyNext]_vars => [CarefulNext]_vars
    BY DEF OrderlyNext
  <2> QED
    BY <2>1, PTL DEF OrderlySpec, CarefulSpec
<1>2. Init => Owned
  <2> SUFFICES ASSUME Init PROVE Owned
    OBVIOUS
  <2>1. pc = "absent" /\ \A s \in Slots : slotMaybe[s] = {NoMeta}
    BY DEF Init
  <2>2. Covers(NoMeta, NoMeta.count)
    BY DEF Covers, NoMeta, Pages
  <2> QED
    BY <2>1, <2>2 DEF Owned, Up
<1>3. IInv /\ Owned => Accounted
  <2> SUFFICES ASSUME IInv, Owned, NEW f \in slotMaybe[0], NEW s \in slotMaybe[1]
               PROVE  Covers(Chosen(f, s), Chosen(f, s).count)
    BY DEF Accounted, Survivors, Covers
  <2>1. Chosen(f, s) \in {f, s}
    BY DEF Chosen
  <2> QED
    BY <2>1 DEF Owned, Slots
<1> QED
  BY <1>1, <1>2, <1>3, OwnedStep, Invariance, PTL DEF OrderlySpec

=============================================================================
