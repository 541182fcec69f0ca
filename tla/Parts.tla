------------------------------- MODULE Parts -------------------------------
(***************************************************************************)
(* One database in several files, with one commit point.                   *)
(*                                                                         *)
(* A partition is a page file without meta pages (pager/led.go): where its *)
(* tree is, is a row in the leader's own tree (store/parts.go), and the    *)
(* leader's commit is what makes that row true.  Partitions of a           *)
(* collection divided by time come and go with the keys that arrive        *)
(* (store/collection.go, store/partition.go).                              *)
(*                                                                         *)
(* The pages of a file are abstracted to the versions of its tree that can *)
(* still be read.  What the page store guarantees, and module Pager shows  *)
(* page by page, is that a transaction overwrites only pages its base      *)
(* version does not use: so writing on a base keeps the base readable and  *)
(* may destroy every other version.  The one detail of pages that matters  *)
(* to this layer is page 1: the first data page of a led file, and a page  *)
(* number that readFreelist refuses to see on a list.                      *)
(***************************************************************************)
EXTENDS Integers, FiniteSets

CONSTANTS
    Names,       \* partition names, as the numbers of their periods
    Keep,        \* Partition.Keep: how many are kept, 0 for all of them
    Encrypted,   \* whether the database has a key, and every label its salt
    LateKeys,    \* whether callers name keys older than what is kept
    CarryOn,     \* whether callers go on after a commit that failed
    MaxWrites    \* bound on the number of writes

\* Names sort in the order the periods happened (period).
ASSUME NamesAssumption ==
    /\ Names \subseteq Nat
    /\ IsFiniteSet(Names)
    /\ \A S \in SUBSET Names : S # {} => \E x \in S : \A y \in S : y <= x

ASSUME KeepAssumption == Keep \in Nat

ASSUME FlagsAssumption == {Encrypted, LateKeys, CarryOn} \subseteq BOOLEAN

ASSUME BoundAssumption == MaxWrites \in Nat

VARIABLES
    rows,      \* the leader's tree as the transaction sees it: name -> version
    disk,      \* the rows of the last leader commit
    file,      \* name -> versions readable in the file, {} when there is none
    handle,    \* name -> Store.parts and Store.dropping
    dropped,   \* Store.dropped: files to unlink once the drop has landed
    stage,     \* how far Store.Commit has come
    left,      \* the names it has yet to do at this stage
    mode,      \* "ok", or what the last Commit or Rollback that failed left
    stamp,     \* number of writes so far
    wrote      \* history: the names written since the last commit

vars == <<rows, disk, file, handle, dropped, stage, left, mode, stamp, wrote>>

\* A version of a partition: what was written, and whether the free list that
\* goes with it holds page 1.
Version == [val : 0..MaxWrites, one : BOOLEAN]

\* A led file that has its label and nothing else.
Empty == [val |-> 0, one |-> FALSE]

None == [val |-> -1, one |-> FALSE]

\* base is where the pages are (Pager.At), root the tree being written.
Handle == [at : {"closed", "open", "dropping"}, base : Version, root : Version]

Closed == [at |-> "closed", base |-> Empty, root |-> Empty]

Recorded(r) == {n \in Names : r[n] # None}

\* Parts: what is recorded and what has been made since.
PartsOf(r, h) == Recorded(r) \cup {n \in Names : h[n].at = "open"}

Init ==
    /\ rows = [n \in Names |-> None]
    /\ disk = [n \in Names |-> None]
    /\ file = [n \in Names |-> {}]
    /\ handle = [n \in Names |-> Closed]
    /\ dropped = {}
    /\ stage = "idle"
    /\ left = {}
    /\ mode = "ok"
    /\ stamp = 0
    /\ wrote = {}

-----------------------------------------------------------------------------
(* Opening a partition, and what that expires.                             *)

\* readFreelist: the list must be there and must not hold page 1.
Opens(n, at) == at \in file[n] /\ ~at.one

\* Part: a partition set aside by a drop still has its file locked; one that
\* is recorded is opened where the row says; any other is made.
PartSucceeds(n) ==
    \/ handle[n].at = "open"
    \/ handle[n].at = "closed" /\ (rows[n] # None => Opens(n, rows[n]))

Opened(n) ==
    IF handle[n].at = "open" THEN handle[n]
    ELSE LET at == IF rows[n] = None THEN Empty ELSE rows[n]
         IN  [at |-> "open", base |-> at, root |-> at]

\* CreateLed writes a label over whatever is there, with a salt of its own when
\* there is a key: nothing older can be read under it.
Labelled(n) ==
    IF handle[n].at = "open" \/ rows[n] # None THEN file[n]
    ELSE IF Encrypted THEN {Empty} ELSE file[n] \cup {Empty}

\* Mutant of expired: one too many is kept.
expiredOneLess(here) ==
    {n \in here : Keep > 0 /\ Cardinality({m \in here : m > n}) > Keep}

\* Partition.expired: all but the newest Keep.
expired(here) ==
    {n \in here : Keep > 0 /\ Cardinality({m \in here : m > n}) >= Keep}

\* DropPart: the row goes, an open partition is set aside, the file waits.
DropPart(h, old) ==
    [m \in Names |-> IF m \in old /\ h[m].at = "open"
                     THEN [h[m] EXCEPT !.at = "dropping"] ELSE h[m]]

Quiet == stage = "idle" /\ (mode = "ok" \/ (CarryOn /\ mode = "failed"))

\* Collection.into and expire.  What the caller does next is done to the tree
\* Part gave back, whether or not expire has dropped it since: root is what it
\* leaves there.
into(n, root) ==
    LET made == [handle EXCEPT ![n] = Opened(n)]
        old  == expired(PartsOf(rows, made))
    IN  /\ Quiet
        /\ PartSucceeds(n)
        /\ LateKeys \/ n \notin expired(PartsOf(rows, handle) \cup {n})
        /\ rows' = [m \in Names |-> IF m \in old THEN None ELSE rows[m]]
        /\ handle' = [DropPart(made, old) EXCEPT ![n].root = root]
        /\ dropped' = dropped \cup old
        /\ UNCHANGED <<disk, stage, left, mode>>

\* A get: the same way in, and nothing written.
Read(n) ==
    /\ into(n, Opened(n).root)
    /\ file' = [file EXCEPT ![n] = Labelled(n)]
    /\ UNCHANGED <<stamp, wrote>>

\* A put, an update or a delete: pages the base does not use are written over.
\* Page 1 is free only once a write before this one, of this transaction or an
\* earlier one, has put it to use.
Write(n) ==
    /\ stamp < MaxWrites
    /\ \E one \in BOOLEAN :
          /\ one => Opened(n).root.val > 0
          /\ into(n, [val |-> stamp + 1, one |-> one])
    /\ file' = [file EXCEPT ![n] = Labelled(n) \cap {Opened(n).base, Empty}]
    /\ stamp' = stamp + 1
    /\ wrote' = wrote \cup {n}

\* Collection.across: every partition in name order, up to one that will not
\* open; a scan expires nothing.
Scan ==
    /\ Quiet
    /\ LET here == PartsOf(rows, handle)
           bad  == {n \in here : ~PartSucceeds(n)}
       IN  handle' = [n \in Names |->
                         IF n \in here /\ \A b \in bad : n < b
                         THEN Opened(n) ELSE handle[n]]
    /\ UNCHANGED <<rows, disk, file, dropped, stage, left, mode, stamp, wrote>>

-----------------------------------------------------------------------------
(* Store.Commit: the partitions, then the leader, then the unlinks.        *)

\* commitParts passes over a partition that nothing was written to.
Changed == {n \in Names : handle[n].at = "open" /\ handle[n].root # handle[n].base}

Landed == IF mode = "broken" THEN mode ELSE "ok"

CommitBegins ==
    /\ stage = "idle"
    /\ mode = "ok" \/ CarryOn
    /\ stage' = "flush"
    /\ left' = Changed
    /\ UNCHANGED <<rows, disk, file, handle, dropped, mode, stamp, wrote>>

\* Pager.Flush syncs the pages and moves the base; writePart records it.
Flush(n) ==
    /\ file' = [file EXCEPT ![n] = @ \cup {handle[n].root}]
    /\ handle' = [handle EXCEPT ![n].base = handle[n].root]

\* Mutant of FlushPart: the row is written before the flush has moved the base.
FlushPartRowFirst(n) ==
    /\ stage = "flush"
    /\ n \in left /\ \A m \in left : n <= m
    /\ Flush(n)
    /\ rows' = [rows EXCEPT ![n] = handle[n].base]
    /\ left' = left \ {n}
    /\ UNCHANGED <<disk, dropped, stage, mode, stamp, wrote>>

FlushPart(n) ==
    /\ stage = "flush"
    /\ n \in left /\ \A m \in left : n <= m
    /\ Flush(n)
    /\ rows' = [rows EXCEPT ![n] = handle[n].root]
    /\ left' = left \ {n}
    /\ UNCHANGED <<disk, dropped, stage, mode, stamp, wrote>>

\* Commit returns an error: the transaction is still there, in part flushed.
GivesUp ==
    /\ stage' = "idle"
    /\ left' = {}
    /\ mode' = IF mode = "broken" THEN mode ELSE "failed"
    /\ UNCHANGED <<rows, disk, stamp, wrote>>

\* The write of a list page or the sync fails; or they do not, and the row
\* cannot be written.
FlushFails(n) ==
    /\ stage = "flush"
    /\ n \in left /\ \A m \in left : n <= m
    /\ Flush(n) \/ UNCHANGED <<file, handle>>
    /\ GivesUp
    /\ UNCHANGED dropped

LeaderFails ==
    /\ stage = "flush" /\ left = {}
    /\ GivesUp
    /\ UNCHANGED <<file, handle, dropped>>

\* Tree.Commit, and what follows it in Store.Commit.
LeaderCommits ==
    /\ stage = "flush" /\ left = {}
    /\ disk' = rows
    /\ stage' = IF dropped = {} THEN "idle" ELSE "unlink"
    /\ left' = dropped
    /\ mode' = IF dropped = {} THEN Landed ELSE mode
    /\ wrote' = {}
    /\ UNCHANGED <<rows, file, handle, dropped, stamp>>

CloseDropped(n) ==
    handle' = IF handle[n].at = "dropping"
              THEN [handle EXCEPT ![n] = Closed] ELSE handle

\* dropFiles: one file after another, and only then are they forgotten.
Unlink(n) ==
    /\ stage = "unlink"
    /\ n \in left
    /\ CloseDropped(n)
    /\ file' = [file EXCEPT ![n] = {}]
    /\ left' = left \ {n}
    /\ stage' = IF left' = {} THEN "idle" ELSE "unlink"
    /\ dropped' = IF left' = {} THEN {} ELSE dropped
    /\ mode' = IF left' = {} THEN Landed ELSE mode
    /\ UNCHANGED <<rows, disk, stamp, wrote>>

\* A file that cannot be closed or removed: Commit reports an error although
\* the transaction has landed, and the names stay on the list.
UnlinkFails(n) ==
    /\ stage = "unlink"
    /\ n \in left
    /\ CloseDropped(n) \/ UNCHANGED handle
    /\ GivesUp
    /\ UNCHANGED <<file, dropped>>

-----------------------------------------------------------------------------
(* Store.Rollback and abandonParts, and a process that ends.               *)

\* Mutant of Abandoned: a partition nothing records is put back like any other.
AbandonedUnrecorded(n) == [at |-> "open", base |-> disk[n], root |-> disk[n]]

\* Mutant of Abandoned: only the tree is put back, the pages stay where a flush left them.
AbandonedKeepsBase(n) ==
    IF disk[n] = None THEN Closed
    ELSE [at |-> "open", base |-> handle[n].base, root |-> disk[n]]

\* Abandon puts the pages back, and fails where the list cannot be read; the
\* tree is only put back after it.
Abandoned(n) ==
    IF disk[n] = None THEN Closed
    ELSE [at |-> "open", base |-> disk[n],
          root |-> IF Opens(n, disk[n]) THEN disk[n] ELSE handle[n].root]

Stuck(at) ==
    {n \in Names : handle[n].at = at /\ disk[n] # None /\ ~Opens(n, disk[n])}

Rollback ==
    /\ stage = "idle"
    /\ Stuck("open") = {} /\ Stuck("dropping") = {}
    /\ rows' = disk
    /\ handle' = [n \in Names |->
                     IF \/ handle[n].at = "open"
                        \/ handle[n].at = "dropping" /\ disk[n] # None
                     THEN Abandoned(n) ELSE handle[n]]
    /\ dropped' = {}
    /\ mode' = "ok"
    /\ wrote' = {}
    /\ UNCHANGED <<disk, file, stage, left, stamp>>

\* The first partition that cannot be put back ends the rollback: open ones
\* are done in name order, then the ones set aside, in any order.  The
\* collections are not loaded again.
RollbackFails ==
    /\ stage = "idle"
    /\ \E n \in Names :
          /\ \/ n \in Stuck("open") /\ \A m \in Stuck("open") : n <= m
             \/ n \in Stuck("dropping") /\ Stuck("open") = {}
          /\ \E back \in SUBSET {m \in Names : handle[m].at = "dropping" /\ disk[m] # None} :
                /\ back \cap Stuck("dropping") = {}
                /\ handle[n].at = "open" => back = {}
                /\ handle' = [m \in Names |->
                       IF m = n THEN [Abandoned(n) EXCEPT !.at = handle[n].at]
                       ELSE IF \/ handle[m].at = "open" /\ (handle[n].at = "open" => m < n)
                               \/ m \in back
                       THEN Abandoned(m) ELSE handle[m]]
    /\ rows' = disk
    /\ mode' = "broken"
    /\ UNCHANGED <<disk, file, dropped, stage, left, stamp, wrote>>

\* A crash at any point, or a close; the next open reads the leader's rows.
Restart ==
    /\ rows' = disk
    /\ handle' = [n \in Names |-> Closed]
    /\ dropped' = {}
    /\ stage' = "idle"
    /\ left' = {}
    /\ mode' = "ok"
    /\ wrote' = {}
    /\ UNCHANGED <<disk, file, stamp>>

-----------------------------------------------------------------------------
Work(n) == Read(n) \/ Write(n)

Commit(n) ==
    \/ FlushPart(n)
    \/ FlushFails(n)
    \/ Unlink(n)
    \/ UnlinkFails(n)

Next ==
    \/ \E n \in Names : Work(n) \/ Commit(n)
    \/ Scan
    \/ CommitBegins
    \/ LeaderFails
    \/ LeaderCommits
    \/ Rollback
    \/ RollbackFails
    \/ Restart

Spec == Init /\ [][Next]_vars

-----------------------------------------------------------------------------
TypeOK ==
    /\ rows \in [Names -> Version \cup {None}]
    /\ disk \in [Names -> Version \cup {None}]
    /\ file \in [Names -> SUBSET Version]
    /\ handle \in [Names -> Handle]
    /\ dropped \subseteq Names
    /\ stage \in {"idle", "flush", "unlink"}
    /\ left \subseteq Names
    /\ mode \in {"ok", "failed", "broken"}
    /\ stamp \in 0..MaxWrites
    /\ wrote \subseteq Names

\* Every partition the committed leader records has its file, and the version
\* it records can be read in it: whatever was written, flushed, dropped,
\* unlinked or abandoned since, and wherever a crash or a failure came.
Intact == \A n \in Recorded(disk) : disk[n] \in file[n]

\* A commit makes exactly one transaction true across all the files: what was
\* written to a partition that is still there, the absence of what was
\* dropped, and nothing else; nothing of a transaction that was rolled back.
OneTransaction ==
    [][disk' # disk =>
         \A n \in Names :
            disk'[n] = IF n \in wrote /\ handle[n].at = "open" THEN handle[n].root
                       ELSE IF n \in dropped THEN None ELSE disk[n]]_vars

\* What a commit expires is older than everything it keeps, and it keeps no
\* more partitions than the declaration says.
ExpiresTheOldest ==
    [][/\ \A n \in Recorded(disk) \ Recorded(disk)' :
              \A m \in Recorded(disk)' : n < m
       /\ Keep > 0 => Cardinality(Recorded(disk)') <= Keep]_vars

\* "What makes data old is new data arriving" (Collection.into): a partition
\* goes only in a transaction that wrote to a period that was not there.
OnlyWritesExpire ==
    [][Recorded(disk) \subseteq Recorded(disk)' \/ wrote \ Recorded(disk) # {}]_vars

\* "OpenLed opens a led store at the point its leader says it is": every
\* recorded partition can be opened there.
RecordedOpens == \A n \in Recorded(disk) : Opens(n, disk[n])

=============================================================================
