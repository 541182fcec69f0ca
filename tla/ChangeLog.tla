----------------------------- MODULE ChangeLog -----------------------------
(***************************************************************************)
(* The change log of one database: internal/store/log.go.                  *)
(*                                                                         *)
(* A database is abstracted to its log counter, the entries still kept,    *)
(* what it remembers of callers' write ids, and its documents.  Documents  *)
(* are abstracted to the sequence of entries that made them: two databases *)
(* hold the same documents when the same entries were applied in the same  *)
(* order.                                                                  *)
(***************************************************************************)
EXTENDS Naturals, Sequences

CONSTANTS
    WriteIds,   \* the ids callers give their writes
    NoId,       \* a write without one
    Retain      \* entries kept, 0 for all of them (Store.Retain)

ASSUME RetainAssumption == Retain \in Nat
ASSUME NoIdAssumption   == NoId \notin WriteIds

\* What one entry says: the write it is part of, and that write's id.
Entries == [op : Nat, id : WriteIds \cup {NoId}]

\* A write id nothing is remembered of.
Unknown == 0

EmptyDb == [latest |-> 0, log |-> <<>>, done |-> [w \in WriteIds |-> Unknown], data |-> <<>>]

\* OldestLSN: the earliest entry still kept, or 0.
OldestLSN(db) ==
    IF DOMAIN db.log = {} THEN 0
    ELSE CHOOSE l \in DOMAIN db.log : \A k \in DOMAIN db.log : l <= k

\* Mutant of CanFollow: off by one at the oldest entry.
CanFollowAfterOldest(db, from) ==
    IF OldestLSN(db) = 0 THEN from > db.latest ELSE from > OldestLSN(db)

\* CanFollow: the entry asked for is still there, or not written yet.
CanFollow(db, from) ==
    IF OldestLSN(db) = 0 THEN from > db.latest ELSE from >= OldestLSN(db)

\* Changes, stopped after the first most entries: their numbers, in order.
Changes(db, from, most) ==
    LET last == IF db.latest < from + most - 1 THEN db.latest ELSE from + most - 1
    IN  [i \in 1 .. (IF last >= from THEN last - from + 1 ELSE 0) |->
            [lsn |-> from + i - 1, entry |-> db.log[from + i - 1]]]

\* Mutant of Wrote: only the last write is remembered.
WroteLast(db, w) == w # NoId /\ db.done[w] # Unknown /\ db.done[w] = db.latest

\* Wrote: whether this write id has been answered before.
Wrote(db, w) == w # NoId /\ db.done[w] # Unknown

\* noteWrite: the last entry of a write is what its id leads to.
noteWrite(db, lsn, e) ==
    IF e.id = NoId THEN db ELSE [db EXCEPT !.done[e.id] = lsn]

\* trim: entries past the cap go, and each takes its write id with it.
trim(db) ==
    IF Retain = 0 \/ db.latest <= Retain THEN db
    ELSE LET doomed == {l \in DOMAIN db.log : l <= db.latest - Retain}
         IN  [db EXCEPT !.log = [l \in DOMAIN @ \ doomed |-> @[l]],
                        !.done = [w \in WriteIds |->
                                    IF \E l \in doomed : db.log[l].id = w
                                    THEN Unknown ELSE @[w]]]

\* An entry put under its number, with what it did to the documents.
Written(db, lsn, e) ==
    [db EXCEPT !.latest = lsn,
               !.log = [l \in DOMAIN @ \cup {lsn} |-> IF l = lsn THEN e ELSE @[l]],
               !.data = Append(@, e)]

\* record: the next number is handed out.
record(db, e) ==
    LET lsn == db.latest + 1 IN trim(noteWrite(Written(db, lsn, e), lsn, e))

\* The entries of one operation: one for each document it changes.
recordAll(db, e, n) ==
    LET upTo[i \in 0 .. n] == IF i = 0 THEN db ELSE record(upTo[i - 1], e)
    IN  upTo[n]

\* Apply: an entry that arrives keeps its number; one already here is ignored
\* and one that does not follow the last is refused.
Follows(db, lsn) == lsn = db.latest + 1
AlreadyHere(db, lsn) == lsn <= db.latest

\* Mutant of Apply: the copy does not note the write id.
ApplyForgetsId(db, lsn, e) == trim(Written(db, lsn, e))

Apply(db, lsn, e) == trim(noteWrite(Written(db, lsn, e), lsn, e))

=============================================================================
