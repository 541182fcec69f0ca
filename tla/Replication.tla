---------------------------- MODULE Replication ----------------------------
(***************************************************************************)
(* Following a database: the feed a server keeps for each subscriber       *)
(* (internal/server/subscribe.go, server.go), and the copy that applies    *)
(* what the feed sends (internal/follow, internal/server/follower.go).     *)
(*                                                                         *)
(* One server, the Leader, takes writes.  Every other server holds a copy  *)
(* and follows the server its Upstream names, which may itself be a copy.  *)
(* A connection carries entries in order, and may end at any moment with   *)
(* part of what was sent undelivered.                                      *)
(*                                                                         *)
(* A commit is one step: it reports success with everything durable, or an *)
(* error with nothing durable (module Pager shows when this is so).        *)
(***************************************************************************)
EXTENDS ChangeLog, SequencesExt

CONSTANTS
    Leader,      \* the server that takes writes
    Followers,   \* the servers opened read-only
    Upstream,    \* the server each of them follows
    BatchSize,   \* entries drain sends at a time (batchSize)
    MaxEntries,  \* bound on the entries written
    MaxOp,       \* bound on the entries one operation writes
    MaxFaults    \* bound on crashes, lost connections and failed applies

Nodes == {Leader} \cup Followers

ASSUME BatchAssumption    == BatchSize \in Nat \ {0}
ASSUME LeaderAssumption   == Leader \notin Followers
ASSUME UpstreamAssumption == Upstream \in [Followers -> Nodes]
ASSUME BoundsAssumption   == MaxEntries \in Nat /\ MaxOp \in Nat /\ MaxFaults \in Nat

VARIABLES
    work,     \* the tree each server works on
    disk,     \* what each server has committed
    up,       \* the servers that are running
    role,     \* what each follower's Run is doing
    stream,   \* where the goroutine of each follower's subscription is
    cursor,   \* its cursor
    batch,    \* what drain has collected and not sent yet
    woken,    \* the channel it took from waiting has been closed
    wire,     \* what was sent to each follower and not read yet
    minted,   \* operations performed so far, to tell their entries apart
    acked,    \* the operations whose callers were told they succeeded
    faults    \* faults so far

stores == <<work, disk>>
feed   == <<role, stream, cursor, batch, woken, wire>>
ops    == <<minted, acked>>
vars   == <<stores, up, feed, ops, faults>>

\* The failure frame of a subscription that fell too far behind.
TooFarBehind == [lsn |-> 0, entry |-> [op |-> 0, id |-> NoId]]

Init ==
    /\ work = [n \in Nodes |-> EmptyDb]
    /\ disk = [n \in Nodes |-> EmptyDb]
    /\ up = Nodes
    /\ role = [f \in Followers |-> "idle"]
    /\ stream = [f \in Followers |-> "none"]
    /\ cursor = [f \in Followers |-> 0]
    /\ batch = [f \in Followers |-> <<>>]
    /\ woken = [f \in Followers |-> FALSE]
    /\ wire = [f \in Followers |-> <<>>]
    /\ minted = 0
    /\ acked = {}
    /\ faults = 0

-----------------------------------------------------------------------------
(* Writing. *)

\* Mutant of notify: a feed takes its channel when it starts to wait, so one
\* that is reading or sending is not told.
notifyBlocked(n) ==
    [f \in Followers |-> woken[f] \/ (Upstream[f] = n /\ stream[f] = "blocked")]

\* notify: every channel taken from server n is closed.
notify(n) ==
    [f \in Followers |->
        woken[f] \/ (Upstream[f] = n /\ stream[f] \in {"drain", "send", "blocked"})]

\* invoke of an operation that writes, under the write lock of the database:
\* a write id already answered is answered again, anything else is recorded,
\* one entry for each document it changes, and committed.
invoke(w, n) ==
    /\ Leader \in up
    /\ woken' = notify(Leader)
    /\ IF Wrote(work[Leader], w)
       THEN /\ acked' = acked \cup {work[Leader].data[work[Leader].done[w]].op}
            /\ UNCHANGED <<stores, minted>>
       ELSE /\ work[Leader].latest + n <= MaxEntries
            /\ work' = [work EXCEPT ![Leader] =
                            recordAll(@, [op |-> minted + 1, id |-> w], n)]
            /\ disk' = [disk EXCEPT ![Leader] = work'[Leader]]
            /\ minted' = minted + 1
            /\ acked' = acked \cup {minted + 1}
    /\ UNCHANGED <<up, role, stream, cursor, batch, wire, faults>>

\* The same with a Commit that fails: perform returns the error and leaves
\* what it wrote where the next call, and the feed, find it.
invokeCommitFails(w, n) ==
    /\ Leader \in up
    /\ faults < MaxFaults
    /\ ~Wrote(work[Leader], w)
    /\ work[Leader].latest + n <= MaxEntries
    /\ work' = [work EXCEPT ![Leader] = recordAll(@, [op |-> minted + 1, id |-> w], n)]
    /\ minted' = minted + 1
    /\ faults' = faults + 1
    /\ UNCHANGED <<disk, up, feed, acked>>

-----------------------------------------------------------------------------
(* The feed of one subscription, on the server followed. *)

\* once and follow: a copy asks for what comes after what it holds.
Subscribe(f) ==
    LET from == work[f].latest + 1 IN
    /\ role[f] = "idle"
    /\ {f, Upstream[f]} \subseteq up
    /\ IF CanFollow(work[Upstream[f]], from)
       THEN /\ role' = [role EXCEPT ![f] = "following"]
            /\ stream' = [stream EXCEPT ![f] = "waiting"]
            /\ cursor' = [cursor EXCEPT ![f] = from]
       ELSE /\ role' = [role EXCEPT ![f] = "stopped"]
            /\ UNCHANGED <<stream, cursor>>
    /\ UNCHANGED <<stores, up, batch, woken, wire, ops, faults>>

\* stream takes a channel that is still open, before it reads the log.
waiting(f) ==
    /\ stream[f] = "waiting"
    /\ stream' = [stream EXCEPT ![f] = "drain"]
    /\ UNCHANGED <<stores, up, role, cursor, batch, woken, wire, ops, faults>>

\* Mutant of drain: the feed does not look whether its place is still kept.
drainUnchecked(f) ==
    LET db   == work[Upstream[f]]
        from == IF cursor[f] < OldestLSN(db) THEN OldestLSN(db) ELSE cursor[f]
    IN
    /\ stream[f] = "drain"
    /\ stream' = [stream EXCEPT ![f] = "send"]
    /\ batch' = [batch EXCEPT ![f] = Changes(db, from, BatchSize)]
    /\ UNCHANGED <<stores, up, role, cursor, woken, wire, ops, faults>>

\* drain: a batch is collected under the lock of the database; a place the
\* log no longer keeps ends the subscription with a failure.
drain(f) ==
    /\ stream[f] = "drain"
    /\ IF CanFollow(work[Upstream[f]], cursor[f])
       THEN /\ stream' = [stream EXCEPT ![f] = "send"]
            /\ batch' = [batch EXCEPT ![f] = Changes(work[Upstream[f]], cursor[f], BatchSize)]
            /\ UNCHANGED <<cursor, woken, wire>>
       ELSE /\ stream' = [stream EXCEPT ![f] = "none"]
            /\ cursor' = [cursor EXCEPT ![f] = 0]
            /\ woken' = [woken EXCEPT ![f] = FALSE]
            /\ wire' = [wire EXCEPT ![f] = Append(@, TooFarBehind)]
            /\ UNCHANGED batch
    /\ UNCHANGED <<stores, up, role, ops, faults>>

\* ... and sent outside it.  A full batch means there is more of the log, and
\* a new channel is taken; otherwise the feed waits on the one it has.
send(f) ==
    /\ stream[f] = "send"
    /\ wire' = [wire EXCEPT ![f] = @ \o batch[f]]
    /\ cursor' = [cursor EXCEPT ![f] = @ + Len(batch[f])]
    /\ batch' = [batch EXCEPT ![f] = <<>>]
    /\ IF Len(batch[f]) = BatchSize
       THEN /\ stream' = [stream EXCEPT ![f] = "waiting"]
            /\ woken' = [woken EXCEPT ![f] = FALSE]
       ELSE /\ stream' = [stream EXCEPT ![f] = "blocked"]
            /\ UNCHANGED woken
    /\ UNCHANGED <<stores, up, role, ops, faults>>

\* stream wakes: the channel it took has been closed.
Wake(f) ==
    /\ stream[f] = "blocked"
    /\ woken[f]
    /\ stream' = [stream EXCEPT ![f] = "waiting"]
    /\ woken' = [woken EXCEPT ![f] = FALSE]
    /\ UNCHANGED <<stores, up, role, cursor, batch, wire, ops, faults>>

-----------------------------------------------------------------------------
(* The copy. *)

\* Mutant of Disconnected: the feed outlives its connection.
DisconnectedFeedLeft(f, next) ==
    /\ role' = [role EXCEPT ![f] = next]
    /\ wire' = [wire EXCEPT ![f] = <<>>]
    /\ UNCHANGED <<stream, cursor, batch, woken>>

\* once returns: the connection is closed, and the feed with it.
Disconnected(f, next) ==
    /\ role' = [role EXCEPT ![f] = next]
    /\ stream' = [stream EXCEPT ![f] = "none"]
    /\ cursor' = [cursor EXCEPT ![f] = 0]
    /\ batch' = [batch EXCEPT ![f] = <<>>]
    /\ woken' = [woken EXCEPT ![f] = FALSE]
    /\ wire' = [wire EXCEPT ![f] = <<>>]

\* Mutant of ApplyEntry: applied, told about, and not committed.
ApplyEntryUncommitted(f, change) ==
    /\ wire' = [wire EXCEPT ![f] = Tail(@)]
    /\ work' = [work EXCEPT ![f] = Apply(@, change.lsn, change.entry)]
    /\ woken' = notify(f)
    /\ UNCHANGED <<disk, role, stream, cursor, batch>>

\* Server.Apply of the next entry: one already here is ignored, one that does
\* not follow is refused, which ends the connection, and the one that follows
\* is applied and committed, and whoever follows this copy is told.
ApplyEntry(f, change) ==
    IF AlreadyHere(work[f], change.lsn) \/ Follows(work[f], change.lsn)
    THEN /\ wire' = [wire EXCEPT ![f] = Tail(@)]
         /\ work' = [work EXCEPT ![f] =
                        IF AlreadyHere(@, change.lsn) THEN @
                        ELSE Apply(@, change.lsn, change.entry)]
         /\ disk' = [disk EXCEPT ![f] =
                        IF AlreadyHere(work[f], change.lsn) THEN @ ELSE work'[f]]
         /\ woken' = IF AlreadyHere(work[f], change.lsn) THEN woken ELSE notify(f)
         /\ UNCHANGED <<role, stream, cursor, batch>>
    ELSE Disconnected(f, "idle") /\ UNCHANGED stores

\* NextChange: an entry, or the failure after which Run gives up.
NextChange(f) ==
    /\ f \in up
    /\ role[f] = "following"
    /\ wire[f] # <<>>
    /\ IF Head(wire[f]) = TooFarBehind
       THEN Disconnected(f, "stopped") /\ UNCHANGED stores
       ELSE ApplyEntry(f, Head(wire[f]))
    /\ UNCHANGED <<up, ops, faults>>

\* Mutant of ApplyFails: Commit fails and nothing is rolled back.
ApplyFailsKeepsEntry(f) ==
    /\ f \in up
    /\ role[f] = "following"
    /\ wire[f] # <<>>
    /\ Follows(work[f], Head(wire[f]).lsn)
    /\ faults < MaxFaults
    /\ work' = [work EXCEPT ![f] = Apply(@, Head(wire[f]).lsn, Head(wire[f]).entry)]
    /\ Disconnected(f, "idle")
    /\ faults' = faults + 1
    /\ UNCHANGED <<disk, up, ops>>

\* Apply or its Commit fails: rolled back, so nothing of the entry stays.
ApplyFails(f) ==
    /\ f \in up
    /\ role[f] = "following"
    /\ wire[f] # <<>>
    /\ faults < MaxFaults
    /\ work' = [work EXCEPT ![f] = disk[f]]
    /\ Disconnected(f, "idle")
    /\ faults' = faults + 1
    /\ UNCHANGED <<disk, up, ops>>

\* The server followed has closed the connection and all it sent is read.
HangUp(f) ==
    /\ f \in up
    /\ role[f] = "following"
    /\ stream[f] = "none"
    /\ wire[f] = <<>>
    /\ Disconnected(f, "idle")
    /\ UNCHANGED <<stores, up, ops, faults>>

-----------------------------------------------------------------------------
(* Faults. *)

\* A connection ends with what is on it undelivered.
Drop(f) ==
    /\ role[f] = "following"
    /\ faults < MaxFaults
    /\ Disconnected(f, "idle")
    /\ faults' = faults + 1
    /\ UNCHANGED <<stores, up, ops>>

\* A server dies: its memory, its connection and its feeds go with it.  What
\* its feeds had sent may still be read.
Crash(n) ==
    /\ n \in up
    /\ faults < MaxFaults
    /\ up' = up \ {n}
    /\ work' = [work EXCEPT ![n] = disk[n]]
    /\ role' = [f \in Followers |-> IF f = n THEN "idle" ELSE role[f]]
    /\ wire' = [f \in Followers |-> IF f = n THEN <<>> ELSE wire[f]]
    /\ LET ended == {f \in Followers : n \in {f, Upstream[f]}} IN
       /\ stream' = [f \in Followers |-> IF f \in ended THEN "none" ELSE stream[f]]
       /\ cursor' = [f \in Followers |-> IF f \in ended THEN 0 ELSE cursor[f]]
       /\ batch' = [f \in Followers |-> IF f \in ended THEN <<>> ELSE batch[f]]
       /\ woken' = [f \in Followers |-> f \notin ended /\ woken[f]]
    /\ faults' = faults + 1
    /\ UNCHANGED <<disk, ops>>

Restart(n) ==
    /\ n \notin up
    /\ up' = up \cup {n}
    /\ UNCHANGED <<stores, feed, ops, faults>>

-----------------------------------------------------------------------------

Feed(f)  == waiting(f) \/ drain(f) \/ send(f) \/ Wake(f)
Copy(f)  == Subscribe(f) \/ NextChange(f) \/ HangUp(f)
Fault(f) == ApplyFails(f) \/ Drop(f)

\* What the servers do as long as no Commit fails on the leader: perform keeps
\* and streams what it could not commit (invokeCommitFails), so a copy may then
\* hold what the leader loses.
Next ==
    \/ \E w \in WriteIds \cup {NoId}, n \in 1 .. MaxOp : invoke(w, n)
    \/ \E f \in Followers : Feed(f) \/ Copy(f) \/ Fault(f)
    \/ \E n \in Nodes : Crash(n) \/ Restart(n)

\* A goroutine that can run does, a follower that lost its leader tries again
\* after Retry, and a server that died is started again.
Fairness ==
    /\ \A f \in Followers : WF_vars(Feed(f)) /\ WF_vars(Copy(f))
    /\ WF_vars(\E n \in Nodes : Restart(n))

Spec     == Init /\ [][Next]_vars
FairSpec == Spec /\ Fairness

-----------------------------------------------------------------------------
(* What the system promises. *)

\* Every variable has the shape the code gives it, a subscription's goroutine
\* runs only for a follower that is connected to a server that is up, and a
\* channel is known to be closed only while a feed holds one (server.go,
\* waiting and notify; subscribe.go, stream).
TypeOK ==
    /\ \A n \in Nodes : \A db \in {work[n], disk[n]} :
        /\ db.latest \in 0 .. MaxEntries
        /\ DOMAIN db.log \subseteq 1 .. db.latest
        /\ \A l \in DOMAIN db.log : db.log[l] \in [op : 1 .. minted, id : WriteIds \cup {NoId}]
        /\ db.done \in [WriteIds -> 0 .. db.latest]
        /\ Len(db.data) = db.latest
    /\ up \subseteq Nodes
    /\ \A f \in Followers :
        /\ role[f] \in {"idle", "following", "stopped"}
        /\ stream[f] \in {"none", "waiting", "drain", "send", "blocked"}
        /\ stream[f] # "none" => role[f] = "following" /\ {f, Upstream[f]} \subseteq up
        /\ cursor[f] = 0 <=> stream[f] = "none"
        /\ woken[f] => stream[f] \in {"drain", "send", "blocked"}
        /\ batch[f] # <<>> => stream[f] = "send"

\* The log of a copy is the log it followed: the entries a copy holds are the
\* first entries its upstream holds, under the same numbers, and what it keeps
\* of them is what it was sent (follower.go: "the copy's log IS the log it
\* followed").
CopiesFollow ==
    \A f \in Followers :
        LET copy == work[f]
            of   == work[Upstream[f]]
        IN  /\ IsPrefix(copy.data, of.data)
            /\ \A l \in DOMAIN copy.log : copy.log[l] = copy.data[l]

\* No number means one entry on a copy and another on what it follows
\* (follower.go: entry numbers that "come to mean different things" are what
\* read-only copies are there to prevent).
NumbersAgree ==
    \A f \in Followers :
        LET of == work[Upstream[f]] IN
        \A i \in 1 .. Len(work[f].data) :
            i <= Len(of.data) => work[f].data[i] = of.data[i]

\* What is on the connection always continues the copy without a gap, up to
\* where the feed's cursor is, and a failure is the last thing on it (drain's
\* CanFollow under the lock, Apply's order check).
NoGaps ==
    \A f \in Followers : role[f] = "following" =>
        LET sent == wire[f] \o batch[f] IN
        /\ \A i \in 1 .. Len(sent) :
              \/ sent[i].lsn = work[f].latest + i
              \/ sent[i] = TooFarBehind /\ i = Len(sent) /\ stream[f] = "none"
        /\ stream[f] # "none" => cursor[f] + Len(batch[f]) = work[f].latest + Len(sent) + 1

\* A retry is answered as long as none of the entries written under its id has
\* aged out, on the leader and on every copy, and what it is answered with is
\* the last of them, which is itself still kept (log.go, noteWrite and trim).
RetriesAreAnswered ==
    \A n \in Nodes, w \in WriteIds :
        LET db    == work[n]
            under == {i \in 1 .. Len(db.data) : db.data[i].id = w}
        IN  /\ db.done[w] # Unknown =>
                   /\ db.done[w] \in under \cap DOMAIN db.log
                   /\ \A i \in under : i <= db.done[w]
            /\ under # {} /\ under \subseteq DOMAIN db.log => db.done[w] # Unknown

\* An entry still kept that carries a write id keeps that id leading to the
\* operation it is part of: a retry of a write the log still shows is answered,
\* not applied again (log.go, Attribution: "A write that arrives twice under
\* the same id is applied once").
KeptWritesAreRemembered ==
    \A n \in Nodes : \A l \in DOMAIN work[n].log :
        LET e == work[n].log[l] IN
        e.id # NoId => /\ work[n].done[e.id] >= l
                       /\ work[n].log[work[n].done[e.id]].op = e.op

\* A write id is one write, whatever was retried, lost or followed: a second
\* operation is performed under it only after an entry the id was on has aged
\* out, and so never when everything is kept (invoke.go, perform; log.go, Wrote
\* and trim: "A retry that arrives after its entry has aged out is applied
\* again").
WrittenOnce ==
    \A n \in Nodes : \A i, j \in 1 .. Len(work[n].data) :
        LET a == work[n].data[i]
            b == work[n].data[j]
        IN  i < j /\ a.id = b.id /\ a.id # NoId /\ a.op # b.op =>
                /\ Retain # 0
                /\ \E k \in 1 .. i : work[n].data[k].id = a.id /\ k + Retain < j

\* A follower gives up only when what it needs is gone: the entry after its
\* last is older than every entry its upstream keeps (follow.go, Run;
\* subscribe.go, follow and drain).
StopsOnlyWhenBehind ==
    \A f \in Followers :
        \/ role[f] = "stopped"
        \/ wire[f] # <<>> /\ Head(wire[f]) = TooFarBehind
        => work[f].latest + 1 < OldestLSN(work[Upstream[f]])

\* Every copy that can still be served holds everything its upstream holds,
\* once writes and faults have ended (subscribe.go, stream: "a feed that then
\* waits on a fresh one stops with that change undelivered").
CatchesUp ==
    <>[](\A f \in Followers :
            LET of == work[Upstream[f]] IN
            CanFollow(of, work[f].latest + 1) => work[f].latest = of.latest)

Promised == INSTANCE CopiedLog WITH
    Copies <- Followers,
    Source <- Leader,
    Of     <- Upstream,
    Item   <- Entries,
    held   <- [n \in Nodes |-> disk[n].data]

\* Following implements CopiedLog: what a server holds durably only grows, a
\* copy by exactly the next entry of what it follows, whatever the feed, the
\* connection and the crashes do (subscribe.go, follower.go, follow.go).
Refines == Promised!Spec

\* Whatever a caller was told has been written is durable on the leader
\* (README.md: "durable before the answer goes back").
AckedIsDurable ==
    \A o \in acked : \E i \in 1 .. Len(disk[Leader].data) : disk[Leader].data[i].op = o

=============================================================================
