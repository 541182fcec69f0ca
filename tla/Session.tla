------------------------------- MODULE Session -------------------------------
(***************************************************************************)
(* Connections to one server (server/server.go, explore.go, declare.go,    *)
(* establish.go): what a connection has proved, which database its calls   *)
(* reach, and how calls on one database share it.                          *)
(*                                                                         *)
(* A database has a readers-writer lock.  invoke looks an operation up     *)
(* under the read lock and runs it there when it can be shared; otherwise  *)
(* it lets go, takes the write lock and looks it up again.  Everything     *)
(* that declares or explores takes the write lock.  A writer that waits    *)
(* keeps new readers out (sync.RWMutex).  On a follower the loop that      *)
(* copies the leader's entries takes the same lock.                        *)
(*                                                                         *)
(* Databases hold one operation, in versions; a version is what it does    *)
(*   "read"     a read of an undivided collection: shared                  *)
(*   "batch"    a batch whose steps only read: shared                      *)
(*   "divided"  a read of a partitioned collection: not shared             *)
(*   "write"    an action that writes                                      *)
(* and whether it asks for the scope a grant carries.  Bytes on the wire,  *)
(* signatures' arithmetic and time are abstracted: a signature, a proof or *)
(* a grant is one that verifies or one that does not.                      *)
(***************************************************************************)
EXTENDS Naturals, Sequences, FiniteSets

CONSTANTS
    Sessions,     \* connections
    Databases,    \* databases of the account
    Versions,     \* what may be declared as each version: a set of [kind, scoped]
    Asked,        \* versions that are asked for, 0 for the newest
    MaxVersions   \* bound: versions declared per database

None == "none"
Jobs == {"greet", "invoke", "operate", "apply"}
Kinds == {"read", "batch", "divided", "write"}

ASSUME NoneAssumption == None \notin Sessions \cup Databases
ASSUME BoundAssumption == MaxVersions \in Nat /\ Asked \subseteq 0 .. MaxVersions
ASSUME VersionsAssumption == Versions \in [1 .. MaxVersions -> SUBSET [kind : Kinds, scoped : BOOLEAN]]

VARIABLES
    role,      \* "leader" or "follower": whether readOnly refuses
    server,    \* "up", "closing" or "closed"
    closer,    \* the database Close is waiting for or closing, None for none
    open,      \* databases in Server.open
    versions,  \* the operation's versions in each database, oldest first
    live,      \* each connection's session
    call,      \* each connection's call
    shown      \* history: databases each connection showed a signature for

vars == <<role, server, closer, open, versions, live, call, shown>>

\* session: bound to one database or to none, what it has verified, operator or not
NoSession == [greeted |-> FALSE, bound |-> None, verified |-> {}, operator |-> FALSE]

\* a call: at is where it is, version what was asked for (0 is the newest), op what was
\* looked up, scope whether a grant was verified, torn what replaced the tree it was
\* reading: a "writer", or another reader's failed "batch"
Call(where, d, job, version, scope) ==
    [at |-> where, db |-> d, job |-> job, version |-> version, op |-> 0, scope |-> scope, torn |-> None]
Idle == Call("idle", None, None, 0, FALSE)

At(s, where) == call[s].at \in where
On(d) == {s \in Sessions : call[s].db = d}
Readers(d) == {s \in On(d) : At(s, {"read"})}
\* somebody holds the write lock, or is next and waits for the readers to leave
Writer(d) == closer = d \/ \E s \in On(d) : At(s, {"drain", "write"})

Moved(s, where) == [call EXCEPT ![s].at = where]

\* the calls once the tree of d is replaced by s, whose call is over: whoever else is
\* reading it has lost it
Replaced(d, s, how) ==
    [r \in Sessions |-> IF r = s THEN Idle
                        ELSE IF r \in Readers(d) /\ call[r].torn = None
                        THEN [call[r] EXCEPT !.torn = how]
                        ELSE call[r]]

-----------------------------------------------------------------------------
(* Opening a connection and a database. *)

\* Mutant of MayOpen: a server that is closed opens what it is asked for.
MayOpenAlways(d) == d \in Databases

\* database: opened at the first verified use, by name, while the server is up
MayOpen(d) == server = "up" /\ d \in Databases

\* handshake of a bound connection: the signature is checked before anything is opened,
\* and then LatestLSN waits for the write lock, and Welcome ends it
Bind(s, d) ==
    /\ ~live[s].greeted /\ At(s, {"idle"})
    /\ MayOpen(d)
    /\ open' = open \cup {d}
    /\ shown' = [shown EXCEPT ![s] = @ \cup {d}]
    /\ call' = [call EXCEPT ![s] = Call("wait", d, "greet", 0, FALSE)]
    /\ UNCHANGED <<role, server, closer, versions, live>>

BoundTo(d) == [greeted |-> TRUE, bound |-> d, verified |-> {d}, operator |-> FALSE]

\* handshake of an account connection: nothing is verified yet
Greet(s) ==
    /\ ~live[s].greeted /\ At(s, {"idle"})
    /\ live' = [live EXCEPT ![s].greeted = TRUE]
    /\ UNCHANGED <<role, server, closer, open, versions, call, shown>>

\* elevate: the connection's own challenge is answered
Elevate(s) ==
    /\ live[s].greeted /\ At(s, {"idle"})
    /\ live' = [live EXCEPT ![s].operator = TRUE]
    /\ UNCHANGED <<role, server, closer, open, versions, call, shown>>

\* the connection ends between two calls
Goodbye(s) ==
    /\ live[s].greeted /\ At(s, {"idle"})
    /\ live' = [live EXCEPT ![s] = NoSession]
    /\ shown' = [shown EXCEPT ![s] = {}]
    /\ UNCHANGED <<role, server, closer, open, versions, call>>

\* reach: the database a call gets, given whether the signature with it verifies.  A bound
\* connection has one; an account connection shows a signature once per database.
MayReach(s, d, signed) ==
    \/ live[s].bound = d
    \/ live[s].bound = None /\ (d \in live[s].verified \/ (signed /\ MayOpen(d)))

Reach(s, d) ==
    IF live[s].bound = None /\ d \notin live[s].verified
    THEN /\ live' = [live EXCEPT ![s].verified = @ \cup {d}]
         /\ open' = open \cup {d}
    ELSE UNCHANGED <<live, open>>

\* invoke up to the lock: the database is reached and the grant, if any, verified
Ask(s, d, version, signed, scope) ==
    /\ live[s].greeted /\ At(s, {"idle"})
    /\ MayReach(s, d, signed)
    /\ Reach(s, d)
    /\ shown' = [shown EXCEPT ![s] = IF signed THEN @ \cup {d} ELSE @]
    /\ call' = [call EXCEPT ![s] = Call("look", d, "invoke", version, scope)]
    /\ UNCHANGED <<role, server, closer, versions>>

\* declare, establish and explore up to the lock: operators, and never on a follower
AskOperator(s, d, signed) ==
    /\ live[s].greeted /\ At(s, {"idle"})
    /\ live[s].operator
    /\ role = "leader"                       \* readOnly
    /\ MayReach(s, d, signed)
    /\ Reach(s, d)
    /\ shown' = [shown EXCEPT ![s] = IF signed THEN @ \cup {d} ELSE @]
    /\ call' = [call EXCEPT ![s] = Call("wait", d, "operate", 0, FALSE)]
    /\ UNCHANGED <<role, server, closer, versions>>

-----------------------------------------------------------------------------
(* Running a call. *)

\* Operation: the position of what a call asks for, 0 when it is not declared
Lookup(c) == IF c.version = 0 THEN Len(versions[c.db])
             ELSE IF c.version <= Len(versions[c.db]) THEN c.version ELSE 0

OpOf(c, op) == versions[c.db][op]

\* found, and its scopes are ones the caller presents (allowed)
Allowed(c) == Lookup(c) # 0 /\ (OpOf(c, Lookup(c)).scoped => c.scope)

Shares(kind) == kind \in {"read", "batch"}
Writes(kind) == kind \in {"batch", "write"}

\* Mutant of Look: a follower does not ask what the operation does.
LookAnyRole(s) ==
    LET c == call[s]
        kind == OpOf(c, Lookup(c)).kind
    IN /\ At(s, {"look"})
       /\ ~Writer(c.db)
       /\ call' = [call EXCEPT ![s] =
              IF ~Allowed(c) THEN Idle
              ELSE IF Shares(kind) THEN [c EXCEPT !.at = "read", !.op = Lookup(c)]
              ELSE [c EXCEPT !.at = "wait"]]
       /\ UNCHANGED <<role, server, closer, open, versions, live, shown>>

\* Mutant of Look: a reader goes in past a writer that waits.
LookPastWaiting(s) ==
    LET c == call[s]
        kind == OpOf(c, Lookup(c)).kind
    IN /\ At(s, {"look"})
       /\ \A t \in On(c.db) : ~At(t, {"write"})
       /\ call' = [call EXCEPT ![s] =
              IF ~Allowed(c) \/ (role = "follower" /\ Writes(kind)) THEN Idle
              ELSE IF Shares(kind) THEN [c EXCEPT !.at = "read", !.op = Lookup(c)]
              ELSE [c EXCEPT !.at = "wait"]]
       /\ UNCHANGED <<role, server, closer, open, versions, live, shown>>

\* SharedRead under the read lock: the call is refused, goes on to read, or lets go of
\* the lock to queue for the other
Look(s) ==
    LET c == call[s]
        kind == OpOf(c, Lookup(c)).kind
    IN /\ At(s, {"look"})
       /\ ~Writer(c.db)
       /\ call' = [call EXCEPT ![s] =
              IF ~Allowed(c) \/ (role = "follower" /\ Writes(kind)) THEN Idle
              ELSE IF Shares(kind) THEN [c EXCEPT !.at = "read", !.op = Lookup(c)]
              ELSE [c EXCEPT !.at = "wait"]]
       /\ UNCHANGED <<role, server, closer, open, versions, live, shown>>

\* the shared read is answered
ReadDone(s) ==
    /\ At(s, {"read"})
    /\ call' = [call EXCEPT ![s] = Idle]
    /\ UNCHANGED <<role, server, closer, open, versions, live, shown>>

\* a step of a shared batch fails: runBatch rolls the store back, the read lock held
ReadFails(s) ==
    /\ At(s, {"read"})
    /\ OpOf(call[s], call[s].op).kind = "batch"
    /\ call' = Replaced(call[s].db, s, "batch")
    /\ UNCHANGED <<role, server, closer, open, versions, live, shown>>

\* mutex.Lock: in line behind one writer, and then behind the readers that are inside
Queue(s) ==
    /\ At(s, {"wait"})
    /\ ~Writer(call[s].db)
    /\ call' = Moved(s, "drain")
    /\ UNCHANGED <<role, server, closer, open, versions, live, shown>>

\* Mutant of Enter: the lock is taken while readers are inside.
EnterBesideReaders(s) ==
    LET c == call[s] IN
    /\ At(s, {"drain"})
    /\ call' = [call EXCEPT ![s] =
          IF c.job # "invoke" THEN [c EXCEPT !.at = "write"]
          ELSE IF Allowed(c) THEN [c EXCEPT !.at = "write", !.op = Lookup(c)]
          ELSE Idle]
    /\ UNCHANGED <<role, server, closer, open, versions, live, shown>>

\* Mutant of Enter: what was allowed at the first lookup is taken for allowed.
EnterUnchecked(s) ==
    LET c == call[s] IN
    /\ At(s, {"drain"})
    /\ Readers(c.db) = {}
    /\ call' = [call EXCEPT ![s] =
          IF c.job # "invoke" THEN [c EXCEPT !.at = "write"]
          ELSE [c EXCEPT !.at = "write", !.op = Lookup(c)]]
    /\ UNCHANGED <<role, server, closer, open, versions, live, shown>>

\* the lock is taken, and an operation looked up again
Enter(s) ==
    LET c == call[s] IN
    /\ At(s, {"drain"})
    /\ Readers(c.db) = {}
    /\ call' = [call EXCEPT ![s] =
          IF c.job # "invoke" THEN [c EXCEPT !.at = "write"]
          ELSE IF Allowed(c) THEN [c EXCEPT !.at = "write", !.op = Lookup(c)]
          ELSE Idle]
    /\ UNCHANGED <<role, server, closer, open, versions, live, shown>>

\* The call under the write lock ends.  A file that was closed under it refuses it; an
\* operation or a declaration that fails leaves the versions as they were.
Finish(s) ==
    LET c == call[s] IN
    /\ At(s, {"write"})
    /\ c.job # "greet"
    /\ call' = Replaced(c.db, s, "writer")
    /\ \/ UNCHANGED versions
       \/ /\ c.db \in open
          /\ c.job \in {"operate", "apply"} /\ Len(versions[c.db]) < MaxVersions
          /\ \E v \in Versions[Len(versions[c.db]) + 1] : versions' = [versions EXCEPT ![c.db] = Append(@, v)]
    /\ UNCHANGED <<role, server, closer, open, live, shown>>

\* LatestLSN has been read under the lock: the connection is bound, or, when the database
\* was closed under it and refuses, ends.
Welcome(s) ==
    LET d == call[s].db IN
    /\ At(s, {"write"})
    /\ call[s].job = "greet"
    /\ call' = [call EXCEPT ![s] = Idle]
    /\ \/ live' = [live EXCEPT ![s] = BoundTo(d)] /\ UNCHANGED shown
       \/ d \notin open /\ UNCHANGED live /\ shown' = [shown EXCEPT ![s] = {}]
    /\ UNCHANGED <<role, server, closer, open, versions>>

\* The copying loop of a follower takes the lock as any writer does.  It is a connection
\* of its own here, which asks for nothing else.
Apply(s, d) ==
    /\ role = "follower" /\ MayOpen(d)
    /\ ~live[s].greeted /\ At(s, {"idle"})
    /\ open' = open \cup {d}
    /\ call' = [call EXCEPT ![s] = Call("wait", d, "apply", 0, FALSE)]
    /\ UNCHANGED <<role, server, closer, versions, live, shown>>

-----------------------------------------------------------------------------
(* Server.Close: nothing more is opened, and each database is closed under its lock. *)

CloseBegins ==
    /\ server = "up"
    /\ server' = "closing"
    /\ UNCHANGED <<role, closer, open, versions, live, call, shown>>

CloseQueues(d) ==
    /\ server = "closing" /\ closer = None /\ d \in open
    /\ ~Writer(d)
    /\ closer' = d
    /\ UNCHANGED <<role, server, open, versions, live, call, shown>>

\* Mutant of CloseDatabase: the lock is never given back.
CloseDatabaseKeepsLock(d) ==
    /\ closer = d /\ Readers(d) = {} /\ d \in open
    /\ open' = open \ {d}
    /\ UNCHANGED <<role, server, closer, versions, live, call, shown>>

CloseDatabase(d) ==
    /\ closer = d /\ Readers(d) = {}
    /\ closer' = None
    /\ open' = open \ {d}
    /\ UNCHANGED <<role, server, versions, live, call, shown>>

CloseEnds ==
    /\ server = "closing" /\ open = {}
    /\ server' = "closed"
    /\ UNCHANGED <<role, closer, open, versions, live, call, shown>>

-----------------------------------------------------------------------------
Init ==
    /\ role \in {"leader", "follower"}
    /\ server = "up"
    /\ closer = None
    /\ open = {}
    /\ versions = [d \in Databases |-> <<>>]
    /\ live = [s \in Sessions |-> NoSession]
    /\ call = [s \in Sessions |-> Idle]
    /\ shown = [s \in Sessions |-> {}]

\* what a call does once it has been asked
Inside(s) == ReadDone(s) \/ Enter(s) \/ Finish(s) \/ Welcome(s)
InLine(s) == Look(s) \/ Queue(s)
Step(s) == InLine(s) \/ Inside(s) \/ ReadFails(s)

Opening(s) ==
    \/ Greet(s) \/ Elevate(s) \/ Goodbye(s)
    \/ \E d \in Databases : Bind(s, d) \/ Apply(s, d)

Asking(s) ==
    \E d \in Databases, signed \in BOOLEAN :
        \/ \E version \in Asked, scope \in BOOLEAN : Ask(s, d, version, signed, scope)
        \/ AskOperator(s, d, signed)

Closing == CloseBegins \/ CloseEnds \/ \E d \in Databases : CloseQueues(d) \/ CloseDatabase(d)

Next == (\E s \in Sessions : Opening(s) \/ Asking(s) \/ Step(s)) \/ Closing

\* A call that holds the lock, or is next for it, goes on: goroutines run, and the readers
\* it waits for leave.  A call in line is let in by sync.RWMutex, which serves waiting
\* writers in turn and waiting readers when a writer leaves: strongly fair, because others
\* may hold the lock in between.
Fairness ==
    /\ \A s \in Sessions : WF_vars(Inside(s)) /\ SF_vars(InLine(s))
    /\ WF_vars(CloseEnds \/ \E d \in Databases : CloseDatabase(d))
    /\ SF_vars(\E d \in Databases : CloseQueues(d))

Spec == Init /\ [][Next]_vars /\ Fairness

-----------------------------------------------------------------------------
SessionRecords == [greeted : BOOLEAN, bound : Databases \cup {None},
                   verified : SUBSET Databases, operator : BOOLEAN]

CallRecords == [at : {"idle", "look", "read", "wait", "drain", "write"},
                db : Databases \cup {None}, job : Jobs \cup {None},
                version : 0 .. MaxVersions, op : 0 .. MaxVersions,
                scope : BOOLEAN, torn : {None, "writer", "batch"}]

TypeOK ==
    /\ role \in {"leader", "follower"} /\ server \in {"up", "closing", "closed"}
    /\ closer \in Databases \cup {None} /\ open \subseteq Databases
    /\ closer # None => server = "closing"
    /\ versions \in [Databases -> Seq([kind : Kinds, scoped : BOOLEAN])]
    /\ live \in [Sessions -> SessionRecords] /\ call \in [Sessions -> CallRecords]
    /\ shown \in [Sessions -> SUBSET Databases]

\* A shared read keeps the tree and the collections it started on until it is answered:
\* the lock keeps out every declaration, operation and copied entry that would replace them.
WritersDisturbNobody == \A s \in Sessions : call[s].torn # "writer"

\* The same of whatever else is answered meanwhile, other shared reads included.
ReadersUndisturbed == \A s \in Sessions : call[s].torn = None

\* What runs for a call is what the caller may run, decided on the versions that are there
\* while it runs: on a database its connection showed a signature for, the newest version
\* when no version was named, and one whose scope the caller's grant carries.
RunsWhatItMay ==
    \A s \in Sessions :
        LET c == call[s] IN
        At(s, {"read", "write"}) /\ c.job # "apply" =>
            /\ c.db \in shown[s]
            /\ c.job = "operate" => live[s].operator
            /\ c.job = "invoke" =>
                    /\ c.op = Lookup(c)
                    /\ OpOf(c, c.op).scoped => c.scope

\* the calls a follower is running that write
WritesHere(s) == At(s, {"read", "write"}) /\ call[s].job = "invoke" /\ Writes(OpOf(call[s], call[s].op).kind)

\* A follower takes writes from its leader and from nobody else: whatever is declared
\* between the two lookups, no call that names its version runs one there that writes.
PinnedNeverWrites ==
    role = "follower" => \A s \in Sessions : call[s].version # 0 => ~WritesHere(s)

\* The same of every call, those for the newest version included.
FollowerNeverWrites == role = "follower" => \A s \in Sessions : ~WritesHere(s)

\* Once Close has returned no database is open, and none is opened again.
ClosedStaysClosed == server = "closed" => open = {}

\* Every call is answered, whatever else queues for the database.
CallsAreAnswered == \A s \in Sessions : At(s, {"look", "wait", "drain"}) ~> At(s, {"idle"})

\* Close, once called, returns.
CloseReturns == server = "closing" ~> server = "closed"
=============================================================================
