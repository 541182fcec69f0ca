----------------------------- MODULE Operations -----------------------------
(***************************************************************************)
(* Declared operations: what the store accepts as a declaration, who may   *)
(* declare it, and what a call of it then costs, reaches and is allowed.   *)
(* Everything is decided when an operation is declared (ops.go,            *)
(* compose.go); running it (invoke.go, batch.go) checks none of it again.  *)
(*                                                                         *)
(* ops is every declaration in the order it was made: a record             *)
(*   [name, version, by, action, collection, indexed, from, to, limit,     *)
(*    scopes, input, key, set, steps]                                      *)
(* A term is where a value comes from: the argument, a constant of a type, *)
(* or the key of an earlier step.  An operation takes at most one argument,*)
(* walks the key or the collection's one index, and writes at most one     *)
(* field besides the key: more of each adds nothing the rules tell apart.  *)
(* What the documents hold is abstracted to how many a collection has.     *)
(***************************************************************************)
EXTENDS Integers, Sequences, FiniteSets, FiniteSetsExt, SequencesExt

CONSTANTS
    Collections,  \* names of collections
    Specs,        \* declarations of a collection: [key, auto, divided, index]
    Names,        \* names of operations
    NamespaceOf,  \* [Names -> namespaces], Unnamed for a flat name
    Drafts,       \* operations somebody may try to declare
    Accesses,     \* accesses an operator may type at the shell
    Callers,      \* [actor, signer] of those who declare
    Presented,    \* sets of scopes a caller may present
    IntMax,       \* the largest value of a Go int
    MostRows,     \* explore.go MostRows
    MaxOps,       \* bound: declarations made
    MaxHeld       \* bound: documents in a collection

None == "none"
Unnamed == "unnamed"
Types == {"string", "number", "any"}

NoSpec == [key |-> None, auto |-> FALSE, divided |-> "no", index |-> <<>>]
NoInput == [type |-> None, required |-> FALSE]
NoTerm == [is |-> "none", of |-> None]
Terms == [is : {"none", "arg", "value", "step"}, of : STRING]

Single == {"get", "insert", "put", "update", "delete"}
Walks == {"scan", "count", "hashRange", "deleteRange"}
Actions == Single \cup Walks \cup {"totals", "batch"}
Steps == [name : STRING, operation : STRING, version : Int, action : STRING,
          collection : Collections \cup {None}, key : Terms, set : Terms, with : Terms]

ASSUME NamesAssumption == NamespaceOf \in [Names -> STRING]
ASSUME DraftsAssumption ==
    \A d \in Drafts : /\ d.name \in Names /\ d.action \in Actions
                      /\ d.collection \in Collections
                      /\ d.limit \in Int /\ d.steps \in Seq(Steps)
                      /\ \A i \in DOMAIN d.steps : \/ d.steps[i].operation # None
                                                   \/ d.steps[i].collection \in Collections
\* a shell can get, scan, count, hash or delete (explore.go)
ASSUME AccessesAssumption ==
    \A a \in Accesses : /\ a.action \in {"get"} \cup Walks
                        /\ a.collection \in Collections /\ a.limit \in Int
ASSUME SpecsAssumption == NoSpec \notin Specs
ASSUME IntAssumption == IntMax \in Nat /\ MostRows \in 1 .. IntMax
ASSUME BoundsAssumption == MaxOps \in Nat /\ MaxHeld \in Nat

VARIABLES
    collections,  \* the collections declared, None for one that is not
    ops,          \* the operations declared, oldest first
    claims,       \* namespaces claimed, and by whom
    answer        \* what the latest call was answered

vars == <<collections, ops, claims, answer>>

NoAnswer == [made |-> FALSE]

-----------------------------------------------------------------------------
(* Finding a declaration. *)

Named(name) == {p \in DOMAIN ops : ops[p].name = name}

Declared(name, version) == \E p \in Named(name) : ops[p].version = version

\* Operation: by name and version, the newest for version zero
Operation(name, version) ==
    IF version > 0
    THEN CHOOSE p \in Named(name) : ops[p].version = version
    ELSE CHOOSE p \in Named(name) : \A q \in Named(name) : ops[q].version <= ops[p].version

Calls(step) == step.operation # None
Callee(step) == Operation(step.operation, step.version)

\* a Go int holds two's complement: sums past IntMax come round
Int64(n) == ((n + IntMax + 1) % (2 * (IntMax + 1))) - (IntMax + 1)

\* the sum a loop over the steps of a batch comes to
Total(costs) ==
    LET upTo[n \in 0 .. Len(costs)] == IF n = 0 THEN 0 ELSE upTo[n - 1] + costs[n]
    IN upTo[Len(costs)]

\* a loop over the steps of a batch: a call counts for what its callee does, and a
\* plain step for its own
Summed(op, known, own) ==
    Total([i \in DOMAIN op.steps |->
              IF Calls(op.steps[i]) THEN known[Callee(op.steps[i])] ELSE own[i]])

\* the steps of an operation that call another: only a batch has steps that are looked at
Composing(op) == {i \in DOMAIN op.steps : op.action = "batch" /\ Calls(op.steps[i])}

-----------------------------------------------------------------------------
(* What a declaration costs and offers, read from declarations alone. *)

CeilingIn(op, known) ==
    CASE op.action \in Single \cup {"count", "hashRange"} -> 1
      [] op.action \in {"scan", "totals", "deleteRange"} -> op.limit
      [] op.action = "batch" -> Int64(Summed(op, known, [i \in DOMAIN op.steps |-> 1]))

\* ceilingOf: the most rows an operation may hand back or remove
Ceilings == LET known[p \in DOMAIN ops] == CeilingIn(ops[p], known) IN known
ceilingOf(op) == CeilingIn(op, Ceilings)

KeyTypeIn(op, known) ==
    CASE op.action \in (Single \ {"get"}) \cup {"deleteRange"} -> collections[op.collection].key
      [] op.action = "batch" ->
            LET last == Last(op.steps)
            IN IF Calls(last) THEN known[Callee(last)] ELSE collections[last.collection].key
      [] OTHER -> None

\* keyTypeOf: the type of the key an operation leaves behind, None for none
keyTypeOf == LET known[p \in DOMAIN ops] == KeyTypeIn(ops[p], known) IN known

\* stepOffer: what a step offers the steps after it
Offer(step) ==
    IF Calls(step)
    THEN [keyType |-> keyTypeOf[Callee(step)], ceiling |-> Ceilings[Callee(step)]]
    ELSE [keyType |-> collections[step.collection].key, ceiling |-> 1]

Writes(action) == action \in {"insert", "put", "update", "delete", "batch", "deleteRange"}

\* Mutant of ShareIn: what a batch calls is not looked at.
ShareInShallow(op, known) ==
    IF op.action = "batch"
    THEN \A i \in DOMAIN op.steps :
            Calls(op.steps[i]) \/ (op.steps[i].action = "get" /\ collections[op.steps[i].collection].divided = "no")
    ELSE ~Writes(op.action) /\ collections[op.collection].divided = "no"

ShareIn(op, known) ==
    IF op.action = "batch"
    THEN \A i \in DOMAIN op.steps :
            LET step == op.steps[i]
            IN IF Calls(step) THEN known[Callee(step)]
               ELSE step.action = "get" /\ collections[step.collection].divided = "no"
    ELSE ~Writes(op.action) /\ collections[op.collection].divided = "no"

\* shareable: the operation may run beside other readers
shareable == LET known[p \in DOMAIN ops] == ShareIn(ops[p], known) IN known

\* Mutant of EnvelopeIn: the walk does not go into what a batch calls.
EnvelopeInShallow(op, known) ==
    IF op.action = "batch"
    THEN {op.steps[i].collection : i \in {j \in DOMAIN op.steps : ~Calls(op.steps[j])}}
    ELSE {op.collection}

\* envelopeOf: what an operation is said to reach, callees included.  walked is
\* the declarations the walk visits below this one.
EnvelopeIn(op, known) ==
    IF op.action = "batch"
    THEN UNION {LET step == op.steps[i]
                IN IF Calls(step) THEN known[Callee(step)] ELSE {step.collection}
                : i \in DOMAIN op.steps}
    ELSE {op.collection}

Envelopes == LET known[p \in DOMAIN ops] == EnvelopeIn(ops[p], known) IN known

envelopeOf(op) ==
    [limit |-> IF op.action \in {"count", "hashRange"} THEN op.limit ELSE ceilingOf(op),
     collections |-> EnvelopeIn(op, Envelopes),
     scopes |-> op.scopes]

-----------------------------------------------------------------------------
(* Accepting a declaration: validateOperation. *)

Fits(wanted, given) == wanted = "any" \/ given = "any" \/ given = wanted

\* the latest of a batch's steps before step i that has this name
Earlier(op, i, name) == {j \in 1 .. i - 1 : op.steps[j].name = name}

\* check: a term used by step i of op (1 outside a batch) where a wanted is due
Check(op, i, term, wanted) ==
    \/ term.is = "value" /\ wanted \in {"any", term.of}
    \/ term.is = "arg" /\ op.input # NoInput /\ Fits(wanted, op.input.type)
    \/ /\ term.is = "step"
       /\ \E j \in Earlier(op, i, term.of) :
            LET offer == Offer(op.steps[j])
            IN offer.ceiling <= 1 /\ offer.keyType # None /\ Fits(wanted, offer.keyType)

\* one document named by its key, or written with its key
ReachesOne(op, i, at) ==
    LET key == collections[at.collection].key
    IN /\ at.action \in {"get", "update", "delete"} => at.key # NoTerm
       /\ at.action = "update" => at.set # NoTerm
       /\ at.action \in {"insert", "put"} =>
            /\ {at.key, at.set} # {NoTerm}
            /\ at.key # NoTerm \/ collections[at.collection].auto
       /\ at.key # NoTerm => Check(op, i, at.key, key)
       /\ at.set # NoTerm => Check(op, i, at.set, "any")

\* scanFields: the types of the index an operation walks
Fields(op) == IF op.indexed THEN collections[op.collection].index
                            ELSE <<collections[op.collection].key>>

\* scanAcross: a walk over several partitions still has one order
scanAcross(op) ==
    LET divided == collections[op.collection].divided
    IN \/ divided = "no"
       \/ /\ divided = "time"
          /\ op.indexed => /\ Len(op.from) = Len(Fields(op))
                           /\ op.to = op.from

BoundsFit(op) ==
    \A end \in {op.from, op.to} :
        /\ Len(end) <= Len(Fields(op))
        /\ \A i \in DOMAIN end : Check(op, 1, end[i], Fields(op)[i])

ValidWalk(op) ==
    /\ op.action \in {"hashRange", "deleteRange"} => ~op.indexed
    /\ op.indexed => Fields(op) # <<>>
    /\ BoundsFit(op)
    /\ op.limit > 0
    /\ scanAcross(op)

\* Totals of a rollup are grouped by the index's fields here: the rules are those of
\* a walk of it, except that a divided collection must have one group named.
ValidTotals(op) ==
    /\ op.indexed /\ Fields(op) # <<>>
    /\ BoundsFit(op)
    /\ op.limit > 0
    /\ collections[op.collection].divided # "no" =>
            Len(op.from) = Len(Fields(op)) /\ op.to = op.from

\* Mutant of ValidCall: a call need not pin a version.
ValidCallUnpinned(op, i) ==
    LET step == op.steps[i] IN
    /\ Named(step.operation) # {}
    /\ step.version > 0 => Declared(step.operation, step.version)
    /\ LET callee == ops[Callee(step)] IN
       /\ callee.action \notin {"count", "hashRange"}
       /\ callee.scopes \subseteq op.scopes
       /\ IF step.with = NoTerm
          THEN callee.input # NoInput => ~callee.input.required
          ELSE callee.input # NoInput /\ Check(op, i, step.with, callee.input.type)

\* Mutant of ValidCall: the scopes of what is called are not asked for.
ValidCallUnscoped(op, i) ==
    LET step == op.steps[i] IN
    /\ step.version > 0
    /\ Declared(step.operation, step.version)
    /\ LET callee == ops[Callee(step)] IN
       /\ callee.action \notin {"count", "hashRange"}
       /\ IF step.with = NoTerm
          THEN callee.input # NoInput => ~callee.input.required
          ELSE callee.input # NoInput /\ Check(op, i, step.with, callee.input.type)

\* validateComposedStep
ValidCall(op, i) ==
    LET step == op.steps[i] IN
    /\ step.version > 0
    /\ Declared(step.operation, step.version)
    /\ LET callee == ops[Callee(step)] IN
       /\ callee.action \notin {"count", "hashRange"}
       /\ callee.scopes \subseteq op.scopes
       /\ IF step.with = NoTerm
          THEN callee.input # NoInput => ~callee.input.required
          ELSE callee.input # NoInput /\ Check(op, i, step.with, callee.input.type)

ValidStep(op, i) ==
    LET step == op.steps[i] IN
    /\ Cardinality(Earlier(op, i, step.name)) = 0 \/ step.name = None
    /\ IF Calls(step) THEN ValidCall(op, i)
       ELSE /\ collections[step.collection] # NoSpec
            /\ step.action \in Single
            /\ ReachesOne(op, i, step)

\* Mutant of ValidBatch: the limit is asked for and the sum of the ceilings is not held to it.
ValidBatchUnbounded(op) ==
    /\ op.steps # <<>>
    /\ \A i \in DOMAIN op.steps : ValidStep(op, i)
    /\ (\E i \in DOMAIN op.steps : Calls(op.steps[i])) => op.limit > 0

ValidBatch(op) ==
    /\ op.steps # <<>>
    /\ \A i \in DOMAIN op.steps : ValidStep(op, i)
    /\ (\E i \in DOMAIN op.steps : Calls(op.steps[i])) =>
            /\ op.limit > 0
            /\ ceilingOf(op) <= op.limit

validateOperation(op) ==
    /\ collections[op.collection] # NoSpec
    /\ CASE op.action \in Single -> ReachesOne(op, 1, op)
         [] op.action \in Walks -> ValidWalk(op)
         [] op.action = "totals" -> ValidTotals(op)
         [] op.action = "batch" -> ValidBatch(op)

-----------------------------------------------------------------------------
(* Declaring: namespaces, versions, collections. *)

\* holder: a signer's key before an actor's name
holder(caller) == IF caller.signer # None THEN <<"key", caller.signer>>
                                          ELSE <<"actor", caller.actor>>

\* claimFor: the claims once caller has declared into name's namespace
Claimed(caller, name) ==
    IF NamespaceOf[name] = Unnamed \/ NamespaceOf[name] \in DOMAIN claims
    THEN claims
    ELSE [n \in DOMAIN claims \cup {NamespaceOf[name]} |->
            IF n \in DOMAIN claims THEN claims[n] ELSE holder(caller)]

\* Mutant of MayClaim: a claim is compared by name, whether a key or an actor holds it.
MayClaimByName(caller, name) ==
    NamespaceOf[name] \in DOMAIN claims => claims[NamespaceOf[name]][2] = holder(caller)[2]

MayClaim(caller, name) ==
    NamespaceOf[name] \in DOMAIN claims => claims[NamespaceOf[name]] = holder(caller)

\* the declaration as it is kept: numbered and signed by the store, not the draft
Numbered(caller, draft) ==
    [name |-> draft.name, version |-> Cardinality(Named(draft.name)) + 1, by |-> holder(caller),
     action |-> draft.action, collection |-> draft.collection, indexed |-> draft.indexed,
     from |-> draft.from, to |-> draft.to, limit |-> draft.limit, scopes |-> draft.scopes,
     input |-> draft.input, key |-> draft.key, set |-> draft.set, steps |-> draft.steps]

\* Mutant of DeclareOperation: declaring a name again writes over its newest version.
DeclareOperationOver(caller, draft) ==
    /\ ~answer.made /\ Len(ops) < MaxOps
    /\ validateOperation(draft)
    /\ MayClaim(caller, draft.name)
    /\ claims' = Claimed(caller, draft.name)
    /\ ops' = IF Named(draft.name) = {} THEN Append(ops, Numbered(caller, draft))
              ELSE LET at == Operation(draft.name, 0)
                   IN [ops EXCEPT ![at] = [Numbered(caller, draft) EXCEPT !.version = ops[at].version]]
    /\ UNCHANGED <<collections, answer>>

DeclareOperation(caller, draft) ==
    /\ ~answer.made /\ Len(ops) < MaxOps
    /\ validateOperation(draft)
    /\ MayClaim(caller, draft.name)
    /\ claims' = Claimed(caller, draft.name)
    /\ ops' = Append(ops, Numbered(caller, draft))
    /\ UNCHANGED <<collections, answer>>

\* Declare of a collection that is not there
DeclareCollection(c, spec) ==
    /\ ~answer.made /\ collections[c] = NoSpec
    /\ collections' = [collections EXCEPT ![c] = spec]
    /\ UNCHANGED <<ops, claims, answer>>

\* Declare again: the key and the division stay, an index is added or dropped, and an
\* index kept under its name keeps its shape
Redeclare(c, spec) ==
    /\ ~answer.made /\ collections[c] # NoSpec
    /\ spec.key = collections[c].key /\ spec.auto = collections[c].auto
    /\ spec.divided = collections[c].divided
    /\ spec.index = <<>> \/ collections[c].index \in {<<>>, spec.index}
    /\ spec # collections[c]
    /\ collections' = [collections EXCEPT ![c] = spec]
    /\ UNCHANGED <<ops, claims, answer>>

-----------------------------------------------------------------------------
(* Running an operation: runInline, runBatch, runSteps, runCalled.  held is how many *)
(* documents each collection has; a key that is asked for is there when any is.      *)

Least(a, b) == IF a < b THEN a ELSE b

RowsOfOne(at, held) ==
    CASE at.action = "get" -> Least(1, held[at.collection])
      [] at.action \in {"scan", "totals"} -> Least(at.limit, held[at.collection])
      [] OTHER -> 0

ChangedByOne(at, held) ==
    CASE at.action \in {"insert", "put"} -> 1
      [] at.action \in {"update", "delete"} -> Least(1, held[at.collection])
      [] at.action = "deleteRange" -> Least(at.limit, held[at.collection])
      [] OTHER -> 0

RowsIn(op, known, held) ==
    IF op.action = "batch"
    THEN Summed(op, known, [i \in DOMAIN op.steps |-> RowsOfOne(op.steps[i], held)])
    ELSE RowsOfOne(op, held)

ChangedIn(op, known, held) ==
    IF op.action = "batch"
    THEN Summed(op, known, [i \in DOMAIN op.steps |-> ChangedByOne(op.steps[i], held)])
    ELSE ChangedByOne(op, held)

RowsBelow(held) == LET known[p \in DOMAIN ops] == RowsIn(ops[p], known, held) IN known
ChangedBelow(held) == LET known[p \in DOMAIN ops] == ChangedIn(ops[p], known, held) IN known

Rows(op, held) == RowsIn(op, RowsBelow(held), held)
Changed(op, held) == ChangedIn(op, ChangedBelow(held), held)

\* the key an operation leaves in its result, or none: an update of a document that is
\* not there and a deleteRange of an empty stretch are not errors and leave no key
LeavesKeyIn(op, known, held) ==
    CASE op.action = "batch" ->
            LET last == Last(op.steps) IN Calls(last) => known[Callee(last)]
      [] op.action \in {"insert", "put", "delete"} -> TRUE
      [] op.action \in {"update", "deleteRange"} -> held[op.collection] > 0
      [] OTHER -> FALSE

LeavesKey(step, held) ==
    LET known[p \in DOMAIN ops] == LeavesKeyIn(ops[p], known, held)
    IN Calls(step) => known[Callee(step)]

\* the declarations a declaration calls, at any depth
CalledBy(op) == {Callee(op.steps[i]) : i \in Composing(op)}
Closed(S) == \A p \in S : CalledBy(ops[p]) \subseteq S
Reached(op) ==
    {p \in DOMAIN ops : \A S \in SUBSET DOMAIN ops : CalledBy(op) \subseteq S /\ Closed(S) => p \in S}

Parts(op) == {op} \cup {ops[p] : p \in Reached(op)}

\* what a run of op touches: the plain steps of batches, and operations on a collection
Touches(op) ==
    UNION {IF part.action = "batch"
           THEN {[action |-> part.steps[i].action, collection |-> part.steps[i].collection] :
                    i \in {j \in DOMAIN part.steps : ~Calls(part.steps[j])}}
           ELSE {[action |-> part.action, collection |-> part.collection]} : part \in Parts(op)}

TermsOf(step) == {step.key, step.set, step.with}

\* some step of op, or of an operation it calls, takes a key that was never made
TakesNothing(op, held) ==
    \E part \in Parts(op) : part.action = "batch" /\
        \E i \in DOMAIN part.steps : \E t \in TermsOf(part.steps[i]) :
            t.is = "step" /\ ~LeavesKey(part.steps[CHOOSE j \in Earlier(part, i, t.of) : TRUE], held)

\* a walk of part runs: its index is there and its bounds are no longer than it
Walkable(part) ==
    part.action \in Walks \cup {"totals"} =>
        /\ Fields(part) # <<>>
        /\ \A end \in {part.from, part.to} : Len(end) <= Len(Fields(part))

\* and it means what was declared: the bounds have the fields' types, and a divided
\* collection is walked in one order
MeansTheSame(part) == part.action \in Walks => BoundsFit(part) /\ scanAcross(part)

\* a plain update of a document that is not there fails the batch
Succeeds(op, held) ==
    \A part \in Parts(op) :
        /\ Walkable(part)
        /\ part.action = "hashRange" => held[part.collection] <= part.limit
        /\ part.action = "batch" =>
              \A i \in DOMAIN part.steps :
                 part.steps[i].action = "update" => held[part.steps[i].collection] > 0

Answer(op, scopes, held) ==
    [made |-> TRUE, op |-> op, scopes |-> scopes, rows |-> Rows(op, held), changed |-> Changed(op, held),
     missing |-> TakesNothing(op, held),
     same |-> \A part \in Parts(op) : MeansTheSame(part)]

Holdings == [Collections -> 0 .. MaxHeld]

\* Invoke and perform, by a caller presenting scopes
Invoke(name, version, scopes) ==
    /\ ~answer.made /\ Named(name) # {}
    /\ version > 0 => Declared(name, version)
    /\ LET op == ops[Operation(name, version)] IN
       /\ op.scopes \subseteq scopes          \* allowed
       /\ \E held \in Holdings :
            /\ \A c \in Collections : collections[c] = NoSpec => held[c] = 0
            /\ Succeeds(op, held)
            /\ answer' = Answer(op, scopes, held)
    /\ UNCHANGED <<collections, ops, claims>>

\* asOperation: the operation a typed access would have been declared as.  It asks for no
\* scope and takes no argument; a scan or a count that names no limit is given one.
asOperation(access) ==
    [name |-> access.name, action |-> access.action, collection |-> access.collection,
     indexed |-> access.action \in {"scan", "count"} /\ access.indexed,
     from |-> access.from, to |-> access.to,
     limit |-> IF access.action \in {"scan", "count"} /\ (access.limit <= 0 \/ access.limit > MostRows)
               THEN MostRows ELSE access.limit,
     scopes |-> {}, input |-> NoInput, key |-> access.key, set |-> NoTerm, steps |-> <<>>]

Explore(access) ==
    /\ ~answer.made
    /\ LET op == asOperation(access) IN
       /\ validateOperation(op)
       /\ \E held \in Holdings : Succeeds(op, held) /\ answer' = Answer(op, {}, held)
    /\ UNCHANGED <<collections, ops, claims>>

\* the caller has its answer, and the store is asked for the next thing
Answered ==
    /\ answer.made
    /\ answer' = NoAnswer
    /\ UNCHANGED <<collections, ops, claims>>

-----------------------------------------------------------------------------
Init ==
    /\ collections = [c \in Collections |-> NoSpec]
    /\ ops = <<>>
    /\ claims = [n \in {} |-> <<>>]
    /\ answer = NoAnswer

Next ==
    \/ \E caller \in Callers, draft \in Drafts : DeclareOperation(caller, draft)
    \/ \E c \in Collections, spec \in Specs : DeclareCollection(c, spec) \/ Redeclare(c, spec)
    \/ \E name \in Names, version \in 0 .. MaxOps, scopes \in Presented : Invoke(name, version, scopes)
    \/ \E access \in Accesses : Explore(access)
    \/ Answered

Spec == Init /\ [][Next]_vars

-----------------------------------------------------------------------------
TypeOK ==
    /\ collections \in [Collections -> Specs \cup {NoSpec}]
    /\ \A p \in DOMAIN ops : /\ ops[p].name \in Names
                            /\ ops[p].version \in 1 .. MaxOps
                            /\ ops[p].collection \in Collections
    /\ DOMAIN claims \subseteq {NamespaceOf[n] : n \in Names} \ {Unnamed}
    /\ answer.made \in BOOLEAN

\* A composed operation calls declarations older than itself, by a version that is
\* there: no operation reaches itself, so every walk over callees ends (compose.go's
\* visiting guards never answer "refers to itself").
Pinned ==
    \A p \in DOMAIN ops : \A i \in Composing(ops[p]) :
        LET step == ops[p].steps[i] IN
        Declared(step.operation, step.version) /\ Callee(step) < p

Composed(op) == Composing(op) # {}

\* The one number written in an operation that calls others bounds what a call of it
\* hands back and removes, whatever its callees call in turn.
RowsWithinLimit ==
    answer.made /\ Composed(answer.op) => answer.rows + answer.changed <= answer.op.limit

\* Nothing that runs below an operation needs a scope its caller did not present, though
\* only the operation the caller named is checked (allowed, invoke.go).
ScopesHold ==
    answer.made => \A part \in Parts(answer.op) : part.scopes \subseteq answer.scopes

\* An operation is shared with other readers exactly when nothing it reaches, at any
\* depth, writes or opens a partition file.
SharesExactly ==
    \A p \in DOMAIN ops :
        shareable[p] <=> \A at \in Touches(ops[p]) :
                            /\ ~Writes(at.action)
                            /\ collections[at.collection].divided = "no"

\* The envelope shown to whoever grants an operation covers what a call of it does: the
\* collections it touches and the rows it hands back or removes.
EnvelopeHolds ==
    answer.made =>
        LET envelope == envelopeOf(answer.op) IN
        /\ {at.collection : at \in Touches(answer.op)} \subseteq envelope.collections
        /\ answer.rows + answer.changed <= envelope.limit

\* Everything declared into a named namespace was declared by the one who claimed it: a
\* key, or an actor, and never one passing for the other.
OneHolder ==
    \A p \in DOMAIN ops :
        LET n == NamespaceOf[ops[p].name] IN
        n # Unnamed => n \in DOMAIN claims /\ claims[n] = ops[p].by

\* What is declared stays declared, and what it costs does not move when something it
\* names is declared again.
CostIsFixed ==
    [][\A p \in DOMAIN ops : ops'[p] = ops[p] /\ Ceilings'[p] = Ceilings[p]]_vars

\* "the four writes set the key they wrote" (compose.go:387): a step that takes the key of
\* an earlier step is given one.
KeysAreThere == answer.made => ~answer.missing

\* What was decided about a walk when it was declared, the types of its bounds and that
\* partitions come back in order, still holds when it runs.
WalksAsDeclared == answer.made => answer.same
=============================================================================
