---------------------------- MODULE MCOperations ----------------------------
(* Small instances of Operations: two collections, one of them possibly divided by
   time or by hash, operations at the bottom, and batches that call them. *)
EXTENDS Operations

Plain == [key |-> "number", auto |-> TRUE, divided |-> "no", index |-> <<>>]
ByTime == [key |-> "string", auto |-> TRUE, divided |-> "time", index |-> <<"string">>]
MCSpecs == {Plain, ByTime, [ByTime EXCEPT !.index = <<>>],
            [Plain EXCEPT !.divided = "hash"], [Plain EXCEPT !.key = "string", !.auto = FALSE]}
\* an index of another shape under the name of one that was dropped
MCSpecsReplaced == {ByTime, [ByTime EXCEPT !.index = <<>>], [ByTime EXCEPT !.index = <<"number", "string">>]}

MCNamespaceOf == [n \in Names |-> IF n \in {"n/low", "n/top"} THEN "n" ELSE Unnamed]

Key == [type |-> "number", required |-> TRUE]
Arg == [is |-> "arg", of |-> None]
Number == [is |-> "value", of |-> "number"]
Text == [is |-> "value", of |-> "string"]
From(step) == [is |-> "step", of |-> step]

Draft(name, action, collection) ==
    [name |-> name, action |-> action, collection |-> collection, indexed |-> FALSE,
     from |-> <<>>, to |-> <<>>, limit |-> 0, scopes |-> {}, input |-> NoInput,
     key |-> NoTerm, set |-> NoTerm, steps |-> <<>>]
Walk(name, action, collection, limit) == [Draft(name, action, collection) EXCEPT !.limit = limit]
Batch(name, limit, scopes, steps) ==
    [Draft(name, "batch", "c") EXCEPT !.limit = limit, !.scopes = scopes, !.steps = steps]

Step(name, action, collection, key) ==
    [name |-> name, operation |-> None, version |-> 0, action |-> action, collection |-> collection,
     key |-> key, set |-> NoTerm, with |-> NoTerm]
Call(name, operation, version, with) ==
    [name |-> name, operation |-> operation, version |-> version, action |-> None, collection |-> None,
     key |-> NoTerm, set |-> NoTerm, with |-> with]

MCCallers == {[actor |-> "ann", signer |-> None], [actor |-> "ann", signer |-> "ann"]}

MCDrafts ==
    {[Walk("low", "scan", "d", 2) EXCEPT !.scopes = {"r"}],
     [Walk("low", "scan", "d", 2) EXCEPT !.indexed = TRUE, !.from = <<Text>>, !.to = <<Text>>],
     [Draft("low", "get", "c") EXCEPT !.input = Key, !.key = Arg],
     [Draft("n/low", "put", "c") EXCEPT !.set = Number],
     Walk("low", "count", "d", 1),
     Batch("top", 3, {}, <<Step("a", "get", "c", Number), Call("b", "low", 1, Number)>>),
     Batch("top", 2, {}, <<Call("a", "low", 1, NoTerm)>>),
     Batch("top", 4, {"r"}, <<Call("a", "low", 1, NoTerm), Call("b", "top", 1, NoTerm)>>),
     Batch("top", 3, {"r"}, <<Call("a", "low", 1, NoTerm), Call("b", "low", 1, NoTerm)>>),
     Batch("n/top", 2, {}, <<Call("a", "n/low", 1, NoTerm), Step("b", "get", "c", From("a"))>>),
     Batch("low", 3, {}, <<Call("a", "top", 0, NoTerm), Step("b", "get", "c", Number)>>)}

MCAccesses == {Walk("low", "scan", "c", 0), Walk("low", "scan", "d", 1)}

\* an update, and a batch whose second step takes its key
MCDraftsKey ==
    {[Draft("low", "update", "c") EXCEPT !.key = Number, !.set = Number],
     Batch("top", 2, {}, <<Call("a", "low", 1, NoTerm), Step("b", "put", "c", From("a"))>>)}

\* two walks of half of an int, called together
MCDraftsWide ==
    {Walk("low", "scan", "c", IntMax), Batch("top", 1, {}, <<Call("a", "low", 1, NoTerm), Call("b", "low", 1, NoTerm)>>)}

MCDraftsWalk ==
    {[Walk("low", "scan", "d", 2) EXCEPT !.indexed = TRUE, !.from = <<Text>>, !.to = <<Text>>]}
=============================================================================
