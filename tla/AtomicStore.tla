---------------------------- MODULE AtomicStore ----------------------------
(***************************************************************************)
(* What a database file promises its callers, without pages, lists or meta *)
(* pages: a value with a version, that commits replace whole.  While a     *)
(* commit is under way a crash may keep the old value or the new one, and  *)
(* nothing else; once it has been reported, only the new one.              *)
(***************************************************************************)
EXTENDS Naturals

CONSTANT Values, FirstValue

VARIABLES
    durable,    \* what a crash may leave: one version, or two during a commit
    reported,   \* the version callers were last told of
    working,    \* the value the writer sees
    up          \* whether the file is open

vars == <<durable, reported, working, up>>

Version(n, v) == [version |-> n, value |-> v]

Init ==
    /\ durable = {Version(0, FirstValue)}
    /\ reported = 0
    /\ working = FirstValue
    /\ up = FALSE

\* The writer changes the value; nothing of it is durable.
Write ==
    /\ up
    /\ working' \in Values
    /\ UNCHANGED <<durable, reported, up>>

\* The commit point: from here a crash may already show the new value.  The
\* first version of all is made from nothing in the same way.
CommitPoint ==
    /\ up \/ reported = 0
    /\ up' = TRUE
    /\ durable' = durable \cup {Version(reported + 1, working)}
    /\ UNCHANGED <<reported, working>>

\* The commit is reported: from here a crash shows nothing else.
CommitReported ==
    /\ up
    /\ Version(reported + 1, working) \in durable
    /\ durable' = {Version(reported + 1, working)}
    /\ reported' = reported + 1
    /\ UNCHANGED <<working, up>>

\* A rollback, or an open: the writer sees the version that had survived.
Return ==
    /\ \E v \in durable : /\ durable = {v}
                          /\ v.version >= reported
                          /\ reported' = v.version
                          /\ working' = v.value
    /\ up' = TRUE
    /\ UNCHANGED durable

\* The file goes away, in a crash or a close, with one of its values.
Leave ==
    /\ \E v \in durable : durable' = {v}
    /\ working' = FirstValue
    /\ up' = FALSE
    /\ UNCHANGED reported

Next == Write \/ CommitPoint \/ CommitReported \/ Return \/ Leave

Spec == Init /\ [][Next]_vars

=============================================================================
