--------------------------- MODULE MCReplication ---------------------------
(***************************************************************************)
(* Replication for TLC: who copies whom, and a commit that fails.          *)
(***************************************************************************)
EXTENDS Replication

CONSTANTS L, F1, F2

\* A copy of the leader.
OneCopy == {F1}
OfLeader == [f \in OneCopy |-> L]

\* A copy of the leader and a copy of that copy.
TwoCopies == {F1, F2}
Chain == [f \in TwoCopies |-> IF f = F1 THEN L ELSE F1]

-----------------------------------------------------------------------------
(* What the code also lets happen: a Commit that fails under perform. *)

CommitFailsNext ==
    Next \/ \E w \in WriteIds \cup {NoId}, n \in 1 .. MaxOp : invokeCommitFails(w, n)
CommitFailsSpec == Init /\ [][CommitFailsNext]_vars

=============================================================================
