------------------------------ MODULE MCPager ------------------------------
(***************************************************************************)
(* Pager for TLC: the run of a careful caller, the two runs of what the    *)
(* code lets happen beside it, and the view under which TLC counts states. *)
(***************************************************************************)
EXTENDS PagerInv

VARIABLE orderly    \* no step so far was outside OrderlyStep

-----------------------------------------------------------------------------
(* The view.  What a page holds matters only while something leads to it:  *)
(* no step reads a page outside every tree, chain and meta before writing  *)
(* it, and the properties speak of no other.  Of what a crash may leave    *)
(* there, under WorstCrash, only whether it is what a read returns matters.*)

Leads(m) == PagesOf(m.tree) \cup m.chain

InUse ==
    UNION {Leads(m) : m \in {slot[0], slot[1], meta, next}
                            \cup slotMaybe[0] \cup slotMaybe[1]
                            \cup {snap[r] : r \in Readers}}
        \cup PagesOf(tree) \cup chain

Kept == [p \in Pages |-> IF p \in InUse THEN <<now[p], maybe[p] = {now[p]}>> ELSE <<>>]

InView == <<Kept, slot, slotMaybe, mem, list, tree, snap, next, pc, hist, orderly>>

-----------------------------------------------------------------------------
(* A careful caller, with a watch on whether it was also orderly. *)

MCInit == Init /\ orderly = TRUE

WatchNext == CarefulNext /\ orderly' = (orderly /\ OrderlyStep)

WatchSpec == MCInit /\ [][WatchNext]_<<vars, orderly>>

\* As long as every commit that failed was rolled back and every Close came
\* with the page count of the last commit, no page is lost for good: Accounted
\* on the behaviours of OrderlySpec (writeFreelist and readFreelist).
OrderlyAccounts == orderly => Accounted

-----------------------------------------------------------------------------
(* What the code also lets happen. *)

\* Commits, rollbacks and crashes, with nothing failing but the quota.
CrashNext ==
    /\ \/ Work \/ CommitList \/ CommitSync \/ CommitMeta \/ CommitDone
       \/ ListRefused("failed")
       \/ Create \/ CreateDone \/ Open \/ Crash
       \/ held = {} /\ Rollback
    /\ UNCHANGED orderly

\* perform, which carries on after an operation that failed, and commits only
\* when something changed, so only with a new root.
CarryOnNext ==
    \/ CrashNext /\ (pc = "idle" /\ pc' = "written" => tree # meta.tree)
    \/ (Failure \/ CarryOn) /\ UNCHANGED orderly

CarryOnSpec == MCInit /\ [][CarryOnNext]_<<vars, orderly>>

\* A commit whose meta page is written and not made durable: its second sync
\* fails, or the process dies before it.
UnsyncedNext ==
    \/ CrashNext
    \/ (CommitDoneFails \/ (pc # "creating" /\ Kill)) /\ UNCHANGED orderly

UnsyncedSpec == MCInit /\ [][UnsyncedNext]_<<vars, orderly>>

=============================================================================
