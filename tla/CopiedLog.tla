----------------------------- MODULE CopiedLog -----------------------------
(***************************************************************************)
(* What following a database promises: one log that only grows, and copies *)
(* that each hold a first part of what they follow and only ever take the  *)
(* next entry of it.  Connections, feeds, batches, retries and crashes do  *)
(* not show.                                                               *)
(***************************************************************************)
EXTENDS Naturals, Sequences

CONSTANTS
    Copies,   \* the servers that hold a copy
    Source,   \* the server that is written to
    Of,       \* what each copy is a copy of
    Item      \* what an entry may be

VARIABLE held   \* the log each server holds durably

Servers == Copies \cup {Source}

Init == held = [s \in Servers |-> <<>>]

\* A write adds its entries to the end of the log, all of them at once.
Publish ==
    /\ Len(held'[Source]) > Len(held[Source])
    /\ \A i \in 1 .. Len(held[Source]) : held'[Source][i] = held[Source][i]
    /\ \A i \in 1 .. Len(held'[Source]) : held'[Source][i] \in Item
    /\ held' = [held EXCEPT ![Source] = held'[Source]]

\* A copy takes the next entry of what it copies, and nothing else.
Take(c) ==
    /\ Len(held[c]) < Len(held[Of[c]])
    /\ held' = [held EXCEPT ![c] = Append(@, held[Of[c]][Len(@) + 1])]

Next == Publish \/ \E c \in Copies : Take(c)

Spec == Init /\ [][Next]_held

=============================================================================
