---------------------------- MODULE PartsProofs ----------------------------
(***************************************************************************)
(* What is proved about module Parts for every set of names, every number  *)
(* of partitions kept, with and without a key, and every bound on writes.  *)
(*                                                                         *)
(* TypeOK holds as it stands.  The rest is for callers that name no key    *)
(* older than what is kept and stop at a commit that failed, the two       *)
(* conditions under which module MCParts checks it; the README says what   *)
(* happens without them.                                                   *)
(***************************************************************************)
EXTENDS Parts, TLAPS, FiniteSetTheorems, NaturalsInduction, WellFoundedInduction

IsOpen(n) == handle[n].at = "open"

Here == PartsOf(rows, handle)

\* Keep partitions or more of S are newer than n: what makes n expire.
Outlived(S, n) == Keep > 0 /\ Cardinality({m \in S : m > n}) >= Keep

\* Where a partition that is opened now would be opened.
BaseOf(n) == IF rows[n] = None THEN Empty ELSE rows[n]

\* An open partition writes on what its row says.
BasesHold == \A n \in Names : IsOpen(n) => handle[n].base = BaseOf(n)

\* A partition dropped in this transaction has no row, is not open, and
\* nothing that is still there lets it come back.
DropsHold ==
    \A n \in dropped : rows[n] = None /\ ~IsOpen(n) /\ Outlived(Here, n)

\* The transaction's rows differ from the committed ones where it dropped, and
\* where a commit under way has flushed what it wrote.
RowsHold ==
    \A n \in Names :
        rows[n] # disk[n] =>
            n \in dropped \/ (stage = "flush" /\ IsOpen(n) /\ n \in wrote)

Readable == \A n \in Recorded(rows) : rows[n] \in file[n]

\* An open partition has a tree of its own exactly when it was written to.
RootsHold ==
    \A n \in Names :
        IsOpen(n) => IF n \in wrote THEN handle[n].root # Empty
                     ELSE handle[n].root = handle[n].base

\* What was written to is open, or has been dropped since.
WroteHolds == \A n \in wrote : IsOpen(n) \/ n \in dropped

\* A commit has still to flush every partition whose tree has moved.
FlushHolds ==
    stage = "flush" =>
        /\ \A n \in left : IsOpen(n) /\ n \in wrote
        /\ \A n \in Names : IsOpen(n) /\ n \notin left =>
                                handle[n].root = handle[n].base

\* What is being unlinked was dropped, and the drop has landed.
UnlinkHolds == stage = "unlink" => left \subseteq dropped /\ rows = disk /\ wrote = {}

NoneExpired == Here \cap expired(Here) = {}

DiskKept == Recorded(disk) \cap expired(Recorded(disk)) = {}

\* A commit is under way only when nothing has failed.
Busy == stage # "idle" => mode = "ok"

Sound ==
    /\ BasesHold
    /\ DropsHold
    /\ RowsHold
    /\ Readable
    /\ RootsHold
    /\ WroteHolds
    /\ FlushHolds
    /\ UnlinkHolds
    /\ NoneExpired

\* The inductive invariant.  Once something has failed nothing is said of the
\* transaction: only a rollback or a restart can follow.
IInv ==
    /\ TypeOK
    /\ Intact
    /\ DiskKept
    /\ Busy
    /\ mode = "ok" => Sound

-----------------------------------------------------------------------------
(* What expires.                                                           *)

\* expired takes out of a set exactly its outlived members (Partition.expired).
LEMMA ExpiredIs ==
    ASSUME NEW S
    PROVE  expired(S) = {n \in S : Outlived(S, n)}
BY DEF expired, Outlived

\* What is outlived in a set is outlived in a larger one, and so is whatever is
\* no newer than it.
LEMMA OutlivedGrows ==
    ASSUME NEW S, NEW T, S \subseteq T, T \subseteq Names,
           NEW n \in Names, NEW k \in Names, k <= n, Outlived(S, n)
    PROVE  Outlived(T, k)
<1> DEFINE A == {m \in S : m > n}
           B == {m \in T : m > k}
<1>1. IsFiniteSet(B)
  BY NamesAssumption, FS_Subset
<1>2. A \subseteq B
  <2>1. SUFFICES ASSUME NEW m \in A PROVE m \in B
    OBVIOUS
  <2>2. m \in Nat /\ n \in Nat /\ k \in Nat
    BY NamesAssumption
  <2> QED
    BY <2>2
<1>3. Cardinality(A) <= Cardinality(B) /\ IsFiniteSet(A)
  BY <1>1, <1>2, FS_Subset
<1>4. Cardinality(A) \in Nat /\ Cardinality(B) \in Nat
  BY <1>1, <1>3, FS_CardinalityType
<1>5. Keep > 0 /\ Cardinality(A) >= Keep
  BY DEF Outlived
<1> HIDE DEF A, B
<1>6. Cardinality(B) >= Keep
  BY <1>3, <1>4, <1>5, KeepAssumption
<1> QED
  BY <1>5, <1>6 DEF Outlived, B

\* Expiring takes away nothing that makes anything expire: the newest ones stay.
LEMMA KeptOutlive ==
    ASSUME NEW S \in SUBSET Names, NEW n \in Names, Outlived(S, n)
    PROVE  Outlived(S \ expired(S), n)
<1> DEFINE Old == {m \in expired(S) : m > n}
<1>1. CASE Old = {}
  <2>1. {m \in S : m > n} = {m \in S \ expired(S) : m > n}
    BY <1>1 DEF expired
  <2> QED
    BY <2>1 DEF Outlived
<1>2. CASE Old # {}
  <2>1. Old \in SUBSET Names
    BY DEF expired
  <2>2. PICK x \in Old : \A y \in Old : y <= x
    BY <1>2, <2>1, NamesAssumption
  <2>3. x \in Names /\ x \in S /\ Outlived(S, x) /\ x > n
    BY <2>1, <2>2, ExpiredIs
  <2>4. \A m \in S : m > x => m \notin expired(S)
    BY <2>2, <2>3, NamesAssumption
  <2>5. {m \in S : m > x} = {m \in S \ expired(S) : m > x}
    BY <2>4
  <2>6. Outlived(S \ expired(S), x)
    BY <2>3, <2>5 DEF Outlived
  <2>7. n <= x
    BY <2>3, NamesAssumption
  <2> QED
    BY <2>3, <2>6, <2>7, OutlivedGrows
<1> QED
  BY <1>1, <1>2

\* What is left after expiring has nothing more to expire.
LEMMA ExpiredOnce ==
    ASSUME NEW S \in SUBSET Names
    PROVE  (S \ expired(S)) \cap expired(S \ expired(S)) = {}
<1> DEFINE T == S \ expired(S)
<1>1. SUFFICES ASSUME NEW n \in T, Outlived(T, n) PROVE FALSE
  BY ExpiredIs
<1>2. n \in Names /\ n <= n
  BY NamesAssumption
<1>3. Outlived(S, n)
  BY <1>1, <1>2, OutlivedGrows
<1> QED
  BY <1>1, <1>3, ExpiredIs

\* What is outlived by a set with nothing to expire is older than all of it.
LEMMA OldestGo ==
    ASSUME NEW S \in SUBSET Names, S \cap expired(S) = {},
           NEW n \in Names, Outlived(S, n), NEW m \in S
    PROVE  n < m
<1>1. SUFFICES ASSUME m <= n PROVE FALSE
  BY NamesAssumption
<1>2. Outlived(S, m)
  BY <1>1, OutlivedGrows
<1> QED
  BY <1>2, ExpiredIs

\* A set with nothing to expire has no more than Keep members.
LEMMA AtMostKeep ==
    ASSUME NEW S \in SUBSET Names, S \cap expired(S) = {}, Keep > 0
    PROVE  Cardinality(S) <= Keep
<1>1. CASE S = {}
  BY <1>1, FS_EmptySet, KeepAssumption
<1>2. CASE S # {}
  <2>1. PICK x \in S : \A y \in S : ~(<<y, x>> \in OpToRel(<, Nat))
    BY <1>2, NamesAssumption, NatLessThanWellFounded, WFMin
  <2>2. SUFFICES ASSUME \A y \in S : x <= y PROVE Cardinality(S) <= Keep
    <3>1. SUFFICES ASSUME NEW y \in S PROVE x <= y
      OBVIOUS
    <3>2. x \in Nat /\ y \in Nat
      BY NamesAssumption
    <3>3. ~ (y < x)
      BY <2>1, <3>2 DEF OpToRel
    <3> QED
      BY <3>2, <3>3
  <2> DEFINE R == {m \in S : m > x}
  <2>3. S = R \cup {x} /\ x \notin R
    <3>1. \A y \in S : y \in Nat
      BY NamesAssumption
    <3> QED
      BY <2>2, <3>1
  <2>4. IsFiniteSet(R)
    BY NamesAssumption, FS_Subset
  <2>5. Cardinality(S) = Cardinality(R) + 1
    BY <2>3, <2>4, FS_AddElement
  <2>6. ~ (Cardinality(R) >= Keep)
    BY ExpiredIs DEF Outlived
  <2>7. Cardinality(R) \in Nat
    BY <2>4, FS_CardinalityType
  <2> HIDE DEF R
  <2> QED
    BY <2>5, <2>6, <2>7, KeepAssumption
<1> QED
  BY <1>1, <1>2

-----------------------------------------------------------------------------
(* The way into a partition.                                               *)

\* The versions that stand for no partition and for an empty one.
LEMMA VersionFacts ==
    /\ Empty \in Version
    /\ None \notin Version
    /\ Empty # None
    /\ Closed \in Handle
    /\ Closed.at = "closed"
BY BoundAssumption DEF Empty, None, Version, Closed, Handle

\* A handle made of its three parts.
LEMMA HandleFacts ==
    ASSUME NEW a \in {"closed", "open", "dropping"}, NEW b \in Version, NEW r \in Version
    PROVE  [at |-> a, base |-> b, root |-> r] \in Handle
BY DEF Handle

\* A handle with another tree, and one that is set aside.
LEMMA HandleParts ==
    ASSUME NEW h \in Handle, NEW r \in Version
    PROVE  /\ h.at \in {"closed", "open", "dropping"}
           /\ h.base \in Version
           /\ h.root \in Version
           /\ [h EXCEPT !.root = r] \in Handle
           /\ [h EXCEPT !.root = r].at = h.at
           /\ [h EXCEPT !.root = r].base = h.base
           /\ [h EXCEPT !.root = r].root = r
           /\ [h EXCEPT !.base = r] \in Handle
           /\ [h EXCEPT !.base = r].at = h.at
           /\ [h EXCEPT !.base = r].base = r
           /\ [h EXCEPT !.base = r].root = h.root
           /\ [h EXCEPT !.at = "dropping"] \in Handle
           /\ [h EXCEPT !.at = "dropping"].at = "dropping"
BY DEF Handle

\* Part gives back an open handle, on what the row says when it was not open.
LEMMA OpenedFacts ==
    ASSUME TypeOK, NEW n \in Names
    PROVE  /\ Opened(n) \in Handle
           /\ Opened(n).at = "open"
           /\ handle[n].at = "open" => Opened(n) = handle[n]
           /\ handle[n].at # "open" =>
                 Opened(n).base = BaseOf(n) /\ Opened(n).root = BaseOf(n)
           /\ BaseOf(n) \in Version
<1>1. BaseOf(n) \in Version
  BY VersionFacts DEF BaseOf, TypeOK
<1>2. CASE handle[n].at = "open"
  BY <1>1, <1>2 DEF Opened, TypeOK
<1>3. CASE handle[n].at # "open"
  <2>1. Opened(n) = [at |-> "open", base |-> BaseOf(n), root |-> BaseOf(n)]
    BY <1>3 DEF Opened, BaseOf
  <2> QED
    BY <1>1, <1>3, <2>1, HandleFacts
<1> QED
  BY <1>2, <1>3

\* What the way in to n expires.
Old(n) == expired(Here \cup {n})

\* What into leaves of every handle and every row (Collection.into, expire).
LEMMA IntoFacts ==
    ASSUME TypeOK, NEW n \in Names, NEW root \in Version, into(n, root)
    PROVE  /\ rows' \in [Names -> Version \cup {None}]
           /\ \A m \in Names : rows'[m] = IF m \in Old(n) THEN None ELSE rows[m]
           /\ handle' \in [Names -> Handle]
           /\ handle'[n].at = IF n \in Old(n) THEN "dropping" ELSE "open"
           /\ handle'[n].base = Opened(n).base
           /\ handle'[n].root = root
           /\ \A m \in Names \ {n} :
                 /\ m \in Old(n) /\ handle[m].at = "open" => handle'[m].at = "dropping"
                 /\ m \notin Old(n) \/ handle[m].at # "open" => handle'[m] = handle[m]
           /\ dropped' = dropped \cup Old(n)
<1> DEFINE old == Old(n)
           made == [handle EXCEPT ![n] = Opened(n)]
           gone == DropPart(made, old)
<1>1. /\ made \in [Names -> Handle]
      /\ made[n] = Opened(n)
      /\ \A m \in Names \ {n} : made[m] = handle[m]
  BY OpenedFacts DEF TypeOK
<1>2. PartsOf(rows, made) = Here \cup {n}
  BY <1>1, OpenedFacts DEF PartsOf, Here, Recorded
<1>20. old = expired(PartsOf(rows, made))
  BY <1>2 DEF Old
<1> HIDE DEF old
<1>3. /\ rows' = [m \in Names |-> IF m \in old THEN None ELSE rows[m]]
      /\ handle' = [gone EXCEPT ![n].root = root]
      /\ dropped' = dropped \cup old
  BY <1>20 DEF into
<1> HIDE DEF made
<1>4. /\ gone = [m \in Names |-> IF m \in old /\ made[m].at = "open"
                                 THEN [made[m] EXCEPT !.at = "dropping"] ELSE made[m]]
  BY DEF DropPart
<1>5. \A m \in Names : [made[m] EXCEPT !.at = "dropping"] \in Handle
  BY <1>1, HandleParts
<1>6. gone \in [Names -> Handle]
  BY <1>1, <1>4, <1>5
<1>7. gone[n].base = Opened(n).base
  <2>1. [Opened(n) EXCEPT !.at = "dropping"].base = Opened(n).base
    BY OpenedFacts DEF Handle
  <2> QED
    BY <1>1, <1>4, <2>1
<1>8. gone[n].at = IF n \in old THEN "dropping" ELSE "open"
  <2>1. made[n].at = "open" /\ [made[n] EXCEPT !.at = "dropping"].at = "dropping"
    BY <1>1, OpenedFacts DEF Handle
  <2> QED
    BY <1>4, <2>1
<1>9. \A m \in Names \ {n} :
          /\ m \in old /\ handle[m].at = "open" => gone[m].at = "dropping"
          /\ m \notin old \/ handle[m].at # "open" => gone[m] = handle[m]
  <2>1. \A m \in Names : [made[m] EXCEPT !.at = "dropping"].at = "dropping"
    BY <1>1 DEF Handle
  <2> QED
    BY <1>1, <1>4, <2>1
<1> HIDE DEF gone
<1>10. handle'[n] = [gone[n] EXCEPT !.root = root]
  BY <1>3, <1>6
<1>11. \A m \in Names \ {n} : handle'[m] = gone[m]
  BY <1>3, <1>6
<1>12. handle'[n] \in Handle /\ handle'[n].at = gone[n].at
       /\ handle'[n].base = gone[n].base /\ handle'[n].root = root
  <2>1. gone[n] \in Handle
    BY <1>6
  <2> DEFINE g == gone[n]
  <2> HIDE DEF g
  <2>2. g \in Handle
    BY <2>1 DEF g
  <2>3. /\ [g EXCEPT !.root = root] \in Handle
        /\ [g EXCEPT !.root = root].at = g.at
        /\ [g EXCEPT !.root = root].base = g.base
        /\ [g EXCEPT !.root = root].root = root
    BY <2>2, HandleParts
  <2>4. handle'[n] = [g EXCEPT !.root = root]
    BY <1>10 DEF g
  <2> QED
    BY <2>3, <2>4 DEF g
<1>13. handle' \in [Names -> Handle]
  <2>1. handle' = [m \in Names |-> handle'[m]]
    BY <1>3, <1>6
  <2>2. \A m \in Names : handle'[m] \in Handle
    BY <1>6, <1>11, <1>12
  <2> QED
    BY <2>1, <2>2
<1>14. /\ rows' \in [Names -> Version \cup {None}]
       /\ \A m \in Names : rows'[m] = IF m \in old THEN None ELSE rows[m]
  BY <1>3 DEF TypeOK
<1> QED
  BY <1>3, <1>7, <1>8, <1>9, <1>11, <1>12, <1>13, <1>14 DEF old

-----------------------------------------------------------------------------
(* Types.                                                                  *)

\* The initial state is well typed.
LEMMA TypeInit == Init => TypeOK
BY VersionFacts, BoundAssumption DEF Init, TypeOK

\* Finding the partition of a key keeps the types.
LEMMA TypeInto ==
    ASSUME TypeOK, NEW n \in Names, NEW root \in Version, into(n, root)
    PROVE  /\ rows' \in [Names -> Version \cup {None}]
           /\ disk' \in [Names -> Version \cup {None}]
           /\ handle' \in [Names -> Handle]
           /\ dropped' \subseteq Names
           /\ stage' \in {"idle", "flush", "unlink"}
           /\ left' \subseteq Names
           /\ mode' \in {"ok", "failed", "broken"}
<1> DEFINE old == Old(n)
<1>2. old \subseteq Names
  BY DEF Old, expired, Here, PartsOf, Recorded
<1>3. /\ rows' \in [Names -> Version \cup {None}]
      /\ handle' \in [Names -> Handle]
      /\ dropped' = dropped \cup old
  BY IntoFacts
<1>5. dropped' \subseteq Names
  BY <1>2, <1>3 DEF TypeOK
<1>6. UNCHANGED <<disk, stage, left, mode>>
  BY DEF into
<1> QED
  BY <1>3, <1>5, <1>6 DEF TypeOK

\* What a file holds under a label is a set of versions.
LEMMA LabelledType ==
    ASSUME TypeOK, NEW n \in Names
    PROVE  Labelled(n) \in SUBSET Version
BY VersionFacts DEF Labelled, TypeOK

\* A get keeps the types.
LEMMA TypeRead ==
    ASSUME TypeOK, NEW n \in Names, Read(n)
    PROVE  TypeOK'
<1>1. Opened(n).root \in Version
  BY OpenedFacts, HandleParts, VersionFacts
<1>2. into(n, Opened(n).root) /\ file' = [file EXCEPT ![n] = Labelled(n)]
      /\ UNCHANGED <<stamp, wrote>>
  BY DEF Read
<1>3. file' \in [Names -> SUBSET Version]
  BY <1>2, LabelledType DEF TypeOK
<1> QED
  BY <1>1, <1>2, <1>3, TypeInto DEF TypeOK

\* A put or a delete keeps the types.
LEMMA TypeWrite ==
    ASSUME TypeOK, NEW n \in Names, Write(n)
    PROVE  TypeOK'
<1>1. PICK one \in BOOLEAN : into(n, [val |-> stamp + 1, one |-> one])
  BY DEF Write
<1>2. /\ stamp < MaxWrites
      /\ file' = [file EXCEPT ![n] = Labelled(n) \cap {Opened(n).base, Empty}]
      /\ stamp' = stamp + 1
      /\ wrote' = wrote \cup {n}
  BY DEF Write
<1>3. stamp' \in 0..MaxWrites
  BY <1>2, BoundAssumption DEF TypeOK
<1>4. [val |-> stamp + 1, one |-> one] \in Version
  BY <1>2, <1>3 DEF Version
<1>5. file' \in [Names -> SUBSET Version]
  BY <1>2, LabelledType DEF TypeOK
<1>6. wrote' \subseteq Names
  BY <1>2 DEF TypeOK
<1> QED
  BY <1>1, <1>3, <1>4, <1>5, <1>6, TypeInto DEF TypeOK

\* A scan keeps the types.
LEMMA TypeScan ==
    ASSUME TypeOK, Scan
    PROVE  TypeOK'
<1>1. handle' \in [Names -> Handle]
  BY OpenedFacts DEF Scan, TypeOK
<1> QED
  BY <1>1 DEF Scan, TypeOK

\* What a flush leaves: the handle's base is its tree, and the file has it.
LEMMA FlushFacts ==
    ASSUME TypeOK, NEW n \in Names, Flush(n)
    PROVE  /\ file' \in [Names -> SUBSET Version]
           /\ \A m \in Names : file[m] \subseteq file'[m]
           /\ handle[n].root \in file'[n]
           /\ handle' \in [Names -> Handle]
           /\ handle'[n].at = handle[n].at
           /\ handle'[n].base = handle[n].root
           /\ handle'[n].root = handle[n].root
           /\ \A m \in Names \ {n} : handle'[m] = handle[m]
<1>1. handle[n] \in Handle /\ handle[n].root \in Version
  BY HandleParts, VersionFacts DEF TypeOK
<1>2. handle' = [handle EXCEPT ![n] = [handle[n] EXCEPT !.base = handle[n].root]]
  BY DEF Flush
<1> DEFINE h == [handle[n] EXCEPT !.base = handle[n].root]
<1>3. h \in Handle /\ h.at = handle[n].at /\ h.base = handle[n].root /\ h.root = handle[n].root
  BY <1>1, HandleParts
<1> HIDE DEF h
<1>4. handle'[n] = h /\ handle' \in [Names -> Handle]
      /\ \A m \in Names \ {n} : handle'[m] = handle[m]
  BY <1>2, <1>3 DEF TypeOK, h
<1>5. /\ file' \in [Names -> SUBSET Version]
      /\ \A m \in Names : file[m] \subseteq file'[m]
      /\ handle[n].root \in file'[n]
  BY <1>1 DEF Flush, TypeOK
<1> QED
  BY <1>3, <1>4, <1>5

\* One partition flushed keeps the types.
LEMMA TypeFlushPart ==
    ASSUME TypeOK, NEW n \in Names, FlushPart(n)
    PROVE  TypeOK'
<1>1. Flush(n) /\ rows' = [rows EXCEPT ![n] = handle[n].root] /\ left' = left \ {n}
      /\ UNCHANGED <<disk, dropped, stage, mode, stamp, wrote>>
  BY DEF FlushPart
<1>2. handle[n].root \in Version
  BY HandleParts, VersionFacts DEF TypeOK
<1>3. rows' \in [Names -> Version \cup {None}]
  BY <1>1, <1>2 DEF TypeOK
<1>4. file' \in [Names -> SUBSET Version] /\ handle' \in [Names -> Handle]
  BY <1>1, FlushFacts
<1> QED
  BY <1>1, <1>3, <1>4 DEF TypeOK

\* A flush that fails keeps the types.
LEMMA TypeFlushFails ==
    ASSUME TypeOK, NEW n \in Names, FlushFails(n)
    PROVE  TypeOK'
<1>1. file' \in [Names -> SUBSET Version] /\ handle' \in [Names -> Handle]
  BY FlushFacts DEF FlushFails, TypeOK
<1> QED
  BY <1>1 DEF FlushFails, GivesUp, TypeOK

\* dropFiles closes the one handle, when it was set aside.
LEMMA CloseFacts ==
    ASSUME TypeOK, NEW n \in Names, CloseDropped(n)
    PROVE  /\ handle' \in [Names -> Handle]
           /\ \A m \in Names : handle[m].at = "open" => handle'[m] = handle[m]
           /\ \A m \in Names : handle'[m].at = "open" => handle[m].at = "open"
<1>1. CASE handle[n].at = "dropping"
  <2>1. handle' = [handle EXCEPT ![n] = Closed]
    BY <1>1 DEF CloseDropped
  <2> QED
    BY <1>1, <2>1, VersionFacts DEF TypeOK
<1>2. CASE handle[n].at # "dropping"
  BY <1>2 DEF CloseDropped, TypeOK
<1> QED
  BY <1>1, <1>2

\* One file removed keeps the types.
LEMMA TypeUnlink ==
    ASSUME TypeOK, NEW n \in Names, Unlink(n)
    PROVE  TypeOK'
<1>1. handle' \in [Names -> Handle]
  BY CloseFacts DEF Unlink
<1>2. file' \in [Names -> SUBSET Version]
  BY DEF Unlink, TypeOK
<1>3. mode' \in {"ok", "failed", "broken"}
  BY DEF Unlink, TypeOK, Landed
<1>4. left' \subseteq Names /\ dropped' \subseteq Names /\ stage' \in {"idle", "flush", "unlink"}
  BY DEF Unlink, TypeOK
<1> QED
  BY <1>1, <1>2, <1>3, <1>4 DEF Unlink, TypeOK

\* A removal that fails keeps the types.
LEMMA TypeUnlinkFails ==
    ASSUME TypeOK, NEW n \in Names, UnlinkFails(n)
    PROVE  TypeOK'
<1>1. handle' \in [Names -> Handle]
  BY CloseFacts DEF UnlinkFails, TypeOK
<1> QED
  BY <1>1 DEF UnlinkFails, GivesUp, TypeOK

\* What Abandon leaves of a handle.
LEMMA AbandonedFacts ==
    ASSUME TypeOK, NEW n \in Names
    PROVE  /\ Abandoned(n) \in Handle
           /\ disk[n] = None => Abandoned(n) = Closed
           /\ disk[n] # None => Abandoned(n).at = "open" /\ Abandoned(n).base = disk[n]
           /\ disk[n] # None /\ Opens(n, disk[n]) => Abandoned(n).root = disk[n]
<1>1. CASE disk[n] = None
  BY <1>1, VersionFacts DEF Abandoned
<1>2. CASE disk[n] # None
  <2> DEFINE r == IF Opens(n, disk[n]) THEN disk[n] ELSE handle[n].root
  <2>1. disk[n] \in Version
    BY <1>2 DEF TypeOK
  <2>2. handle[n].root \in Version
    BY VersionFacts, HandleParts DEF TypeOK
  <2>3. r \in Version
    BY <2>1, <2>2
  <2>4. Abandoned(n) = [at |-> "open", base |-> disk[n], root |-> r]
    BY <1>2 DEF Abandoned
  <2>5. Opens(n, disk[n]) => r = disk[n]
    OBVIOUS
  <2> HIDE DEF r
  <2> QED
    BY <1>2, <2>1, <2>3, <2>4, <2>5, HandleFacts
<1> QED
  BY <1>1, <1>2

\* A roll-back keeps the types.
LEMMA TypeRollback ==
    ASSUME TypeOK, Rollback
    PROVE  TypeOK'
<1>1. handle' \in [Names -> Handle]
  BY AbandonedFacts DEF Rollback, TypeOK
<1> QED
  BY <1>1 DEF Rollback, TypeOK

\* A roll-back that fails keeps the types.
LEMMA TypeRollbackFails ==
    ASSUME TypeOK, RollbackFails
    PROVE  TypeOK'
<1>1. PICK n \in Names, back \in SUBSET Names :
          handle' = [m \in Names |->
                       IF m = n THEN [Abandoned(n) EXCEPT !.at = handle[n].at]
                       ELSE IF \/ handle[m].at = "open" /\ (handle[n].at = "open" => m < n)
                               \/ m \in back
                       THEN Abandoned(m) ELSE handle[m]]
  BY DEF RollbackFails
<1>2. [Abandoned(n) EXCEPT !.at = handle[n].at] \in Handle
  <2>1. handle[n].at \in {"closed", "open", "dropping"}
    BY DEF TypeOK, Handle
  <2> QED
    BY <2>1, AbandonedFacts DEF Handle
<1>3. handle' \in [Names -> Handle]
  BY <1>1, <1>2, AbandonedFacts DEF TypeOK
<1> QED
  BY <1>3 DEF RollbackFails, TypeOK

\* Every step keeps the types.
LEMMA TypeStep == TypeOK /\ [Next]_vars => TypeOK'
<1> SUFFICES ASSUME TypeOK, [Next]_vars PROVE TypeOK'
  OBVIOUS
<1>1. ASSUME NEW n \in Names, Work(n) PROVE TypeOK'
  BY <1>1, TypeRead, TypeWrite DEF Work
<1>2. ASSUME NEW n \in Names, Commit(n) PROVE TypeOK'
  BY <1>2, TypeFlushPart, TypeFlushFails, TypeUnlink, TypeUnlinkFails DEF Commit
<1>3. CASE Scan
  BY <1>3, TypeScan
<1>4. CASE CommitBegins
  BY <1>4 DEF CommitBegins, Changed, TypeOK
<1>5. CASE LeaderFails
  BY <1>5 DEF LeaderFails, GivesUp, TypeOK
<1>6. CASE LeaderCommits
  BY <1>6 DEF LeaderCommits, Landed, TypeOK
<1>7. CASE Rollback
  BY <1>7, TypeRollback
<1>8. CASE RollbackFails
  BY <1>8, TypeRollbackFails
<1>9. CASE Restart
  BY <1>9, VersionFacts DEF Restart, TypeOK
<1>10. CASE UNCHANGED vars
  BY <1>10 DEF vars, TypeOK
<1> QED
  BY <1>1, <1>2, <1>3, <1>4, <1>5, <1>6, <1>7, <1>8, <1>9, <1>10 DEF Next

\* Every variable keeps its type whatever callers do and wherever a commit, a
\* rollback or the process ends.
THEOREM TypeCorrect == Spec => []TypeOK
BY TypeInit, TypeStep, PTL DEF Spec

-----------------------------------------------------------------------------
(* The inductive invariant.                                                *)

\* Callers name no key older than what is kept, and stop at a commit that failed.
Careful == ~LateKeys /\ ~CarryOn

\* The invariant holds of an empty collection.
LEMMA InvInit == Init => IInv
<1> SUFFICES ASSUME Init PROVE IInv
  OBVIOUS
<1>1. TypeOK
  BY TypeInit
<1>2. Recorded(rows) = {} /\ Recorded(disk) = {} /\ Here = {}
  BY VersionFacts DEF Init, Recorded, Here, PartsOf
<1>3. Intact /\ DiskKept /\ Busy
  BY <1>2 DEF Intact, DiskKept, Init, Busy
<1>4. Sound
  BY <1>2, VersionFacts DEF Sound, Init, BasesHold, DropsHold, RowsHold, Readable,
     RootsHold, WroteHolds, FlushHolds, UnlinkHolds, NoneExpired, IsOpen
<1> QED
  BY <1>1, <1>3, <1>4 DEF IInv

\* The way in keeps what does not depend on what is written: the partition it
\* opens is not one that this transaction dropped, it is on its row, and what
\* it expires stays expired.
LEMMA IntoSound ==
    ASSUME IInv, Careful, NEW n \in Names, NEW root \in Version, into(n, root)
    PROVE  /\ mode = "ok" /\ stage = "idle" /\ UNCHANGED <<mode, stage, disk>>
           /\ BasesHold' /\ DropsHold' /\ RowsHold' /\ NoneExpired'
           /\ handle'[n].at = "open" /\ handle'[n].root = root
           /\ handle'[n].base = BaseOf(n) /\ Opened(n).base = BaseOf(n)
           /\ \A m \in Names \ {n} : handle'[m].at = "open" => handle'[m] = handle[m]
           /\ \A m \in Names : rows'[m] # None => rows'[m] = rows[m]
           /\ n \notin dropped
           /\ \A m \in Names : handle[m].at = "open" \/ m \in dropped =>
                                 handle'[m].at = "open" \/ m \in dropped'
<1> DEFINE old == Old(n)
<1>2. /\ mode = "ok" /\ stage = "idle" /\ UNCHANGED <<mode, stage, disk>>
      /\ n \notin old
  BY DEF into, Quiet, Careful, Here, Old
<1>3. TypeOK /\ BasesHold /\ DropsHold /\ RowsHold /\ NoneExpired
  BY <1>2 DEF IInv, Sound
<1>20. TypeOK
  BY DEF IInv
<1>4. /\ \A m \in Names : rows'[m] = IF m \in old THEN None ELSE rows[m]
      /\ handle' \in [Names -> Handle]
      /\ handle'[n].at = "open"
      /\ handle'[n].base = Opened(n).base
      /\ handle'[n].root = root
      /\ \A m \in Names \ {n} :
            /\ m \in old /\ handle[m].at = "open" => handle'[m].at = "dropping"
            /\ m \notin old \/ handle[m].at # "open" => handle'[m] = handle[m]
      /\ dropped' = dropped \cup old
  <2>1. handle'[n].at = IF n \in old THEN "dropping" ELSE "open"
    BY <1>20, IntoFacts
  <2>2. /\ \A m \in Names : rows'[m] = IF m \in old THEN None ELSE rows[m]
        /\ handle' \in [Names -> Handle]
        /\ handle'[n].base = Opened(n).base
        /\ handle'[n].root = root
        /\ dropped' = dropped \cup old
    BY <1>20, IntoFacts
  <2>3. \A m \in Names \ {n} :
            /\ m \in old /\ handle[m].at = "open" => handle'[m].at = "dropping"
            /\ m \notin old \/ handle[m].at # "open" => handle'[m] = handle[m]
    BY <1>20, IntoFacts
  <2> QED
    BY <1>2, <2>1, <2>2, <2>3
<1>5. Opened(n).base = BaseOf(n)
  BY <1>3, OpenedFacts DEF BasesHold, IsOpen
<1>7. \A m \in Names \ {n} :
          handle'[m].at = "open" <=> handle[m].at = "open" /\ m \notin old
  BY <1>4
<1>8. \A m \in Names \ {n} : handle'[m].at = "open" => handle'[m] = handle[m]
  BY <1>4, <1>7
<1>9. Here \in SUBSET Names /\ Here \cup {n} \in SUBSET Names /\ old \subseteq Names
  BY DEF Old, Here, PartsOf, Recorded, expired
<1>1. old = expired(Here \cup {n})
  BY DEF Old
<1> HIDE DEF old
<1>10. Here' = (Here \cup {n}) \ old
  BY <1>2, <1>4, <1>7 DEF Here, PartsOf, Recorded
<1>11. NoneExpired'
  <2>1. Here' \cap expired(Here') = {}
    BY <1>1, <1>9, <1>10, ExpiredOnce
  <2> QED
    BY <2>1 DEF NoneExpired, expired
<1>12. \A d \in dropped : d \in Names /\ Outlived(Here \cup {n}, d)
  <2> SUFFICES ASSUME NEW d \in dropped PROVE d \in Names /\ Outlived(Here \cup {n}, d)
    OBVIOUS
  <2>1. d \in Names /\ Outlived(Here, d)
    BY <1>3 DEF DropsHold, TypeOK
  <2>2. d <= d
    BY <2>1, NamesAssumption
  <2> QED
    BY <1>9, <2>1, <2>2, OutlivedGrows
<1>13. n \notin dropped
  BY <1>1, <1>2, <1>12, ExpiredIs
<1>14. BasesHold'
  <2> SUFFICES ASSUME NEW m \in Names, handle'[m].at = "open"
               PROVE  handle'[m].base = BaseOf(m)'
    BY DEF BasesHold, IsOpen
  <2>1. m \notin old /\ rows'[m] = rows[m]
    BY <1>2, <1>4, <1>7
  <2>2. BaseOf(m)' = BaseOf(m)
    BY <2>1 DEF BaseOf
  <2>3. CASE m = n
    BY <1>4, <1>5, <2>2, <2>3
  <2>4. CASE m # n
    <3>1. handle'[m] = handle[m]
      BY <1>8, <2>4
    <3> QED
      BY <1>3, <2>2, <3>1 DEF BasesHold, IsOpen
  <2> QED
    BY <2>3, <2>4
<1>15. DropsHold'
  <2> SUFFICES ASSUME NEW d \in dropped \cup old
               PROVE  rows'[d] = None /\ handle'[d].at # "open" /\ Outlived(Here, d)'
    BY <1>4 DEF DropsHold, IsOpen
  <2>1. d \in Names /\ Outlived(Here \cup {n}, d)
    BY <1>1, <1>9, <1>12, ExpiredIs
  <2>2. Outlived((Here \cup {n}) \ old, d)
    BY <1>1, <1>9, <2>1, KeptOutlive
  <2>3. Outlived(Here, d)'
    BY <1>10, <2>2 DEF Outlived
  <2>4. rows'[d] = None
    BY <1>3, <1>4, <2>1 DEF DropsHold
  <2>5. d # n
    BY <1>2, <1>13
  <2>6. handle'[d].at # "open"
    BY <1>3, <1>7, <2>1, <2>5 DEF DropsHold, IsOpen
  <2> QED
    BY <2>3, <2>4, <2>6
<1>16. RowsHold'
  BY <1>2, <1>3, <1>4 DEF RowsHold
<1>17. \A m \in Names : rows'[m] # None => rows'[m] = rows[m]
  BY <1>4
<1>18. \A m \in Names : handle[m].at = "open" \/ m \in dropped =>
                          handle'[m].at = "open" \/ m \in dropped'
  BY <1>4, <1>7
<1> QED
  BY <1>2, <1>4, <1>5, <1>8, <1>11, <1>13, <1>14, <1>15, <1>16, <1>17, <1>18

\* A read loses nothing: the only file it writes a label in records nothing.
LEMMA InvRead ==
    ASSUME IInv, Careful, NEW n \in Names, Read(n)
    PROVE  IInv'
<1>1. Opened(n).root \in Version /\ TypeOK
  BY OpenedFacts, HandleParts, VersionFacts DEF IInv
<1>2. into(n, Opened(n).root) /\ file' = [file EXCEPT ![n] = Labelled(n)]
      /\ UNCHANGED <<stamp, wrote>>
  BY DEF Read
<1>3. /\ mode = "ok" /\ stage = "idle" /\ UNCHANGED <<mode, stage, disk>>
      /\ BasesHold' /\ DropsHold' /\ RowsHold' /\ NoneExpired'
      /\ handle'[n].at = "open" /\ handle'[n].root = Opened(n).root
      /\ handle'[n].base = BaseOf(n) /\ Opened(n).base = BaseOf(n)
      /\ \A m \in Names \ {n} : handle'[m].at = "open" => handle'[m] = handle[m]
      /\ \A m \in Names : rows'[m] # None => rows'[m] = rows[m]
      /\ n \notin dropped
      /\ \A m \in Names : handle[m].at = "open" \/ m \in dropped =>
                            handle'[m].at = "open" \/ m \in dropped'
  BY <1>1, <1>2, IntoSound
<1>4. BasesHold /\ WroteHolds /\ RowsHold /\ Readable /\ RootsHold /\ Intact /\ DiskKept
  BY <1>3 DEF IInv, Sound
<1>5. disk[n] = rows[n]
  BY <1>3, <1>4 DEF RowsHold
<1>6. \A m \in Names : disk[m] # None => file'[m] = file[m] \/ m = n
  BY <1>1, <1>2 DEF TypeOK
<1>7. rows[n] # None => Labelled(n) = file[n]
  BY DEF Labelled
<1>8. file'[n] = Labelled(n) /\ \A m \in Names \ {n} : file'[m] = file[m]
  BY <1>1, <1>2 DEF TypeOK
<1>9. Intact'
  BY <1>3, <1>4, <1>5, <1>7, <1>8 DEF Intact, Recorded
<1>10. Readable'
  BY <1>3, <1>4, <1>7, <1>8 DEF Readable, Recorded
<1>11. RootsHold'
  <2> SUFFICES ASSUME NEW m \in Names, handle'[m].at = "open"
               PROVE  IF m \in wrote THEN handle'[m].root # Empty
                      ELSE handle'[m].root = handle'[m].base
    BY <1>2 DEF RootsHold, IsOpen
  <2>1. CASE m # n
    <3>1. handle'[m] = handle[m]
      BY <1>3, <2>1
    <3> QED
      BY <1>4, <3>1 DEF RootsHold, IsOpen
  <2>2. CASE m = n /\ handle[n].at = "open"
    <3>1. Opened(n) = handle[n]
      BY <1>1, <2>2, OpenedFacts
    <3> QED
      BY <1>3, <1>4, <2>2, <3>1 DEF RootsHold, IsOpen
  <2>3. CASE m = n /\ handle[n].at # "open"
    <3>1. Opened(n).root = BaseOf(n)
      BY <1>1, <2>3, OpenedFacts
    <3> QED
      BY <1>3, <1>4, <2>3, <3>1 DEF WroteHolds, IsOpen
  <2> QED
    BY <2>1, <2>2, <2>3
<1>20. WroteHolds'
  BY <1>1, <1>2, <1>3, <1>4 DEF WroteHolds, IsOpen, TypeOK
<1>12. FlushHolds' /\ UnlinkHolds' /\ Busy' /\ DiskKept'
  BY <1>3, <1>4 DEF FlushHolds, UnlinkHolds, Busy, DiskKept, Recorded, expired
<1>13. TypeOK'
  BY <1>1, TypeRead
<1> QED
  BY <1>3, <1>9, <1>10, <1>11, <1>12, <1>13, <1>20 DEF IInv, Sound

\* A write loses nothing that is recorded: it is done on the recorded version,
\* and so over pages that version does not use.
LEMMA InvWrite ==
    ASSUME IInv, Careful, NEW n \in Names, Write(n)
    PROVE  IInv'
<1>1. PICK one \in BOOLEAN : into(n, [val |-> stamp + 1, one |-> one])
  BY DEF Write
<1>2. /\ stamp < MaxWrites
      /\ file' = [file EXCEPT ![n] = Labelled(n) \cap {Opened(n).base, Empty}]
      /\ wrote' = wrote \cup {n}
  BY DEF Write
<1>3. TypeOK
  BY DEF IInv
<1> DEFINE root == [val |-> stamp + 1, one |-> one]
<1>4. root \in Version /\ root # Empty
  BY <1>2, <1>3, BoundAssumption DEF Version, Empty, TypeOK
<1>5. into(n, root)
  BY <1>1
<1> HIDE DEF root
<1>6. /\ mode = "ok" /\ stage = "idle" /\ UNCHANGED <<mode, stage, disk>>
      /\ BasesHold' /\ DropsHold' /\ RowsHold' /\ NoneExpired'
      /\ handle'[n].at = "open" /\ handle'[n].root = root
      /\ handle'[n].base = BaseOf(n) /\ Opened(n).base = BaseOf(n)
      /\ \A m \in Names \ {n} : handle'[m].at = "open" => handle'[m] = handle[m]
      /\ \A m \in Names : rows'[m] # None => rows'[m] = rows[m]
      /\ n \notin dropped
      /\ \A m \in Names : handle[m].at = "open" \/ m \in dropped =>
                            handle'[m].at = "open" \/ m \in dropped'
  BY <1>4, <1>5, IntoSound
<1>7. WroteHolds /\ RowsHold /\ Readable /\ RootsHold /\ Intact /\ DiskKept
  BY <1>6 DEF IInv, Sound
<1>8. disk[n] = rows[n]
  BY <1>6, <1>7 DEF RowsHold
<1>9. /\ file'[n] = Labelled(n) \cap {BaseOf(n), Empty}
      /\ \A m \in Names \ {n} : file'[m] = file[m]
  BY <1>2, <1>3, <1>6 DEF TypeOK
<1>10. rows[n] # None => rows[n] \in file'[n]
  BY <1>7, <1>9 DEF Labelled, BaseOf, Readable, Recorded
<1>11. Intact'
  BY <1>6, <1>7, <1>8, <1>9, <1>10 DEF Intact, Recorded
<1>12. Readable'
  BY <1>6, <1>7, <1>9, <1>10 DEF Readable, Recorded
<1>13. RootsHold'
  <2> SUFFICES ASSUME NEW m \in Names, handle'[m].at = "open"
               PROVE  IF m \in wrote' THEN handle'[m].root # Empty
                      ELSE handle'[m].root = handle'[m].base
    BY DEF RootsHold, IsOpen
  <2>1. CASE m # n
    <3>1. handle'[m] = handle[m]
      BY <1>6, <2>1
    <3> QED
      BY <1>2, <1>7, <2>1, <3>1 DEF RootsHold, IsOpen
  <2>2. CASE m = n
    BY <1>2, <1>4, <1>6, <2>2
  <2> QED
    BY <2>1, <2>2
<1>14. WroteHolds'
  BY <1>2, <1>3, <1>6, <1>7 DEF WroteHolds, IsOpen, TypeOK
<1>15. FlushHolds' /\ UnlinkHolds' /\ Busy' /\ DiskKept'
  BY <1>6, <1>7 DEF FlushHolds, UnlinkHolds, Busy, DiskKept, Recorded, expired
<1>16. TypeOK'
  BY <1>3, TypeWrite
<1> QED
  BY <1>6, <1>11, <1>12, <1>13, <1>14, <1>15, <1>16 DEF IInv, Sound

\* A scan opens what is recorded, where it is recorded.
LEMMA InvScan ==
    ASSUME IInv, Careful, Scan
    PROVE  IInv'
<1>1. /\ mode = "ok" /\ stage = "idle"
      /\ UNCHANGED <<rows, disk, file, dropped, stage, left, mode, stamp, wrote>>
  BY DEF Scan, Quiet, Careful
<1>2. TypeOK /\ Intact /\ DiskKept /\ Sound
  BY <1>1 DEF IInv
<1>3. \A m \in Names : handle'[m] = handle[m] \/ (m \in Here /\ handle'[m] = Opened(m))
  BY DEF Scan, Here
<1>4. \A m \in Names : handle'[m] # handle[m] =>
          /\ ~IsOpen(m) /\ rows[m] # None /\ m \notin wrote /\ m \notin dropped
          /\ handle'[m].at = "open"
          /\ handle'[m].base = BaseOf(m) /\ handle'[m].root = BaseOf(m)
  <2> SUFFICES ASSUME NEW m \in Names, handle'[m] # handle[m]
               PROVE  /\ ~IsOpen(m) /\ rows[m] # None /\ m \notin wrote /\ m \notin dropped
                      /\ handle'[m].at = "open"
                      /\ handle'[m].base = BaseOf(m) /\ handle'[m].root = BaseOf(m)
    OBVIOUS
  <2>1. m \in Here /\ handle'[m] = Opened(m)
    BY <1>3
  <2>2. ~IsOpen(m)
    BY <1>2, <2>1, OpenedFacts DEF IsOpen
  <2>3. rows[m] # None
    BY <2>1, <2>2 DEF Here, PartsOf, Recorded, IsOpen
  <2>4. m \notin dropped
    BY <1>2, <2>3 DEF Sound, DropsHold
  <2>5. m \notin wrote
    BY <1>2, <2>2, <2>4 DEF Sound, WroteHolds
  <2> QED
    BY <1>2, <2>1, <2>2, <2>3, <2>4, <2>5, OpenedFacts DEF IsOpen
<1>5. Here' = Here
  BY <1>1, <1>4 DEF Here, PartsOf, Recorded, IsOpen
<1>6. BasesHold'
  BY <1>1, <1>2, <1>4 DEF Sound, BasesHold, IsOpen, BaseOf
<1>7. DropsHold'
  BY <1>1, <1>2, <1>4, <1>5 DEF Sound, DropsHold, IsOpen, Outlived, TypeOK
<1>8. RowsHold' /\ Readable' /\ NoneExpired' /\ FlushHolds' /\ UnlinkHolds'
  BY <1>1, <1>2, <1>5 DEF Sound, RowsHold, Readable, Recorded, NoneExpired, FlushHolds,
     UnlinkHolds, expired
<1>9. RootsHold'
  BY <1>1, <1>2, <1>4 DEF Sound, RootsHold, IsOpen
<1>10. WroteHolds'
  BY <1>1, <1>2, <1>4 DEF Sound, WroteHolds, IsOpen, TypeOK
<1>11. Intact' /\ DiskKept' /\ Busy'
  BY <1>1, <1>2 DEF Intact, Recorded, DiskKept, expired, Busy
<1>12. TypeOK'
  BY <1>2, TypeScan
<1> QED
  BY <1>6, <1>7, <1>8, <1>9, <1>10, <1>11, <1>12 DEF IInv, Sound

\* Commit starts with nothing flushed.
LEMMA InvCommitBegins ==
    ASSUME IInv, Careful, CommitBegins
    PROVE  IInv'
<1>1. /\ mode = "ok" /\ stage = "idle" /\ stage' = "flush" /\ left' = Changed
      /\ UNCHANGED <<rows, disk, file, handle, dropped, mode, stamp, wrote>>
  BY DEF CommitBegins, Careful
<1>2. TypeOK /\ Intact /\ DiskKept /\ Sound
  BY <1>1 DEF IInv
<1>3. FlushHolds'
  BY <1>1, <1>2 DEF FlushHolds, Changed, IsOpen, Sound, RootsHold
<1>4. BasesHold' /\ Readable' /\ RootsHold' /\ WroteHolds' /\ UnlinkHolds'
  BY <1>1, <1>2 DEF Sound, BasesHold, BaseOf, IsOpen, Readable, Recorded, RootsHold,
     WroteHolds, UnlinkHolds
<1>5. RowsHold'
  BY <1>1, <1>2 DEF Sound, RowsHold
<1>6. Here' = Here
  BY <1>1 DEF Here, PartsOf, Recorded
<1>7. DropsHold' /\ NoneExpired'
  BY <1>1, <1>2, <1>6 DEF Sound, DropsHold, IsOpen, Outlived, NoneExpired, expired
<1>8. Intact' /\ DiskKept' /\ Busy'
  BY <1>1, <1>2 DEF Intact, Recorded, DiskKept, expired, Busy
<1>9. TypeOK'
  BY <1>1, <1>2 DEF TypeOK, Changed
<1> QED
  BY <1>3, <1>4, <1>5, <1>7, <1>8, <1>9 DEF IInv, Sound

\* A flush adds a version and takes none away, and the row names what it added.
LEMMA InvFlushPart ==
    ASSUME IInv, NEW n \in Names, FlushPart(n)
    PROVE  IInv'
<1>1. /\ stage = "flush" /\ n \in left /\ Flush(n)
      /\ rows' = [rows EXCEPT ![n] = handle[n].root] /\ left' = left \ {n}
      /\ UNCHANGED <<disk, dropped, stage, mode, stamp, wrote>>
  BY DEF FlushPart
<1>2. TypeOK /\ Intact /\ DiskKept /\ Sound /\ mode = "ok"
  BY <1>1 DEF IInv, Busy
<1>3. /\ \A m \in Names : file[m] \subseteq file'[m]
      /\ handle[n].root \in file'[n]
      /\ handle'[n].at = handle[n].at
      /\ handle'[n].base = handle[n].root
      /\ handle'[n].root = handle[n].root
      /\ \A m \in Names \ {n} : handle'[m] = handle[m]
  BY <1>1, <1>2, FlushFacts
<1>4. IsOpen(n) /\ n \in wrote
  BY <1>1, <1>2 DEF Sound, FlushHolds
<1>5. n \notin dropped
  BY <1>2, <1>4 DEF Sound, DropsHold
<1>6. rows'[n] = handle[n].root /\ rows'[n] # None
      /\ \A m \in Names \ {n} : rows'[m] = rows[m]
  <2>1. handle[n].root \in Version
    BY <1>2, VersionFacts, HandleParts DEF TypeOK
  <2> QED
    BY <1>1, <1>2, <2>1, VersionFacts DEF TypeOK
<1>7. Here' = Here
  BY <1>3, <1>4, <1>6 DEF Here, PartsOf, Recorded, IsOpen
<1>8. BasesHold'
  BY <1>2, <1>3, <1>6 DEF Sound, BasesHold, IsOpen, BaseOf
<1>9. DropsHold'
  BY <1>1, <1>2, <1>3, <1>5, <1>6, <1>7 DEF Sound, DropsHold, IsOpen, Outlived, TypeOK
<1>10. NoneExpired' /\ UnlinkHolds'
  BY <1>1, <1>2, <1>7 DEF Sound, NoneExpired, expired, UnlinkHolds
<1>11. RowsHold'
  BY <1>1, <1>2, <1>3, <1>4, <1>6 DEF Sound, RowsHold, IsOpen
<1>12. Readable' /\ Intact'
  BY <1>1, <1>2, <1>3, <1>6 DEF Sound, Readable, Recorded, Intact
<1>13. RootsHold' /\ WroteHolds'
  <2>1. RootsHold'
    BY <1>1, <1>2, <1>3, <1>4 DEF Sound, RootsHold, IsOpen
  <2>2. WroteHolds'
    BY <1>1, <1>2, <1>3, <1>4 DEF Sound, WroteHolds, IsOpen, TypeOK
  <2> QED
    BY <2>1, <2>2
<1>14. FlushHolds'
  BY <1>1, <1>2, <1>3, <1>4 DEF Sound, FlushHolds, IsOpen, TypeOK
<1>15. DiskKept' /\ Busy'
  BY <1>1, <1>2 DEF DiskKept, Recorded, expired, Busy
<1>16. TypeOK'
  BY <1>2, TypeFlushPart
<1> QED
  BY <1>8, <1>9, <1>10, <1>11, <1>12, <1>13, <1>14, <1>15, <1>16 DEF IInv, Sound

\* A step that gives up says nothing more of the transaction, and takes no
\* version out of a file.
LEMMA InvGivesUp ==
    ASSUME IInv, TypeOK', GivesUp, \A m \in Names : file[m] \subseteq file'[m]
    PROVE  IInv'
<1>1. mode' # "ok" /\ stage' = "idle" /\ disk' = disk
  BY DEF GivesUp
<1>2. Intact' /\ DiskKept' /\ Busy'
  BY <1>1 DEF IInv, Intact, Recorded, DiskKept, expired, Busy
<1> QED
  BY <1>1, <1>2 DEF IInv

\* A commit that stops half way leaves the database failed and its files whole.
LEMMA InvFails ==
    ASSUME IInv, NEW n \in Names, FlushFails(n) \/ UnlinkFails(n) \/ LeaderFails
    PROVE  IInv'
<1>1. TypeOK
  BY DEF IInv
<1>2. TypeOK'
  <2>1. CASE LeaderFails
    BY <1>1, <2>1 DEF LeaderFails, GivesUp, TypeOK
  <2> QED
    BY <1>1, <2>1, TypeFlushFails, TypeUnlinkFails
<1>3. \A m \in Names : file[m] \subseteq file'[m]
  BY <1>1, FlushFacts DEF FlushFails, UnlinkFails, LeaderFails
<1>4. GivesUp
  BY DEF FlushFails, UnlinkFails, LeaderFails
<1> QED
  BY <1>2, <1>3, <1>4, InvGivesUp

\* The leader's commit makes the rows true, and every one of them can be read.
LEMMA InvLeaderCommits ==
    ASSUME IInv, LeaderCommits
    PROVE  IInv'
<1>1. /\ stage = "flush" /\ left = {} /\ disk' = rows /\ stage' # "flush"
      /\ left' = dropped /\ wrote' = {}
      /\ UNCHANGED <<rows, file, handle, dropped, stamp>>
  BY DEF LeaderCommits
<1>2. TypeOK /\ Intact /\ DiskKept /\ Sound /\ mode = "ok"
  BY <1>1 DEF IInv, Busy
<1>3. mode' = "ok"
  BY <1>2 DEF LeaderCommits, Landed
<1>4. Here' = Here
  BY <1>1 DEF Here, PartsOf, Recorded
<1>5. DropsHold' /\ NoneExpired'
  BY <1>1, <1>2, <1>4 DEF Sound, DropsHold, IsOpen, Outlived, NoneExpired, expired
<1>6. BasesHold' /\ Readable' /\ WroteHolds' /\ UnlinkHolds' /\ RowsHold'
  BY <1>1, <1>2 DEF Sound, BasesHold, BaseOf, IsOpen, Readable, Recorded,
     WroteHolds, UnlinkHolds, RowsHold
<1>7. RootsHold' /\ FlushHolds'
  BY <1>1, <1>2 DEF Sound, RootsHold, FlushHolds, IsOpen
<1>8. Intact' /\ Busy'
  BY <1>1, <1>2, <1>3 DEF Sound, Readable, Intact, Recorded, Busy
<1>9. DiskKept'
  <2> DEFINE S == Recorded(rows)
  <2>1. SUFFICES S \cap expired(S) = {}
    BY <1>1 DEF DiskKept, Recorded, expired
  <2>2. SUFFICES ASSUME NEW n \in S, Outlived(S, n) PROVE FALSE
    BY ExpiredIs
  <2>3. S \subseteq Here /\ Here \subseteq Names /\ n \in Names
    BY DEF Here, PartsOf, Recorded
  <2>4. n <= n
    BY <2>3, NamesAssumption
  <2>5. Outlived(Here, n)
    BY <2>2, <2>3, <2>4, OutlivedGrows
  <2> QED
    BY <1>2, <2>2, <2>3, <2>5, ExpiredIs DEF Sound, NoneExpired
<1>10. TypeOK'
  BY <1>2 DEF LeaderCommits, Landed, TypeOK
<1> QED
  BY <1>3, <1>5, <1>6, <1>7, <1>8, <1>9, <1>10 DEF IInv, Sound

\* A file is unlinked only when nothing committed records it.
LEMMA InvUnlink ==
    ASSUME IInv, NEW n \in Names, Unlink(n)
    PROVE  IInv'
<1>1. /\ stage = "unlink" /\ n \in left /\ CloseDropped(n)
      /\ file' = [file EXCEPT ![n] = {}]
      /\ left' = left \ {n}
      /\ stage' = IF left' = {} THEN "idle" ELSE "unlink"
      /\ dropped' = IF left' = {} THEN {} ELSE dropped
      /\ UNCHANGED <<rows, disk, stamp, wrote>>
  BY DEF Unlink
<1>2. TypeOK /\ Intact /\ DiskKept /\ Sound /\ mode = "ok"
  BY <1>1 DEF IInv, Busy
<1>3. mode' = "ok"
  BY <1>2 DEF Unlink, Landed
<1>4. rows[n] = None /\ rows = disk /\ wrote = {} /\ left \subseteq dropped
  BY <1>1, <1>2 DEF Sound, UnlinkHolds, DropsHold
<1>5. \A m \in Names : (handle'[m].at = "open" <=> handle[m].at = "open")
                       /\ (handle[m].at = "open" => handle'[m] = handle[m])
  <2>1. /\ \A m \in Names : handle[m].at = "open" => handle'[m] = handle[m]
        /\ \A m \in Names : handle'[m].at = "open" => handle[m].at = "open"
    BY <1>1, <1>2, CloseFacts
  <2> QED
    BY <2>1
<1>6. Here' = Here
  BY <1>1, <1>5 DEF Here, PartsOf, Recorded
<1>7. \A m \in Names \ {n} : file'[m] = file[m]
  BY <1>1, <1>2 DEF TypeOK
<1>8. DropsHold'
  <2>1. dropped' \subseteq dropped /\ dropped \subseteq Names
    BY <1>1, <1>2 DEF TypeOK
  <2> QED
    BY <1>1, <1>2, <1>5, <1>6, <2>1 DEF Sound, DropsHold, IsOpen, Outlived
<1>9. NoneExpired' /\ RowsHold' /\ WroteHolds' /\ FlushHolds'
  BY <1>1, <1>2, <1>4, <1>6 DEF Sound, NoneExpired, expired, RowsHold, WroteHolds, FlushHolds
<1>10. BasesHold' /\ RootsHold'
  BY <1>1, <1>2, <1>4, <1>5 DEF Sound, BasesHold, BaseOf, RootsHold, IsOpen
<1>11. Readable' /\ Intact'
  BY <1>1, <1>2, <1>4, <1>7 DEF Sound, Readable, Intact, Recorded
<1>12. UnlinkHolds'
  BY <1>1, <1>4 DEF UnlinkHolds
<1>13. DiskKept' /\ Busy'
  BY <1>1, <1>2, <1>3 DEF DiskKept, Recorded, expired, Busy
<1>14. TypeOK'
  BY <1>2, TypeUnlink
<1> QED
  BY <1>3, <1>8, <1>9, <1>10, <1>11, <1>12, <1>13, <1>14 DEF IInv, Sound

\* A transaction that is back at what is committed, with every open partition
\* on its row, is sound.
LEMMA BackAtDisk ==
    ASSUME IInv, TypeOK', rows' = disk, UNCHANGED <<disk, file>>, dropped' = {}, wrote' = {},
           stage' = "idle",
           \A m \in Names : handle'[m].at = "open" =>
               disk[m] # None /\ handle'[m].base = disk[m] /\ handle'[m].root = disk[m]
    PROVE  IInv'
<1>1. Intact' /\ DiskKept' /\ Busy'
  BY DEF IInv, Intact, Recorded, DiskKept, expired, Busy
<1>2. Here' = Recorded(disk)
  BY DEF Here, PartsOf, Recorded
<1>3. NoneExpired'
  <2>1. Here' \cap expired(Here') = {}
    BY <1>2 DEF IInv, DiskKept
  <2> QED
    BY <2>1 DEF NoneExpired, expired
<1>4. BasesHold' /\ RootsHold'
  BY DEF BasesHold, BaseOf, RootsHold, IsOpen
<1>5. DropsHold' /\ RowsHold' /\ WroteHolds' /\ FlushHolds' /\ UnlinkHolds'
  BY DEF DropsHold, RowsHold, WroteHolds, FlushHolds, UnlinkHolds
<1>6. Readable'
  BY DEF IInv, Intact, Readable, Recorded
<1> QED
  BY <1>1, <1>3, <1>4, <1>5, <1>6 DEF IInv, Sound

\* What is rolled back is what the transaction did.
LEMMA InvRollback ==
    ASSUME IInv, Rollback
    PROVE  IInv'
<1>1. TypeOK /\ TypeOK'
  BY TypeRollback DEF IInv
<1>2. /\ rows' = disk /\ UNCHANGED <<disk, file>> /\ dropped' = {} /\ wrote' = {}
      /\ stage' = "idle"
      /\ Stuck("open") = {} /\ Stuck("dropping") = {}
      /\ \A m \in Names :
            handle'[m] = IF \/ handle[m].at = "open"
                            \/ handle[m].at = "dropping" /\ disk[m] # None
                         THEN Abandoned(m) ELSE handle[m]
  BY DEF Rollback
<1>3. \A m \in Names : handle'[m].at = "open" =>
          disk[m] # None /\ handle'[m].base = disk[m] /\ handle'[m].root = disk[m]
  <2> SUFFICES ASSUME NEW m \in Names, handle'[m].at = "open"
               PROVE  disk[m] # None /\ handle'[m].base = disk[m] /\ handle'[m].root = disk[m]
    OBVIOUS
  <2>1. handle'[m] = Abandoned(m) /\ (handle[m].at = "open" \/ handle[m].at = "dropping")
    BY <1>2
  <2>2. disk[m] # None
    BY <1>1, <2>1, AbandonedFacts, VersionFacts
  <2>3. Opens(m, disk[m])
    BY <1>2, <2>1, <2>2 DEF Stuck
  <2> QED
    BY <1>1, <2>1, <2>2, <2>3, AbandonedFacts
<1> QED
  BY <1>1, <1>2, <1>3, BackAtDisk

\* Opening again starts with no partition open.
LEMMA InvRestart ==
    ASSUME IInv, Restart
    PROVE  IInv'
<1>1. TypeOK'
  BY VersionFacts DEF IInv, Restart, TypeOK
<1>2. \A m \in Names : handle'[m].at # "open"
  BY VersionFacts DEF Restart
<1> QED
  BY <1>1, <1>2, BackAtDisk DEF Restart

\* A rollback that fails leaves what is committed alone.
LEMMA InvRollbackFails ==
    ASSUME IInv, RollbackFails
    PROVE  IInv'
<1>1. TypeOK'
  BY TypeRollbackFails DEF IInv
<1>2. mode' = "broken" /\ stage' = "idle" /\ UNCHANGED <<disk, file>>
  BY DEF RollbackFails
<1>3. Intact' /\ DiskKept' /\ Busy'
  BY <1>2 DEF IInv, Intact, Recorded, DiskKept, expired, Busy
<1> QED
  BY <1>1, <1>2, <1>3 DEF IInv

\* Every step keeps the invariant.
LEMMA InvStep == Careful /\ IInv /\ [Next]_vars => IInv'
<1> SUFFICES ASSUME Careful, IInv, [Next]_vars PROVE IInv'
  OBVIOUS
<1>1. ASSUME NEW n \in Names, Work(n) PROVE IInv'
  BY <1>1, InvRead, InvWrite DEF Work
<1>2. ASSUME NEW n \in Names, Commit(n) PROVE IInv'
  BY <1>2, InvFlushPart, InvFails, InvUnlink DEF Commit
<1>3. CASE Scan
  BY <1>3, InvScan
<1>4. CASE CommitBegins
  BY <1>4, InvCommitBegins
<1>5. CASE LeaderFails
  <2>1. GivesUp /\ UNCHANGED file
    BY <1>5 DEF LeaderFails
  <2>2. TypeOK'
    BY TypeStep DEF IInv
  <2> QED
    BY <2>1, <2>2, InvGivesUp
<1>6. CASE LeaderCommits
  BY <1>6, InvLeaderCommits
<1>7. CASE Rollback
  BY <1>7, InvRollback
<1>8. CASE RollbackFails
  BY <1>8, InvRollbackFails
<1>9. CASE Restart
  BY <1>9, InvRestart
<1>10. CASE UNCHANGED vars
  <2>1. UNCHANGED <<rows, disk, file, handle, dropped, stage, left, mode, stamp, wrote>>
    BY <1>10 DEF vars
  <2>2. TypeOK'
    BY TypeStep DEF IInv
  <2>3. Intact' /\ DiskKept' /\ Busy'
    BY <2>1 DEF IInv, Intact, Recorded, DiskKept, expired, Busy
  <2>4. SUFFICES ASSUME Sound PROVE Sound'
    BY <2>1, <2>2, <2>3 DEF IInv
  <2>5. Here' = Here
    BY <2>1 DEF Here, PartsOf, Recorded
  <2>6. DropsHold' /\ NoneExpired'
    BY <2>1, <2>4, <2>5 DEF Sound, DropsHold, IsOpen, Outlived, NoneExpired, expired
  <2>7. BasesHold' /\ RowsHold' /\ Readable' /\ RootsHold'
    BY <2>1, <2>4 DEF Sound, BasesHold, BaseOf, IsOpen, RowsHold, Readable, Recorded, RootsHold
  <2>8. WroteHolds' /\ FlushHolds' /\ UnlinkHolds'
    BY <2>1, <2>4 DEF Sound, WroteHolds, FlushHolds, UnlinkHolds, IsOpen
  <2> QED
    BY <2>6, <2>7, <2>8 DEF Sound
<1> QED
  BY <1>1, <1>2, <1>3, <1>4, <1>5, <1>6, <1>7, <1>8, <1>9, <1>10 DEF Next

\* The invariant holds always.
LEMMA InvHolds == Careful => (Spec => []IInv)
<1> SUFFICES ASSUME Careful PROVE Spec => []IInv
  OBVIOUS
<1>1. Init => IInv
  BY InvInit
<1>2. IInv /\ [Next]_vars => IInv'
  BY InvStep
<1> QED
  BY <1>1, <1>2, PTL DEF Spec

\* Every version the committed leader records can be read in its file, for
\* every history of writes, drops, failed commits, rollbacks and crashes by
\* callers that are careful (Store.Commit, Store.Rollback, dropFiles).
THEOREM IntactAlways == Careful => (Spec => []Intact)
<1> SUFFICES ASSUME Careful PROVE Spec => []Intact
  OBVIOUS
<1>1. Spec => []IInv
  BY InvHolds
<1>2. IInv => Intact
  BY DEF IInv
<1> QED
  BY <1>1, <1>2, PTL

-----------------------------------------------------------------------------
(* What a commit makes true.                                               *)

\* Only the leader's commit changes what is committed.
LEMMA OnlyLeader ==
    ASSUME [Next]_vars, disk' # disk
    PROVE  LeaderCommits
BY DEF Next, vars, Work, Commit, Read, Write, into, Scan, CommitBegins, FlushPart, FlushFails,
   GivesUp, LeaderFails, Unlink, UnlinkFails, Rollback, RollbackFails, Restart

\* The leader's commit records what this transaction wrote and dropped, and no more.
LEMMA OneTransactionStep ==
    ASSUME IInv, LeaderCommits, NEW n \in Names
    PROVE  disk'[n] = IF n \in wrote /\ handle[n].at = "open" THEN handle[n].root
                      ELSE IF n \in dropped THEN None ELSE disk[n]
<1>1. stage = "flush" /\ left = {} /\ disk' = rows
  BY DEF LeaderCommits
<1>2. Sound
  BY <1>1 DEF IInv, Busy
<1>3. CASE n \in wrote /\ handle[n].at = "open"
  <2>1. handle[n].root # Empty /\ handle[n].root = handle[n].base
        /\ handle[n].base = BaseOf(n)
    BY <1>1, <1>2, <1>3 DEF Sound, RootsHold, FlushHolds, BasesHold, IsOpen
  <2>2. handle[n].root = rows[n]
    BY <2>1 DEF BaseOf
  <2> QED
    BY <1>1, <1>3, <2>2
<1>4. CASE ~(n \in wrote /\ handle[n].at = "open") /\ n \in dropped
  <2>1. rows[n] = None
    BY <1>2, <1>4 DEF Sound, DropsHold
  <2> QED
    BY <1>1, <1>4, <2>1
<1>5. CASE ~(n \in wrote /\ handle[n].at = "open") /\ n \notin dropped
  <2>1. rows[n] = disk[n]
    BY <1>2, <1>5 DEF Sound, RowsHold, IsOpen
  <2> QED
    BY <1>1, <1>5, <2>1
<1> QED
  BY <1>3, <1>4, <1>5

\* A commit makes exactly the transaction true in every file at once: what it
\* wrote, what it dropped, nothing that was rolled back.
THEOREM OneTransactionAlways == Careful => (Spec => OneTransaction)
<1> SUFFICES ASSUME Careful PROVE Spec => OneTransaction
  OBVIOUS
<1>1. Spec => []IInv
  BY InvHolds
<1>2. ASSUME IInv, [Next]_vars
      PROVE  [disk' # disk =>
                \A n \in Names :
                   disk'[n] = IF n \in wrote /\ handle[n].at = "open" THEN handle[n].root
                              ELSE IF n \in dropped THEN None ELSE disk[n]]_vars
  BY <1>2, OnlyLeader, OneTransactionStep
<1> QED
  BY <1>1, <1>2, PTL DEF Spec, OneTransaction

\* What a commit expires is older than all it keeps, and it keeps no more than
\* the declaration says (Partition.expired, Collection.expire).
THEOREM ExpiresTheOldestAlways == Careful => (Spec => ExpiresTheOldest)
<1> SUFFICES ASSUME Careful PROVE Spec => ExpiresTheOldest
  OBVIOUS
<1>1. Spec => []IInv
  BY InvHolds
<1>2. ASSUME IInv, [Next]_vars
      PROVE  [/\ \A n \in Recorded(disk) \ Recorded(disk)' :
                    \A m \in Recorded(disk)' : n < m
              /\ Keep > 0 => Cardinality(Recorded(disk)') <= Keep]_vars
  <2>1. IInv'
    BY <1>2, InvStep
  <2>2. Keep > 0 => Cardinality(Recorded(disk)') <= Keep
    <3>1. Recorded(disk') \in SUBSET Names /\ Recorded(disk') \cap expired(Recorded(disk')) = {}
      BY <2>1 DEF IInv, DiskKept, Recorded, expired
    <3>2. Recorded(disk)' = Recorded(disk')
      BY DEF Recorded
    <3> QED
      BY <3>1, <3>2, AtMostKeep
  <2>3. ASSUME NEW n \in Recorded(disk) \ Recorded(disk)', NEW m \in Recorded(disk)'
        PROVE  n < m
    <3>1. LeaderCommits
      BY <1>2, <2>3, OnlyLeader DEF Recorded
    <3>2. stage = "flush" /\ left = {} /\ disk' = rows
      BY <3>1 DEF LeaderCommits
    <3>3. Sound
      BY <1>2, <3>2 DEF IInv, Busy
    <3>4. n \in Names /\ rows[n] = None /\ disk[n] # None /\ m \in Here
      BY <2>3, <3>2 DEF Recorded, Here, PartsOf
    <3>5. n \in dropped
      <4>1. ~(IsOpen(n) /\ n \in wrote)
        BY <3>2, <3>3, <3>4 DEF Sound, RootsHold, FlushHolds, BasesHold, BaseOf
      <4> QED
        BY <3>3, <3>4, <4>1 DEF Sound, RowsHold
    <3>6. Outlived(Here, n)
      BY <3>3, <3>5 DEF Sound, DropsHold
    <3>7. Here \in SUBSET Names /\ Here \cap expired(Here) = {}
      BY <3>3 DEF Sound, NoneExpired, Here, PartsOf, Recorded
    <3> QED
      BY <3>4, <3>6, <3>7, OldestGo
  <2> QED
    BY <2>2, <2>3
<1> QED
  BY <1>1, <1>2, PTL DEF Spec, ExpiresTheOldest

=============================================================================
