---------------------------- MODULE SessionProofs ----------------------------
(***************************************************************************)
(* Proofs about Session, for any connections, databases and versions: the  *)
(* lock serves one writer or any readers, and what follows from that for a *)
(* call between its lookup and its answer.                                 *)
(***************************************************************************)
EXTENDS Session, TLAPS

\* A call that is not idle is on a database, and no database has more versions than the
\* bound.
Busy ==
    /\ \A s \in Sessions : call[s].at # "idle" => call[s].db \in Databases
    /\ \A d \in Databases : Len(versions[d]) <= MaxVersions

\* The lock of a database: one writer is in or next, Close counts as one, and a writer
\* that is in has no readers beside it.
Locks ==
    /\ \A s, t \in Sessions :
          call[s].at \in {"drain", "write"} /\ call[t].at \in {"drain", "write"}
          /\ call[s].db = call[t].db => s = t
    /\ \A s, t \in Sessions :
          call[s].at = "write" /\ call[t].at = "read" => call[s].db # call[t].db
    /\ \A s \in Sessions : call[s].at \in {"drain", "write"} => call[s].db # closer

\* What a connection has verified it has shown a signature for, and so has every call.  Who
\* has not been greeted has nothing, and asks for nothing but that.
Shown ==
    \A s \in Sessions :
        /\ live[s].verified \subseteq shown[s]
        /\ live[s].bound # None => live[s].bound \in shown[s]
        /\ call[s].at # "idle" /\ call[s].job # "apply" => call[s].db \in shown[s]
        /\ call[s].at # "idle" /\ call[s].job = "operate" => live[s].operator
        /\ call[s].at # "idle" /\ call[s].job = "greet" => ~live[s].greeted
        /\ ~live[s].greeted => live[s].verified = {} /\ live[s].bound = None

\* A running call runs what its lookup gives now.
Current ==
    \A s \in Sessions :
        call[s].at \in {"read", "write"} /\ call[s].job = "invoke" =>
            call[s].op = Lookup(call[s]) /\ Allowed(call[s])

\* A call of a follower that names its version has been let past readOnly for good: no
\* version changes once it is declared.
Passed ==
    \A s \in Sessions :
        role = "follower" /\ call[s].at \in {"read", "wait", "drain", "write"}
        /\ call[s].job = "invoke" /\ call[s].version # 0 =>
            /\ call[s].version <= Len(versions[call[s].db])
            /\ ~Writes(versions[call[s].db][call[s].version].kind)

\* A database is closed after Close has its lock, and before Close returns.
ClosersOpen == closer # None => closer \in open

IInv ==
    /\ TypeOK /\ Busy /\ Locks /\ Shown /\ Current /\ Passed
    /\ WritersDisturbNobody /\ ClosersOpen /\ ClosedStaysClosed

\* Two calls that differ in nothing but whether they lost their tree.
Kept(c, e) ==
    /\ e.at = c.at /\ e.db = c.db /\ e.job = c.job
    /\ e.version = c.version /\ e.op = c.op /\ e.scope = c.scope

-----------------------------------------------------------------------------
(* Records. *)

\* A call and a session as they are made.
LEMMA Made ==
    /\ Idle \in CallRecords
    /\ NoSession \in SessionRecords
    /\ \A d \in Databases, version \in 0 .. MaxVersions, scope \in BOOLEAN :
          /\ Call("look", d, "invoke", version, scope) \in CallRecords
          /\ Call("wait", d, "operate", version, scope) \in CallRecords
          /\ Call("wait", d, "apply", version, scope) \in CallRecords
          /\ Call("wait", d, "greet", version, scope) \in CallRecords
BY BoundAssumption DEF Call, Idle, NoSession, CallRecords, SessionRecords, Jobs, None

\* A call that goes on is a call.
LEMMA GoesOn ==
    ASSUME NEW c \in CallRecords, NEW to \in {"idle", "look", "read", "wait", "drain", "write"}
    PROVE  [c EXCEPT !.at = to] \in CallRecords
BY DEF CallRecords

\* A call that has been looked up is a call.
LEMMA Runs ==
    ASSUME NEW c \in CallRecords, NEW to \in {"read", "write"}, NEW op \in 0 .. MaxVersions
    PROVE  [c EXCEPT !.at = to, !.op = op] \in CallRecords
BY DEF CallRecords

\* A call that has lost its tree is a call.
LEMMA Torn ==
    ASSUME NEW c \in CallRecords, NEW how \in {"writer", "batch"}
    PROVE  [c EXCEPT !.torn = how] \in CallRecords
BY DEF CallRecords

\* The fields of the call that is none.
LEMMA IdleFields ==
    Idle.at = "idle" /\ Idle.db = None /\ Idle.job = None /\ Idle.version = 0 /\ Idle.torn = None
BY DEF Idle, Call

\* The fields of a call that goes on.
LEMMA GoesOnFields ==
    ASSUME NEW c \in CallRecords, NEW to, NEW e, e = [c EXCEPT !.at = to]
    PROVE  /\ e.at = to /\ e.db = c.db /\ e.job = c.job /\ e.version = c.version
           /\ e.op = c.op /\ e.torn = c.torn /\ e.scope = c.scope
BY DEF CallRecords

\* A step that replaces one call.
LEMMA OneCall ==
    ASSUME TypeOK, NEW s \in Sessions, NEW c \in CallRecords, call' = [call EXCEPT ![s] = c]
    PROVE  /\ call' \in [Sessions -> CallRecords]
           /\ call'[s] = c
           /\ \A t \in Sessions \ {s} : call'[t] = call[t]
BY DEF TypeOK

\* Calls stay on the database they are on.
LEMMA StaysBusy ==
    ASSUME Busy, UNCHANGED versions,
           \A t \in Sessions : call'[t].at # "idle" => call'[t].db = call[t].db /\ call[t].at # "idle"
    PROVE  Busy'
BY DEF Busy

\* What is looked up is a version that is there.
LEMMA LookedUp ==
    ASSUME TypeOK, Busy, NEW s \in Sessions, call[s].at # "idle"
    PROVE  /\ Lookup(call[s]) \in 0 .. MaxVersions
           /\ Lookup(call[s]) \in 0 .. Len(versions[call[s].db])
BY BoundAssumption DEF TypeOK, Busy, Lookup, CallRecords

-----------------------------------------------------------------------------
(* Types. *)

\* The invariant holds when the server starts.
LEMMA InitInv == Init => IInv
<1>. SUFFICES ASSUME Init PROVE IInv
  OBVIOUS
<1>1. TypeOK
  BY Made DEF Init, TypeOK
<1>2. Busy
  BY BoundAssumption DEF Init, Busy, Idle, Call
<1>3. Locks /\ Shown /\ Current /\ Passed /\ WritersDisturbNobody /\ ClosersOpen /\ ClosedStaysClosed
  BY DEF Init, Locks, Shown, Current, Passed, WritersDisturbNobody, ClosersOpen, ClosedStaysClosed, Idle, Call, NoSession, None
<1>. QED  BY <1>1, <1>2, <1>3 DEF IInv

\* Opening a connection, a database, and asking.
LEMMA OpeningType ==
    ASSUME IInv, NEW s \in Sessions, Opening(s)
    PROVE  TypeOK' /\ Busy'
<1>1. CASE Greet(s)
  BY <1>1 DEF Greet, IInv, TypeOK, Busy, SessionRecords
<1>2. CASE Elevate(s)
  BY <1>2 DEF Elevate, IInv, TypeOK, Busy, SessionRecords
<1>3. CASE Goodbye(s)
  BY <1>3, Made DEF Goodbye, IInv, TypeOK, Busy
<1>4. ASSUME NEW d \in Databases, Bind(s, d)
      PROVE  TypeOK' /\ Busy'
  <2>1. Call("wait", d, "greet", 0, FALSE) \in CallRecords
    BY BoundAssumption DEF Call, CallRecords, Jobs, None
  <2>. QED  BY <1>4, <2>1 DEF Bind, IInv, TypeOK, Busy, Call
<1>5. ASSUME NEW d \in Databases, Apply(s, d)
      PROVE  TypeOK' /\ Busy'
  <2>1. Call("wait", d, "apply", 0, FALSE) \in CallRecords
    BY BoundAssumption DEF Call, CallRecords, Jobs, None
  <2>. QED  BY <1>5, <2>1 DEF Apply, IInv, TypeOK, Busy, Call
<1>. QED  BY <1>1, <1>2, <1>3, <1>4, <1>5 DEF Opening

\* reach gives the sessions and the open databases values of their types.
LEMMA ReachType ==
    ASSUME TypeOK, NEW s \in Sessions, NEW d \in Databases, Reach(s, d)
    PROVE  live' \in [Sessions -> SessionRecords] /\ open' \subseteq Databases
<1>1. [live[s] EXCEPT !.verified = @ \cup {d}] \in SessionRecords
  BY DEF TypeOK, SessionRecords
<1>2. [live EXCEPT ![s].verified = @ \cup {d}] \in [Sessions -> SessionRecords]
  BY <1>1 DEF TypeOK
<1>. QED  BY <1>2 DEF Reach, TypeOK

\* Asking keeps the types.
LEMMA AskingType ==
    ASSUME IInv, NEW s \in Sessions, Asking(s)
    PROVE  TypeOK' /\ Busy'
<1>1. ASSUME NEW d \in Databases, NEW signed \in BOOLEAN, NEW version \in Asked,
             NEW scope \in BOOLEAN, Ask(s, d, version, signed, scope)
      PROVE  TypeOK' /\ Busy'
  <2>1. Call("look", d, "invoke", version, scope) \in CallRecords
    BY Made, BoundAssumption
  <2>2. live' \in [Sessions -> SessionRecords] /\ open' \subseteq Databases
    BY <1>1, ReachType DEF Ask, IInv
  <2>. QED  BY <1>1, <2>1, <2>2 DEF Ask, IInv, TypeOK, Busy, Call
<1>2. ASSUME NEW d \in Databases, NEW signed \in BOOLEAN, AskOperator(s, d, signed)
      PROVE  TypeOK' /\ Busy'
  <2>1. Call("wait", d, "operate", 0, FALSE) \in CallRecords
    BY BoundAssumption DEF Call, CallRecords, Jobs, None
  <2>2. live' \in [Sessions -> SessionRecords] /\ open' \subseteq Databases
    BY <1>2, ReachType DEF AskOperator, IInv
  <2>. QED  BY <1>2, <2>1, <2>2 DEF AskOperator, IInv, TypeOK, Busy, Call
<1>. QED  BY <1>1, <1>2 DEF Asking

\* What a call that has lost its tree still is.
LEMMA TornKeeps ==
    ASSUME NEW c \in CallRecords, NEW how \in {"writer", "batch"}, NEW e, e = [c EXCEPT !.torn = how]
    PROVE  Kept(c, e) /\ e.torn = how
BY DEF CallRecords, Kept

\* Replacing a tree ends one call and takes the tree from those that read it.
LEMMA ReplacedType ==
    ASSUME TypeOK, NEW s \in Sessions, NEW d, NEW how \in {"writer", "batch"}
    PROVE  /\ Replaced(d, s, how) \in [Sessions -> CallRecords]
           /\ Replaced(d, s, how)[s] = Idle
           /\ \A r \in Sessions \ {s} :
                 /\ Kept(call[r], Replaced(d, s, how)[r])
                 /\ \/ Replaced(d, s, how)[r].torn = call[r].torn
                    \/ r \in Readers(d) /\ Replaced(d, s, how)[r].torn = how
<1>. DEFINE after == Replaced(d, s, how)
<1>1. ASSUME NEW r \in Sessions
      PROVE  /\ after[r] \in CallRecords
             /\ r = s => after[r] = Idle
             /\ r # s => \/ after[r] = call[r]
                         \/ r \in Readers(d) /\ after[r] = [call[r] EXCEPT !.torn = how]
  BY Made, Torn DEF Replaced, TypeOK
<1>2. after \in [Sessions -> CallRecords]
  BY <1>1 DEF Replaced
<1>. HIDE DEF after
<1>3. ASSUME NEW r \in Sessions \ {s}
      PROVE  /\ Kept(call[r], after[r])
             /\ \/ after[r].torn = call[r].torn
                \/ r \in Readers(d) /\ after[r].torn = how
  <2>0. call[r] \in CallRecords
    BY DEF TypeOK
  <2>1. CASE after[r] = call[r]
    BY <2>1 DEF Kept
  <2>2. CASE r \in Readers(d) /\ after[r] = [call[r] EXCEPT !.torn = how]
    BY <2>0, <2>2, TornKeeps
  <2>. QED  BY <1>1, <2>1, <2>2
<1>. QED  BY <1>1, <1>2, <1>3 DEF after

\* How a call goes on: the calls after each step, and the fields of its own.
LEMMA LookFields ==
    ASSUME TypeOK, Busy, NEW s \in Sessions, Look(s)
    PROVE  /\ call' \in [Sessions -> CallRecords]
           /\ \A t \in Sessions \ {s} : call'[t] = call[t]
           /\ \/ call'[s] = Idle
              \/ /\ call'[s].at = "read" /\ call'[s].op = Lookup(call[s])
                 /\ Allowed(call[s]) /\ ~(role = "follower" /\ Writes(OpOf(call[s], Lookup(call[s])).kind))
                 /\ call'[s].db = call[s].db /\ call'[s].job = call[s].job /\ call'[s].version = call[s].version
                 /\ call'[s].torn = call[s].torn /\ call'[s].scope = call[s].scope
              \/ /\ call'[s].at = "wait" /\ call'[s].op = call[s].op
                 /\ Allowed(call[s]) /\ ~(role = "follower" /\ Writes(OpOf(call[s], Lookup(call[s])).kind))
                 /\ call'[s].db = call[s].db /\ call'[s].job = call[s].job /\ call'[s].version = call[s].version
                 /\ call'[s].torn = call[s].torn /\ call'[s].scope = call[s].scope
<1>1. call[s].at # "idle" /\ call[s] \in CallRecords
  BY DEF Look, At, TypeOK
<1>2. Lookup(call[s]) \in 0 .. MaxVersions
  BY <1>1, LookedUp
<1>. DEFINE mayRun == Allowed(call[s]) /\ ~(role = "follower" /\ Writes(OpOf(call[s], Lookup(call[s])).kind))
<1>3. \/ call' = [call EXCEPT ![s] = Idle]
      \/ mayRun /\ call' = [call EXCEPT ![s] = [call[s] EXCEPT !.at = "read", !.op = Lookup(call[s])]]
      \/ mayRun /\ call' = [call EXCEPT ![s] = [call[s] EXCEPT !.at = "wait"]]
  BY DEF Look
<1>. HIDE DEF mayRun
<1>4. CASE call' = [call EXCEPT ![s] = Idle]
  BY <1>4, Made, OneCall
<1>5. CASE mayRun /\ call' = [call EXCEPT ![s] = [call[s] EXCEPT !.at = "read", !.op = Lookup(call[s])]]
  <2>. DEFINE c == [call[s] EXCEPT !.at = "read", !.op = Lookup(call[s])]
  <2>1. c \in CallRecords
    BY <1>1, <1>2, Runs
  <2>2. /\ c.at = "read" /\ c.op = Lookup(call[s]) /\ c.db = call[s].db /\ c.job = call[s].job
        /\ c.version = call[s].version /\ c.torn = call[s].torn /\ c.scope = call[s].scope
    BY <1>1 DEF CallRecords
  <2>3. call' = [call EXCEPT ![s] = c]
    BY <1>5
  <2>. HIDE DEF c
  <2>4. call' \in [Sessions -> CallRecords] /\ call'[s] = c /\ \A t \in Sessions \ {s} : call'[t] = call[t]
    BY <2>1, <2>3, OneCall
  <2>. QED  BY <1>5, <2>2, <2>4 DEF mayRun
<1>6. CASE mayRun /\ call' = [call EXCEPT ![s] = [call[s] EXCEPT !.at = "wait"]]
  <2>. DEFINE c == [call[s] EXCEPT !.at = "wait"]
  <2>1. c \in CallRecords
    BY <1>1, GoesOn
  <2>2. /\ c.at = "wait" /\ c.op = call[s].op /\ c.db = call[s].db /\ c.job = call[s].job
        /\ c.version = call[s].version /\ c.torn = call[s].torn /\ c.scope = call[s].scope
    BY <1>1, GoesOnFields
  <2>3. call' = [call EXCEPT ![s] = c]
    BY <1>6
  <2>. HIDE DEF c
  <2>4. call' \in [Sessions -> CallRecords] /\ call'[s] = c /\ \A t \in Sessions \ {s} : call'[t] = call[t]
    BY <2>1, <2>3, OneCall
  <2>. QED  BY <1>6, <2>2, <2>4 DEF mayRun
<1>. QED  BY <1>3, <1>4, <1>5, <1>6

\* The calls after one has become the next writer.
LEMMA QueueFields ==
    ASSUME TypeOK, NEW s \in Sessions, Queue(s)
    PROVE  /\ call' \in [Sessions -> CallRecords]
           /\ \A t \in Sessions \ {s} : call'[t] = call[t]
           /\ call'[s].at = "drain" /\ call'[s].op = call[s].op
           /\ call'[s].db = call[s].db /\ call'[s].job = call[s].job /\ call'[s].version = call[s].version
           /\ call'[s].torn = call[s].torn /\ call'[s].scope = call[s].scope
<1>1. call[s] \in CallRecords
  BY DEF TypeOK
<1>. DEFINE c == [call[s] EXCEPT !.at = "drain"]
<1>2. c \in CallRecords
  BY <1>1, GoesOn
<1>3. /\ c.at = "drain" /\ c.op = call[s].op /\ c.db = call[s].db /\ c.job = call[s].job
      /\ c.version = call[s].version /\ c.torn = call[s].torn /\ c.scope = call[s].scope
  BY <1>1, GoesOnFields
<1>4. call' = [call EXCEPT ![s] = c]
  BY <1>1 DEF Queue, Moved
<1>. HIDE DEF c
<1>5. call' \in [Sessions -> CallRecords] /\ call'[s] = c /\ \A t \in Sessions \ {s} : call'[t] = call[t]
  BY <1>2, <1>4, OneCall
<1>. QED  BY <1>3, <1>5

\* The calls after one has taken the lock.
LEMMA EnterFields ==
    ASSUME TypeOK, Busy, NEW s \in Sessions, Enter(s)
    PROVE  /\ call' \in [Sessions -> CallRecords]
           /\ \A t \in Sessions \ {s} : call'[t] = call[t]
           /\ \/ call'[s] = Idle
              \/ /\ call'[s].at = "write"
                 /\ call[s].job = "invoke" => call'[s].op = Lookup(call[s]) /\ Allowed(call[s])
                 /\ call'[s].db = call[s].db /\ call'[s].job = call[s].job /\ call'[s].version = call[s].version
                 /\ call'[s].torn = call[s].torn /\ call'[s].scope = call[s].scope
<1>1. call[s].at # "idle" /\ call[s] \in CallRecords
  BY DEF Enter, At, TypeOK
<1>2. Lookup(call[s]) \in 0 .. MaxVersions
  BY <1>1, LookedUp
<1>3. \/ call' = [call EXCEPT ![s] = Idle]
      \/ call[s].job # "invoke" /\ call' = [call EXCEPT ![s] = [call[s] EXCEPT !.at = "write"]]
      \/ Allowed(call[s]) /\ call' = [call EXCEPT ![s] = [call[s] EXCEPT !.at = "write", !.op = Lookup(call[s])]]
  BY DEF Enter
<1>4. CASE call' = [call EXCEPT ![s] = Idle]
  BY <1>4, Made, OneCall
<1>5. CASE Allowed(call[s]) /\ call' = [call EXCEPT ![s] = [call[s] EXCEPT !.at = "write", !.op = Lookup(call[s])]]
  <2>. DEFINE c == [call[s] EXCEPT !.at = "write", !.op = Lookup(call[s])]
  <2>1. c \in CallRecords
    BY <1>1, <1>2, Runs
  <2>2. /\ c.at = "write" /\ c.op = Lookup(call[s]) /\ c.db = call[s].db /\ c.job = call[s].job
        /\ c.version = call[s].version /\ c.torn = call[s].torn /\ c.scope = call[s].scope
    BY <1>1 DEF CallRecords
  <2>3. call' = [call EXCEPT ![s] = c]
    BY <1>5
  <2>. HIDE DEF c
  <2>4. call' \in [Sessions -> CallRecords] /\ call'[s] = c /\ \A t \in Sessions \ {s} : call'[t] = call[t]
    BY <2>1, <2>3, OneCall
  <2>. QED  BY <1>5, <2>2, <2>4
<1>6. CASE call[s].job # "invoke" /\ call' = [call EXCEPT ![s] = [call[s] EXCEPT !.at = "write"]]
  <2>. DEFINE c == [call[s] EXCEPT !.at = "write"]
  <2>1. c \in CallRecords
    BY <1>1, GoesOn
  <2>2. /\ c.at = "write" /\ c.op = call[s].op /\ c.db = call[s].db /\ c.job = call[s].job
        /\ c.version = call[s].version /\ c.torn = call[s].torn /\ c.scope = call[s].scope
    BY <1>1, GoesOnFields
  <2>3. call' = [call EXCEPT ![s] = c]
    BY <1>6
  <2>. HIDE DEF c
  <2>4. call' \in [Sessions -> CallRecords] /\ call'[s] = c /\ \A t \in Sessions \ {s} : call'[t] = call[t]
    BY <2>1, <2>3, OneCall
  <2>. QED  BY <1>6, <2>2, <2>4
<1>. QED  BY <1>3, <1>4, <1>5, <1>6

\* A sequence has a length.
LEMMA VersionSequences ==
    ASSUME TypeOK
    PROVE  \A d \in Databases :
              versions[d] \in Seq([kind : Kinds, scoped : BOOLEAN]) /\ Len(versions[d]) \in Nat
<1>1. ASSUME NEW S, NEW q \in Seq(S)  PROVE Len(q) \in Nat
  OBVIOUS
<1>2. \A d \in Databases : versions[d] \in Seq([kind : Kinds, scoped : BOOLEAN])
  BY DEF TypeOK
<1>. QED  BY <1>1, <1>2

\* What a call under the lock leaves of the versions: they grow at the end, or not at all.
LEMMA Declares ==
    ASSUME TypeOK, Busy, NEW s \in Sessions, Finish(s)
    PROVE  /\ versions' \in [Databases -> Seq([kind : Kinds, scoped : BOOLEAN])]
           /\ \A d \in Databases : Len(versions'[d]) <= MaxVersions
           /\ \A d \in Databases :
                 /\ d # call[s].db => versions'[d] = versions[d]
                 /\ Len(versions[d]) <= Len(versions'[d])
                 /\ \A i \in 1 .. Len(versions[d]) : versions'[d][i] = versions[d][i]
<1>1. CASE UNCHANGED versions
  <2>1. \A d \in Databases : Len(versions[d]) <= Len(versions[d])
    BY VersionSequences
  <2>. QED  BY <1>1, <2>1 DEF TypeOK, Busy
<1>2. ASSUME Len(versions[call[s].db]) < MaxVersions,
             NEW v \in Versions[Len(versions[call[s].db]) + 1],
             versions' = [versions EXCEPT ![call[s].db] = Append(@, v)]
      PROVE  /\ versions' \in [Databases -> Seq([kind : Kinds, scoped : BOOLEAN])]
             /\ \A d \in Databases : Len(versions'[d]) <= MaxVersions
             /\ \A d \in Databases :
                   /\ d # call[s].db => versions'[d] = versions[d]
                   /\ Len(versions[d]) <= Len(versions'[d])
                   /\ \A i \in 1 .. Len(versions[d]) : versions'[d][i] = versions[d][i]
  <2>. DEFINE here == call[s].db
              was  == versions[here]
              Ops  == [kind : Kinds, scoped : BOOLEAN]
  <2>1. here \in Databases
    BY DEF Finish, At, Busy
  <2>2. was \in Seq(Ops) /\ Len(was) \in Nat
    BY <2>1, VersionSequences
  <2>3. Len(was) + 1 \in 1 .. MaxVersions
    BY <1>2, <2>2, BoundAssumption
  <2>4. v \in Ops
    BY <1>2, <2>3, VersionsAssumption
  <2>. HIDE DEF Ops
  <2>5. Append(was, v) \in Seq(Ops) /\ Len(Append(was, v)) = Len(was) + 1
        /\ \A i \in 1 .. Len(was) : Append(was, v)[i] = was[i]
    BY <2>2, <2>4
  <2>6. versions' = [versions EXCEPT ![here] = Append(was, v)]
    BY <1>2
  <2>7. versions \in [Databases -> Seq(Ops)]
    BY DEF TypeOK, Ops
  <2>8. versions' \in [Databases -> Seq(Ops)] /\ versions'[here] = Append(was, v)
        /\ \A d \in Databases : d # here => versions'[d] = versions[d]
    BY <2>1, <2>5, <2>6, <2>7
  <2>9. ASSUME NEW d \in Databases
        PROVE  /\ Len(versions'[d]) <= MaxVersions
               /\ Len(versions[d]) <= Len(versions'[d])
               /\ \A i \in 1 .. Len(versions[d]) : versions'[d][i] = versions[d][i]
    <3>1. CASE d = here
      <4>1. versions'[d] = Append(was, v) /\ versions[d] = was
        BY <2>8, <3>1
      <4>2. Len(was) + 1 <= MaxVersions /\ Len(was) <= Len(was) + 1
        BY <2>2, <2>3, BoundAssumption
      <4>. HIDE DEF was
      <4>3. Len(Append(was, v)) <= MaxVersions /\ Len(was) <= Len(Append(was, v))
        BY <2>5, <4>2
      <4>. QED  BY <2>5, <4>1, <4>3
    <3>2. CASE d # here
      <4>1. Len(versions[d]) \in Nat
        BY <2>7
      <4>. QED  BY <2>8, <3>2, <4>1 DEF Busy
    <3>. QED  BY <3>1, <3>2
  <2>. QED  BY <2>8, <2>9 DEF Ops
<1>. QED  BY <1>1, <1>2 DEF Finish

\* What a call does once it has been asked keeps the types.
LEMMA StepType ==
    ASSUME IInv, NEW s \in Sessions, Step(s)
    PROVE  TypeOK' /\ Busy'
<1>0. TypeOK /\ Busy
  BY DEF IInv
<1>1. CASE Look(s)
  <2>1. call' \in [Sessions -> CallRecords]
    BY <1>0, <1>1, LookFields
  <2>2. \A t \in Sessions : call'[t].at # "idle" => call'[t].db = call[t].db /\ call[t].at # "idle"
    BY <1>0, <1>1, LookFields, IdleFields DEF Look, At
  <2>3. TypeOK'
    BY <1>0, <1>1, <2>1 DEF Look, TypeOK
  <2>. QED  BY <1>0, <1>1, <2>2, <2>3, StaysBusy DEF Look
<1>2. CASE ReadDone(s)
  <2>1. /\ call' \in [Sessions -> CallRecords] /\ call'[s] = Idle
        /\ \A t \in Sessions \ {s} : call'[t] = call[t]
    BY <1>0, <1>2, Made, OneCall DEF ReadDone
  <2>2. TypeOK'
    BY <1>0, <1>2, <2>1 DEF ReadDone, TypeOK
  <2>. QED  BY <1>0, <1>2, <2>1, <2>2, StaysBusy, IdleFields DEF ReadDone
<1>3. CASE ReadFails(s)
  <2>1. call' \in [Sessions -> CallRecords] /\ call'[s] = Idle
        /\ \A r \in Sessions \ {s} : Kept(call[r], call'[r])
    BY <1>0, <1>3, ReplacedType DEF ReadFails
  <2>2. TypeOK'
    BY <1>0, <1>3, <2>1 DEF ReadFails, TypeOK
  <2>. QED  BY <1>0, <1>3, <2>1, <2>2, StaysBusy, IdleFields DEF ReadFails, Kept
<1>4. CASE Queue(s)
  <2>1. call' \in [Sessions -> CallRecords]
    BY <1>0, <1>4, QueueFields
  <2>2. \A t \in Sessions : call'[t].at # "idle" => call'[t].db = call[t].db /\ call[t].at # "idle"
    BY <1>0, <1>4, QueueFields DEF Queue, At
  <2>3. TypeOK'
    BY <1>0, <1>4, <2>1 DEF Queue, TypeOK
  <2>. QED  BY <1>0, <1>4, <2>2, <2>3, StaysBusy DEF Queue
<1>5. CASE Enter(s)
  <2>1. call' \in [Sessions -> CallRecords]
    BY <1>0, <1>5, EnterFields
  <2>2. \A t \in Sessions : call'[t].at # "idle" => call'[t].db = call[t].db /\ call[t].at # "idle"
    BY <1>0, <1>5, EnterFields, IdleFields DEF Enter, At
  <2>3. TypeOK'
    BY <1>0, <1>5, <2>1 DEF Enter, TypeOK
  <2>. QED  BY <1>0, <1>5, <2>2, <2>3, StaysBusy DEF Enter
<1>6. CASE Finish(s)
  <2>1. call' \in [Sessions -> CallRecords] /\ call'[s] = Idle
        /\ \A r \in Sessions \ {s} : Kept(call[r], call'[r])
    BY <1>0, <1>6, ReplacedType DEF Finish
  <2>2. versions' \in [Databases -> Seq([kind : Kinds, scoped : BOOLEAN])]
        /\ \A d \in Databases : Len(versions'[d]) <= MaxVersions
    BY <1>0, <1>6, Declares
  <2>3. TypeOK'
    BY <1>0, <1>6, <2>1, <2>2 DEF Finish, TypeOK
  <2>4. \A t \in Sessions : call'[t].at # "idle" => call'[t].db \in Databases
    BY <1>0, <2>1, IdleFields DEF Busy, Kept
  <2>. QED  BY <2>2, <2>3, <2>4 DEF Busy
<1>7. CASE Welcome(s)
  <2>1. /\ call' \in [Sessions -> CallRecords] /\ call'[s] = Idle
        /\ \A t \in Sessions \ {s} : call'[t] = call[t]
    BY <1>0, <1>7, Made, OneCall DEF Welcome
  <2>2. call[s].db \in Databases
    BY <1>0, <1>7 DEF Welcome, At, Busy
  <2>3. BoundTo(call[s].db) \in SessionRecords
    BY <2>2 DEF BoundTo, SessionRecords
  <2>4. live' \in [Sessions -> SessionRecords] /\ shown' \in [Sessions -> SUBSET Databases]
    BY <1>0, <1>7, <2>3 DEF Welcome, TypeOK
  <2>5. TypeOK'
    BY <1>0, <1>7, <2>1, <2>4 DEF Welcome, TypeOK
  <2>. QED  BY <1>0, <1>7, <2>1, <2>5, StaysBusy, IdleFields DEF Welcome
<1>. QED  BY <1>1, <1>2, <1>3, <1>4, <1>5, <1>6, <1>7 DEF Step, Inside, InLine

\* Closing the server keeps the types.
LEMMA ClosingType ==
    ASSUME IInv, Closing
    PROVE  TypeOK' /\ Busy'
<1>1. CASE CloseBegins
  <2>1. closer = None
    BY <1>1 DEF CloseBegins, IInv, TypeOK
  <2>. QED  BY <1>1, <2>1 DEF CloseBegins, IInv, TypeOK, Busy
<1>2. CASE CloseEnds
  <2>1. closer = None
    BY <1>2 DEF CloseEnds, IInv, ClosersOpen
  <2>. QED  BY <1>2, <2>1 DEF CloseEnds, IInv, TypeOK, Busy
<1>3. ASSUME NEW d \in Databases, CloseQueues(d)
      PROVE  TypeOK' /\ Busy'
  BY <1>3 DEF CloseQueues, IInv, TypeOK, Busy
<1>4. ASSUME NEW d \in Databases, CloseDatabase(d)
      PROVE  TypeOK' /\ Busy'
  BY <1>4 DEF CloseDatabase, IInv, TypeOK, Busy
<1>. QED  BY <1>1, <1>2, <1>3, <1>4 DEF Closing

-----------------------------------------------------------------------------
(* One lemma per group of actions that leave the calls alone, one per step of a call. *)

\* Opening a connection keeps everything the calls rest on.
LEMMA OpeningInv ==
    ASSUME IInv, NEW s \in Sessions, Opening(s)
    PROVE  IInv'
<1>0. TypeOK' /\ Busy'
  BY OpeningType
<1>. USE DEF IInv
<1>1. CASE Greet(s)
  <2>1. Shown'
    BY <1>1 DEF Greet, At, Shown, TypeOK, SessionRecords
  <2>2. Locks' /\ Passed' /\ WritersDisturbNobody' /\ ClosersOpen' /\ ClosedStaysClosed'
    BY <1>1 DEF Greet, Locks, Passed, WritersDisturbNobody, ClosersOpen, ClosedStaysClosed
  <2>3. Current'
    BY <1>1 DEF Greet, Current, Lookup, Allowed, OpOf
  <2>. QED  BY <1>0, <2>1, <2>2, <2>3
<1>2. CASE Elevate(s)
  <2>1. Shown'
    BY <1>2 DEF Elevate, Shown, TypeOK, SessionRecords
  <2>2. Locks' /\ Passed' /\ WritersDisturbNobody' /\ ClosersOpen' /\ ClosedStaysClosed'
    BY <1>2 DEF Elevate, Locks, Passed, WritersDisturbNobody, ClosersOpen, ClosedStaysClosed
  <2>3. Current'
    BY <1>2 DEF Elevate, Current, Lookup, Allowed, OpOf
  <2>. QED  BY <1>0, <2>1, <2>2, <2>3
<1>3. CASE Goodbye(s)
  <2>1. Shown'
    BY <1>3 DEF Goodbye, At, Shown, TypeOK, NoSession
  <2>2. Locks' /\ Passed' /\ WritersDisturbNobody' /\ ClosersOpen' /\ ClosedStaysClosed'
    BY <1>3 DEF Goodbye, Locks, Passed, WritersDisturbNobody, ClosersOpen, ClosedStaysClosed
  <2>3. Current'
    BY <1>3 DEF Goodbye, Current, Lookup, Allowed, OpOf
  <2>. QED  BY <1>0, <2>1, <2>2, <2>3
<1>4. ASSUME NEW d \in Databases, Bind(s, d)
      PROVE  IInv'
  <2>. DEFINE c == Call("wait", d, "greet", 0, FALSE)
  <2>1. c \in CallRecords /\ c.at = "wait" /\ c.db = d /\ c.job = "greet" /\ c.torn = None
    BY BoundAssumption DEF Call, CallRecords, Jobs, None
  <2>2. call' = [call EXCEPT ![s] = c]
    BY <1>4 DEF Bind
  <2>. HIDE DEF c
  <2>3. call'[s] = c /\ \A t \in Sessions \ {s} : call'[t] = call[t]
    BY <2>1, <2>2, OneCall
  <2>4. Shown'
    <3>1. /\ shown'[s] = shown[s] \cup {d} /\ ~live[s].greeted /\ live' = live
          /\ \A t \in Sessions \ {s} : shown'[t] = shown[t]
      BY <1>4 DEF Bind, TypeOK
    <3>. QED  BY <2>1, <2>3, <3>1 DEF Shown
  <2>5. Locks'
    BY <1>4, <2>1, <2>3 DEF Bind, Locks
  <2>6. Passed' /\ WritersDisturbNobody'
    BY <1>4, <2>1, <2>3 DEF Bind, Passed, WritersDisturbNobody, None
  <2>7. ClosersOpen' /\ ClosedStaysClosed'
    BY <1>4 DEF Bind, MayOpen, ClosersOpen, ClosedStaysClosed
  <2>8. Current'
    BY <1>4, <2>1, <2>3 DEF Bind, Current, Lookup, Allowed, OpOf
  <2>. QED  BY <1>0, <2>4, <2>5, <2>6, <2>7, <2>8
<1>5. ASSUME NEW d \in Databases, Apply(s, d)
      PROVE  IInv'
  <2>. DEFINE c == Call("wait", d, "apply", 0, FALSE)
  <2>1. c \in CallRecords /\ c.at = "wait" /\ c.job = "apply" /\ c.torn = None
    BY BoundAssumption DEF Call, CallRecords, Jobs, None
  <2>2. call' = [call EXCEPT ![s] = c]
    BY <1>5 DEF Apply
  <2>. HIDE DEF c
  <2>3. call'[s] = c /\ \A t \in Sessions \ {s} : call'[t] = call[t]
    BY <2>1, <2>2, OneCall
  <2>4. Shown'
    BY <1>5, <2>1, <2>3 DEF Apply, Shown
  <2>5. Locks'
    BY <1>5, <2>1, <2>3 DEF Apply, Locks
  <2>6. Passed' /\ WritersDisturbNobody'
    BY <1>5, <2>1, <2>3 DEF Apply, Passed, WritersDisturbNobody, None
  <2>7. ClosersOpen' /\ ClosedStaysClosed'
    BY <1>5 DEF Apply, MayOpen, ClosersOpen, ClosedStaysClosed
  <2>8. Current'
    BY <1>5, <2>1, <2>3 DEF Apply, Current, Lookup, Allowed, OpOf
  <2>. QED  BY <1>0, <2>4, <2>5, <2>6, <2>7, <2>8
<1>. QED  BY <1>1, <1>2, <1>3, <1>4, <1>5 DEF Opening

\* reach lets a connection at a database it has shown a signature for.
LEMMA Reaches ==
    ASSUME IInv, NEW s \in Sessions, NEW d \in Databases, NEW signed \in BOOLEAN,
           MayReach(s, d, signed), Reach(s, d),
           shown' = [shown EXCEPT ![s] = IF signed THEN @ \cup {d} ELSE @]
    PROVE  /\ d \in shown'[s]
           /\ \A t \in Sessions :
                 /\ live'[t].verified \subseteq shown'[t]
                 /\ live'[t].bound # None => live'[t].bound \in shown'[t]
                 /\ live'[t].greeted = live[t].greeted
                 /\ live'[t].operator = live[t].operator
                 /\ shown[t] \subseteq shown'[t]
                 /\ t # s => live'[t] = live[t]
           /\ ClosersOpen => closer \in {None} \cup open'
           /\ ClosedStaysClosed => (server = "closed" => open' = {})
<1>0. /\ TypeOK /\ live[s] \in SessionRecords /\ shown[s] \subseteq Databases
      /\ Shown
  BY DEF IInv, TypeOK
<1>1. /\ shown'[s] = IF signed THEN shown[s] \cup {d} ELSE shown[s]
      /\ \A t \in Sessions \ {s} : shown'[t] = shown[t]
  BY <1>0 DEF TypeOK
<1>2. CASE live[s].bound = None /\ d \notin live[s].verified
  <2>1. signed /\ server = "up"
    BY <1>2, NoneAssumption DEF MayReach, MayOpen
  <2>2. live' = [live EXCEPT ![s].verified = @ \cup {d}] /\ open' = open \cup {d}
    BY <1>2 DEF Reach
  <2>3. /\ live'[s].verified = live[s].verified \cup {d} /\ live'[s].bound = live[s].bound
        /\ live'[s].greeted = live[s].greeted /\ live'[s].operator = live[s].operator
        /\ \A t \in Sessions \ {s} : live'[t] = live[t]
    BY <1>0, <2>2 DEF TypeOK, SessionRecords
  <2>4. d \in shown'[s] /\ \A t \in Sessions : shown[t] \subseteq shown'[t]
    BY <1>1, <2>1
  <2>. QED  BY <1>0, <1>1, <2>1, <2>2, <2>3, <2>4 DEF Shown, ClosersOpen
<1>3. CASE ~(live[s].bound = None /\ d \notin live[s].verified)
  <2>1. live' = live /\ open' = open
    BY <1>3 DEF Reach
  <2>2. d \in shown[s]
    BY <1>0, <1>3, NoneAssumption DEF MayReach, Shown
  <2>3. d \in shown'[s] /\ \A t \in Sessions : shown[t] \subseteq shown'[t]
    BY <1>1, <2>2
  <2>. QED  BY <1>0, <2>1, <2>3 DEF Shown, ClosersOpen, ClosedStaysClosed
<1>. QED  BY <1>2, <1>3

\* Asking keeps everything: a call in line has nothing yet.
LEMMA AskingInv ==
    ASSUME IInv, NEW s \in Sessions, Asking(s)
    PROVE  IInv'
<1>0. TypeOK' /\ Busy'
  BY AskingType
<1>. USE DEF IInv
<1>1. ASSUME NEW d \in Databases, NEW signed \in BOOLEAN, NEW version \in Asked,
             NEW scope \in BOOLEAN, Ask(s, d, version, signed, scope)
      PROVE  IInv'
  <2>. DEFINE c == Call("look", d, "invoke", version, scope)
  <2>1. c \in CallRecords
    BY Made, BoundAssumption
  <2>2. c.at = "look" /\ c.db = d /\ c.job = "invoke" /\ c.torn = None
    BY DEF Call
  <2>3. call' = [call EXCEPT ![s] = c]
    BY <1>1 DEF Ask
  <2>. HIDE DEF c
  <2>4. call'[s] = c /\ \A t \in Sessions \ {s} : call'[t] = call[t]
    BY <2>1, <2>3, OneCall
  <2>5. /\ MayReach(s, d, signed) /\ Reach(s, d)
        /\ shown' = [shown EXCEPT ![s] = IF signed THEN @ \cup {d} ELSE @]
        /\ live[s].greeted
        /\ UNCHANGED <<role, server, closer, versions>>
    BY <1>1 DEF Ask
  <2>6. Shown'
    <3>1. /\ d \in shown'[s]
          /\ \A t \in Sessions :
                /\ live'[t].verified \subseteq shown'[t]
                /\ live'[t].bound # None => live'[t].bound \in shown'[t]
                /\ live'[t].greeted = live[t].greeted
                /\ live'[t].operator = live[t].operator
                /\ shown[t] \subseteq shown'[t]
                /\ t # s => live'[t] = live[t]
      BY <2>5, Reaches
    <3>2. ASSUME NEW t \in Sessions \ {s}
          PROVE  /\ call'[t].at # "idle" /\ call'[t].job # "apply" => call'[t].db \in shown'[t]
                 /\ call'[t].at # "idle" /\ call'[t].job = "operate" => live'[t].operator
                 /\ call'[t].at # "idle" /\ call'[t].job = "greet" => ~live'[t].greeted
                 /\ ~live'[t].greeted => live'[t].verified = {} /\ live'[t].bound = None
      BY <2>4, <3>1, <3>2 DEF Shown
    <3>3. /\ call'[s].db \in shown'[s] /\ live'[s].greeted /\ call'[s].job # "greet"
          /\ call'[s].job = "operate" => live'[s].operator
      BY <2>2, <2>4, <2>5, <3>1
    <3>. QED  BY <3>1, <3>2, <3>3 DEF Shown
  <2>7. Locks'
    BY <2>2, <2>4, <2>5 DEF Locks
  <2>8. Passed' /\ WritersDisturbNobody'
    BY <2>2, <2>4, <2>5 DEF Passed, WritersDisturbNobody, None
  <2>9. ClosersOpen' /\ ClosedStaysClosed'
    BY <2>5, Reaches DEF ClosersOpen, ClosedStaysClosed
  <2>10. Current'
    BY <2>2, <2>4, <2>5 DEF Current, Lookup, Allowed, OpOf
  <2>. QED  BY <1>0, <2>6, <2>7, <2>8, <2>9, <2>10
<1>2. ASSUME NEW d \in Databases, NEW signed \in BOOLEAN, AskOperator(s, d, signed)
      PROVE  IInv'
  <2>. DEFINE c == Call("wait", d, "operate", 0, FALSE)
  <2>1. c \in CallRecords
    BY BoundAssumption DEF Call, CallRecords, Jobs, None
  <2>2. c.at = "wait" /\ c.db = d /\ c.job = "operate" /\ c.torn = None
    BY DEF Call
  <2>3. call' = [call EXCEPT ![s] = c]
    BY <1>2 DEF AskOperator
  <2>. HIDE DEF c
  <2>4. call'[s] = c /\ \A t \in Sessions \ {s} : call'[t] = call[t]
    BY <2>1, <2>3, OneCall
  <2>5. /\ MayReach(s, d, signed) /\ Reach(s, d)
        /\ shown' = [shown EXCEPT ![s] = IF signed THEN @ \cup {d} ELSE @]
        /\ live[s].greeted /\ live[s].operator
        /\ UNCHANGED <<role, server, closer, versions>>
    BY <1>2 DEF AskOperator
  <2>6. Shown'
    <3>1. /\ d \in shown'[s]
          /\ \A t \in Sessions :
                /\ live'[t].verified \subseteq shown'[t]
                /\ live'[t].bound # None => live'[t].bound \in shown'[t]
                /\ live'[t].greeted = live[t].greeted
                /\ live'[t].operator = live[t].operator
                /\ shown[t] \subseteq shown'[t]
                /\ t # s => live'[t] = live[t]
      BY <2>5, Reaches
    <3>2. ASSUME NEW t \in Sessions \ {s}
          PROVE  /\ call'[t].at # "idle" /\ call'[t].job # "apply" => call'[t].db \in shown'[t]
                 /\ call'[t].at # "idle" /\ call'[t].job = "operate" => live'[t].operator
                 /\ call'[t].at # "idle" /\ call'[t].job = "greet" => ~live'[t].greeted
                 /\ ~live'[t].greeted => live'[t].verified = {} /\ live'[t].bound = None
      BY <2>4, <3>1, <3>2 DEF Shown
    <3>3. /\ call'[s].db \in shown'[s] /\ live'[s].greeted /\ call'[s].job # "greet"
          /\ call'[s].job = "operate" => live'[s].operator
      BY <2>2, <2>4, <2>5, <3>1
    <3>. QED  BY <3>1, <3>2, <3>3 DEF Shown
  <2>7. Locks'
    BY <2>2, <2>4, <2>5 DEF Locks
  <2>8. Passed' /\ WritersDisturbNobody'
    BY <2>2, <2>4, <2>5 DEF Passed, WritersDisturbNobody, None
  <2>9. ClosersOpen' /\ ClosedStaysClosed'
    BY <2>5, Reaches DEF ClosersOpen, ClosedStaysClosed
  <2>10. Current'
    BY <2>2, <2>4, <2>5 DEF Current, Lookup, Allowed, OpOf
  <2>. QED  BY <1>0, <2>6, <2>7, <2>8, <2>9, <2>10
<1>. QED  BY <1>1, <1>2 DEF Asking

\* Closing waits for the lock of each database.
LEMMA ClosingInv ==
    ASSUME IInv, Closing
    PROVE  IInv'
<1>0. TypeOK' /\ Busy'
  BY ClosingType
<1>. USE DEF IInv
<1>1. /\ call' = call /\ versions' = versions /\ live' = live /\ shown' = shown /\ role' = role
  BY DEF Closing, CloseBegins, CloseEnds, CloseQueues, CloseDatabase
<1>2. Shown' /\ Passed' /\ WritersDisturbNobody'
  BY <1>1 DEF Shown, Passed, WritersDisturbNobody
<1>3. Current'
  BY <1>1 DEF Current, Lookup, Allowed, OpOf
<1>4. closer' \in {closer, None} \/ (closer' \in Databases /\ ~Writer(closer'))
  BY DEF Closing, CloseBegins, CloseEnds, CloseQueues, CloseDatabase
<1>5. Locks'
  BY <1>1, <1>4, NoneAssumption DEF Locks, Writer, On, At, Busy
<1>6. ClosersOpen' /\ ClosedStaysClosed'
  BY DEF Closing, CloseBegins, CloseEnds, CloseQueues, CloseDatabase, ClosersOpen, ClosedStaysClosed, TypeOK, None
<1>. QED  BY <1>0, <1>2, <1>3, <1>5, <1>6

\* A step of a call leaves the server, the databases that are open and the closer as they
\* were.
LEMMA StepKeeps ==
    ASSUME NEW s \in Sessions, Step(s)
    PROVE  /\ UNCHANGED <<role, server, closer, open>>
           /\ ClosersOpen => ClosersOpen'
           /\ ClosedStaysClosed => ClosedStaysClosed'
BY DEF Step, InLine, Inside, Look, Queue, ReadDone, Enter, Finish, Welcome, ReadFails, ClosersOpen, ClosedStaysClosed

\* What was shown is shown for as long as the connections and what their calls are for stay.
LEMMA ShownStays ==
    ASSUME Shown, UNCHANGED <<live, shown>>,
           \A t \in Sessions : call'[t].at # "idle" =>
               call[t].at # "idle" /\ call'[t].db = call[t].db /\ call'[t].job = call[t].job
    PROVE  Shown'
BY DEF Shown

\* The first lookup: nobody writes, so what it finds is what runs.
LEMMA LookInv ==
    ASSUME IInv, NEW s \in Sessions, Look(s)
    PROVE  Locks' /\ Shown' /\ Current' /\ Passed' /\ WritersDisturbNobody'
<1>. USE DEF IInv
<1>0. /\ ~Writer(call[s].db) /\ call[s].at = "look"
      /\ UNCHANGED <<role, server, closer, open, versions, live, shown>>
  BY DEF Look, At
<1>1. \A t \in Sessions \ {s} : call'[t] = call[t]
  BY LookFields
<1>2. CASE call'[s] = Idle
  <2>1. call'[s].at = "idle" /\ call'[s].torn = None
    BY <1>2, IdleFields
  <2>2. Locks' /\ Shown'
    <3>1. Locks'
      BY <1>0, <1>1, <2>1 DEF Locks
    <3>2. Shown'
      BY <1>0, <1>1, <2>1, ShownStays
    <3>. QED  BY <3>1, <3>2
  <2>3. Passed' /\ WritersDisturbNobody'
    BY <1>0, <1>1, <2>1 DEF Passed, WritersDisturbNobody, None
  <2>4. Current'
    BY <1>0, <1>1, <2>1 DEF Current, Lookup, Allowed, OpOf
  <2>. QED  BY <2>2, <2>3, <2>4
<1>3. CASE /\ call'[s].at \in {"read", "wait"}
           /\ call'[s].at = "read" => call'[s].op = Lookup(call[s])
           /\ Allowed(call[s]) /\ ~(role = "follower" /\ Writes(OpOf(call[s], Lookup(call[s])).kind))
           /\ call'[s].db = call[s].db /\ call'[s].job = call[s].job /\ call'[s].version = call[s].version
           /\ call'[s].torn = call[s].torn /\ call'[s].scope = call[s].scope
  <2>1. \A t \in Sessions : call[t].db = call[s].db => call[t].at \notin {"drain", "write"}
    BY <1>0 DEF Writer, On, At
  <2>2. Locks'
    BY <1>0, <1>1, <1>3, <2>1 DEF Locks
  <2>3. Shown'
    BY <1>0, <1>1, <1>3, ShownStays
  <2>4. WritersDisturbNobody'
    BY <1>1, <1>3 DEF WritersDisturbNobody
  <2>5. Current'
    BY <1>0, <1>1, <1>3 DEF Current, Lookup, Allowed, OpOf
  <2>6. call[s].version # 0 => /\ Lookup(call[s]) = call[s].version
                               /\ call[s].version <= Len(versions[call[s].db])
    BY <1>3 DEF Allowed, Lookup
  <2>7. Passed'
    BY <1>0, <1>1, <1>3, <2>6 DEF Passed, OpOf
  <2>. QED  BY <2>2, <2>3, <2>4, <2>5, <2>7
<1>. QED  BY <1>2, <1>3, LookFields

\* A reader leaves.
LEMMA ReadDoneInv ==
    ASSUME IInv, NEW s \in Sessions, ReadDone(s)
    PROVE  Locks' /\ Shown' /\ Current' /\ Passed' /\ WritersDisturbNobody'
<1>. USE DEF IInv
<1>0. UNCHANGED <<role, server, closer, open, versions, live, shown>>
  BY DEF ReadDone
<1>1. call'[s] = Idle /\ \A t \in Sessions \ {s} : call'[t] = call[t]
  BY Made, OneCall DEF ReadDone
<1>2. call'[s].at = "idle" /\ call'[s].torn = None
  BY <1>1, IdleFields
<1>3. Locks' /\ Shown'
  <2>1. Locks'
    BY <1>0, <1>1, <1>2 DEF Locks
  <2>2. Shown'
    BY <1>0, <1>1, <1>2, ShownStays
  <2>. QED  BY <2>1, <2>2
<1>4. Passed' /\ WritersDisturbNobody'
  BY <1>0, <1>1, <1>2 DEF Passed, WritersDisturbNobody, None
<1>5. Current'
  BY <1>0, <1>1, <1>2 DEF Current, Lookup, Allowed, OpOf
<1>. QED  BY <1>3, <1>4, <1>5

\* A shared batch rolls back: it takes the tree from other readers, and no writer is to blame.
LEMMA ReadFailsInv ==
    ASSUME IInv, NEW s \in Sessions, ReadFails(s)
    PROVE  Locks' /\ Shown' /\ Current' /\ Passed' /\ WritersDisturbNobody'
<1>. USE DEF IInv
<1>0. UNCHANGED <<role, server, closer, open, versions, live, shown>>
  BY DEF ReadFails
<1>1. /\ call'[s] = Idle
      /\ \A r \in Sessions \ {s} : Kept(call[r], call'[r]) /\ call'[r].torn \in {call[r].torn, "batch"}
  BY ReplacedType DEF ReadFails
<1>2. call'[s].at = "idle" /\ call'[s].torn = None
  BY <1>1, IdleFields
<1>3. Locks' /\ Shown'
  <2>1. Locks'
    BY <1>0, <1>1, <1>2 DEF Locks, Kept
  <2>2. Shown'
    BY <1>0, <1>1, <1>2, ShownStays DEF Kept
  <2>. QED  BY <2>1, <2>2
<1>4. Passed' /\ WritersDisturbNobody'
  BY <1>0, <1>1, <1>2 DEF Passed, WritersDisturbNobody, None, Kept
<1>5. Current'
  BY <1>0, <1>1, <1>2 DEF Current, Lookup, Allowed, OpOf, Kept
<1>. QED  BY <1>3, <1>4, <1>5

\* A call becomes the next writer when there is none.
LEMMA QueueInv ==
    ASSUME IInv, NEW s \in Sessions, Queue(s)
    PROVE  Locks' /\ Shown' /\ Current' /\ Passed' /\ WritersDisturbNobody'
<1>. USE DEF IInv
<1>0. /\ ~Writer(call[s].db) /\ call[s].at = "wait"
      /\ UNCHANGED <<role, server, closer, open, versions, live, shown>>
  BY DEF Queue, At
<1>1. /\ \A t \in Sessions \ {s} : call'[t] = call[t]
      /\ call'[s].at = "drain"
      /\ call'[s].db = call[s].db /\ call'[s].job = call[s].job /\ call'[s].version = call[s].version
      /\ call'[s].torn = call[s].torn
  BY QueueFields
<1>2. /\ call[s].db # closer
      /\ \A t \in Sessions : call[t].db = call[s].db => call[t].at \notin {"drain", "write"}
  BY <1>0 DEF Writer, On, At
<1>3. Locks'
  BY <1>0, <1>1, <1>2 DEF Locks
<1>4. Shown' /\ WritersDisturbNobody'
  <2>1. Shown'
    BY <1>0, <1>1, ShownStays
  <2>. QED  BY <1>1, <2>1 DEF WritersDisturbNobody
<1>5. Passed'
  BY <1>0, <1>1 DEF Passed
<1>6. Current'
  BY <1>0, <1>1 DEF Current, Lookup, Allowed, OpOf
<1>. QED  BY <1>3, <1>4, <1>5, <1>6

\* The lock is taken when no reader is left, and the operation looked up under it.
LEMMA EnterInv ==
    ASSUME IInv, NEW s \in Sessions, Enter(s)
    PROVE  Locks' /\ Shown' /\ Current' /\ Passed' /\ WritersDisturbNobody'
<1>. USE DEF IInv
<1>0. /\ Readers(call[s].db) = {} /\ call[s].at = "drain"
      /\ UNCHANGED <<role, server, closer, open, versions, live, shown>>
  BY DEF Enter, At
<1>1. \A t \in Sessions \ {s} : call'[t] = call[t]
  BY EnterFields
<1>2. CASE call'[s] = Idle
  <2>1. call'[s].at = "idle" /\ call'[s].torn = None
    BY <1>2, IdleFields
  <2>2. Locks' /\ Shown'
    <3>1. Locks'
      BY <1>0, <1>1, <2>1 DEF Locks
    <3>2. Shown'
      BY <1>0, <1>1, <2>1, ShownStays
    <3>. QED  BY <3>1, <3>2
  <2>3. Passed' /\ WritersDisturbNobody'
    BY <1>0, <1>1, <2>1 DEF Passed, WritersDisturbNobody, None
  <2>4. Current'
    BY <1>0, <1>1, <2>1 DEF Current, Lookup, Allowed, OpOf
  <2>. QED  BY <2>2, <2>3, <2>4
<1>3. CASE /\ call'[s].at = "write"
           /\ call[s].job = "invoke" => call'[s].op = Lookup(call[s]) /\ Allowed(call[s])
           /\ call'[s].db = call[s].db /\ call'[s].job = call[s].job /\ call'[s].version = call[s].version
           /\ call'[s].torn = call[s].torn /\ call'[s].scope = call[s].scope
  <2>1. \A t \in Sessions : call[t].db = call[s].db => call[t].at # "read"
    BY <1>0 DEF Readers, On, At
  <2>2. Locks'
    BY <1>0, <1>1, <1>3, <2>1 DEF Locks
  <2>3. Shown' /\ WritersDisturbNobody'
    <3>1. Shown'
      BY <1>0, <1>1, <1>3, ShownStays
    <3>. QED  BY <1>1, <1>3, <3>1 DEF WritersDisturbNobody
  <2>4. Passed'
    BY <1>0, <1>1, <1>3 DEF Passed
  <2>5. Current'
    BY <1>0, <1>1, <1>3 DEF Current, Lookup, Allowed, OpOf
  <2>. QED  BY <2>2, <2>3, <2>4, <2>5
<1>. QED  BY <1>2, <1>3, EnterFields

\* The writer leaves, having declared or not: nobody was reading, and nobody else writing.
LEMMA FinishInv ==
    ASSUME IInv, NEW s \in Sessions, Finish(s)
    PROVE  Locks' /\ Shown' /\ Current' /\ Passed' /\ WritersDisturbNobody'
<1>. USE DEF IInv
<1>0. /\ call[s].at = "write"
      /\ UNCHANGED <<role, server, closer, open, live, shown>>
  BY DEF Finish, At
<1>1. /\ call'[s] = Idle
      /\ \A r \in Sessions \ {s} :
            /\ Kept(call[r], call'[r])
            /\ call'[r].torn = call[r].torn \/ r \in Readers(call[s].db)
  BY ReplacedType DEF Finish
<1>2. call'[s].at = "idle" /\ call'[s].torn = None
  BY <1>1, IdleFields
<1>3. Readers(call[s].db) = {}
  BY <1>0 DEF Readers, On, At, Locks
<1>4. Locks' /\ Shown'
  <2>1. Locks'
    BY <1>0, <1>1, <1>2 DEF Locks, Kept
  <2>2. Shown'
    BY <1>0, <1>1, <1>2, ShownStays DEF Kept
  <2>. QED  BY <2>1, <2>2
<1>5. WritersDisturbNobody'
  BY <1>1, <1>2, <1>3 DEF WritersDisturbNobody, None
<1>6. Current'
  <2>. SUFFICES ASSUME NEW t \in Sessions, call'[t].at \in {"read", "write"}, call'[t].job = "invoke"
                PROVE  call[t].op' = Lookup(call[t])' /\ Allowed(call[t])'
    BY DEF Current
  <2>1. t # s /\ Kept(call[t], call'[t])
    BY <1>1, <1>2
  <2>2. call[t].at \in {"read", "write"} /\ call[t].job = "invoke" /\ call[t].db \in Databases
    BY <2>1 DEF Kept, Busy
  <2>3. call[t].db # call[s].db
    BY <1>0, <2>1, <2>2 DEF Locks
  <2>4. versions'[call[t].db] = versions[call[t].db]
    BY <2>2, <2>3, Declares
  <2>5. call[t].op = Lookup(call[t]) /\ Allowed(call[t])
    BY <2>2 DEF Current
  <2>. QED  BY <2>1, <2>4, <2>5 DEF Kept, Lookup, Allowed, OpOf
<1>7. Passed'
  <2>. SUFFICES ASSUME NEW t \in Sessions, role' = "follower",
                       call'[t].at \in {"read", "wait", "drain", "write"},
                       call'[t].job = "invoke", call'[t].version # 0
                PROVE  /\ call'[t].version <= Len(versions'[call'[t].db])
                       /\ ~Writes(versions'[call'[t].db][call'[t].version].kind)
    BY DEF Passed, Writes
  <2>1. t # s /\ Kept(call[t], call'[t])
    BY <1>1, <1>2
  <2>2. /\ call[t].db \in Databases /\ call[t].version \in 1 .. MaxVersions
        /\ call[t].version <= Len(versions[call[t].db])
        /\ ~Writes(versions[call[t].db][call[t].version].kind)
    <3>1. call[t] \in CallRecords
      BY DEF TypeOK
    <3>2. call[t].version \in 0 .. MaxVersions
      BY <3>1 DEF CallRecords
    <3>. QED  BY <1>0, <2>1, <3>2, BoundAssumption DEF Kept, Busy, Passed
  <2>3. Len(versions[call[t].db]) \in Nat
    BY <2>2, VersionSequences
  <2>4. call[t].version \in 1 .. Len(versions[call[t].db])
    BY <2>2, <2>3, BoundAssumption
  <2>5. /\ Len(versions[call[t].db]) <= Len(versions'[call[t].db])
        /\ versions'[call[t].db][call[t].version] = versions[call[t].db][call[t].version]
        /\ versions' \in [Databases -> Seq([kind : Kinds, scoped : BOOLEAN])]
    BY <2>2, <2>4, Declares
  <2>6. Len(versions'[call[t].db]) \in Nat
    BY <2>2, StepType, VersionSequences DEF Step, Inside, TypeOK
  <2>7. call'[t].db = call[t].db /\ call'[t].version = call[t].version
    BY <2>1 DEF Kept
  <2>8. call[t].version <= Len(versions'[call[t].db])
    BY <2>2, <2>3, <2>5, <2>6, BoundAssumption
  <2>. QED  BY <2>2, <2>5, <2>7, <2>8
<1>. QED  BY <1>4, <1>5, <1>6, <1>7

\* A handshake ends under the lock: the connection has the database it showed a signature
\* for, or nothing.
LEMMA WelcomeInv ==
    ASSUME IInv, NEW s \in Sessions, Welcome(s)
    PROVE  Locks' /\ Shown' /\ Current' /\ Passed' /\ WritersDisturbNobody'
<1>. USE DEF IInv
<1>0. /\ call[s].at = "write" /\ call[s].job = "greet"
      /\ UNCHANGED <<role, server, closer, open, versions>>
  BY DEF Welcome, At
<1>1. call'[s] = Idle /\ \A t \in Sessions \ {s} : call'[t] = call[t]
  BY Made, OneCall DEF Welcome
<1>2. call'[s].at = "idle" /\ call'[s].torn = None
  BY <1>1, IdleFields
<1>3. call[s].db \in shown[s] /\ ~live[s].greeted
  BY <1>0 DEF Shown
<1>4. Shown'
  <2>1. CASE live' = [live EXCEPT ![s] = BoundTo(call[s].db)] /\ UNCHANGED shown
    <3>1. live'[s] = BoundTo(call[s].db) /\ \A t \in Sessions \ {s} : live'[t] = live[t]
      BY <2>1 DEF TypeOK
    <3>2. live'[s].greeted /\ live'[s].verified = {call[s].db} /\ live'[s].bound = call[s].db
      BY <3>1 DEF BoundTo
    <3>. QED  BY <1>1, <1>2, <1>3, <2>1, <3>1, <3>2 DEF Shown
  <2>2. CASE UNCHANGED live /\ shown' = [shown EXCEPT ![s] = {}]
    <3>1. shown'[s] = {} /\ \A t \in Sessions \ {s} : shown'[t] = shown[t]
      BY <2>2 DEF TypeOK
    <3>2. live[s].verified = {} /\ live[s].bound = None
      BY <1>3 DEF Shown
    <3>. QED  BY <1>1, <1>2, <1>3, <2>2, <3>1, <3>2 DEF Shown
  <2>. QED  BY <2>1, <2>2 DEF Welcome
<1>5. Locks'
  BY <1>0, <1>1, <1>2 DEF Locks
<1>6. Passed' /\ WritersDisturbNobody'
  BY <1>0, <1>1, <1>2 DEF Passed, WritersDisturbNobody, None
<1>7. Current'
  BY <1>0, <1>1, <1>2 DEF Current, Lookup, Allowed, OpOf
<1>. QED  BY <1>4, <1>5, <1>6, <1>7

\* Every step of a call keeps the invariant.
LEMMA StepInv ==
    ASSUME IInv, NEW s \in Sessions, Step(s)
    PROVE  IInv'
<1>1. TypeOK' /\ Busy'
  BY StepType
<1>2. ClosersOpen' /\ ClosedStaysClosed'
  BY StepKeeps DEF IInv
<1>3. Locks' /\ Shown' /\ Current' /\ Passed' /\ WritersDisturbNobody'
  BY LookInv, ReadDoneInv, ReadFailsInv, QueueInv, EnterInv, FinishInv, WelcomeInv DEF Step, InLine, Inside
<1>. QED  BY <1>1, <1>2, <1>3 DEF IInv

\* A step that changes nothing keeps the invariant.
LEMMA StutterInv == ASSUME IInv, UNCHANGED vars  PROVE IInv'
<1>. USE DEF IInv, vars
<1>1. TypeOK' /\ Busy' /\ Locks' /\ Shown' /\ Passed'
  BY DEF TypeOK, Busy, Locks, Shown, Passed
<1>2. WritersDisturbNobody' /\ ClosersOpen' /\ ClosedStaysClosed'
  BY DEF WritersDisturbNobody, ClosersOpen, ClosedStaysClosed
<1>3. Current'
  BY DEF Current, Lookup, Allowed, OpOf
<1>. QED  BY <1>1, <1>2, <1>3

-----------------------------------------------------------------------------
(* Theorems. *)

\* IInv holds in every state (server.go, invoke; declare.go; follower.go, Close).
THEOREM Invariance == Spec => []IInv
<1>1. Init => IInv
  BY InitInv
<1>2. IInv /\ [Next]_vars => IInv'
  <2>. SUFFICES ASSUME IInv, [Next]_vars  PROVE IInv'
    OBVIOUS
  <2>1. ASSUME NEW s \in Sessions, Opening(s) \/ Asking(s) \/ Step(s)
        PROVE  IInv'
    BY <2>1, OpeningInv, AskingInv, StepInv
  <2>2. CASE Closing
    BY <2>2, ClosingInv
  <2>3. CASE UNCHANGED vars
    BY <2>3, StutterInv
  <2>. QED  BY <2>1, <2>2, <2>3 DEF Next
<1>. QED  BY <1>1, <1>2, PTL DEF Spec

\* Sessions, calls and versions keep their types, and Close holds a lock only while the
\* server is closing.
THEOREM TypeCorrect == Spec => []TypeOK
<1>1. IInv => TypeOK
  BY DEF IInv
<1>. QED  BY <1>1, Invariance, PTL

\* No declaration, operation or copied entry replaces the tree a shared read is on, for any
\* number of connections (server.go, invoke and with: the lock of a database).
THEOREM ReadersKeepTheirTree == Spec => []WritersDisturbNobody
<1>1. IInv => WritersDisturbNobody
  BY DEF IInv
<1>. QED  BY <1>1, Invariance, PTL

\* What runs is looked up, and its scopes checked, on the versions that are there while it
\* runs, on a database the connection showed a signature for (server.go, reach and invoke).
THEOREM RunsOnlyWhatItMay == Spec => []RunsWhatItMay
<1>1. IInv => RunsWhatItMay
  BY DEF IInv, RunsWhatItMay, Shown, Current, Allowed, At
<1>. QED  BY <1>1, Invariance, PTL

\* On a follower no call that names its version writes (server.go, readOnly and invoke).
THEOREM FollowersPinned == Spec => []PinnedNeverWrites
<1>1. ASSUME IInv, role = "follower", NEW s \in Sessions, call[s].version # 0
      PROVE  ~WritesHere(s)
  <2>. SUFFICES ASSUME At(s, {"read", "write"}), call[s].job = "invoke"
                PROVE  ~Writes(OpOf(call[s], call[s].op).kind)
    BY DEF WritesHere
  <2>1. /\ call[s].version <= Len(versions[call[s].db])
        /\ ~Writes(versions[call[s].db][call[s].version].kind)
    BY <1>1 DEF IInv, Passed, At
  <2>2. call[s].op = Lookup(call[s])
    BY <1>1 DEF IInv, Current, At
  <2>3. Lookup(call[s]) = call[s].version
    BY <1>1, <2>1 DEF Lookup
  <2>. QED  BY <2>1, <2>2, <2>3 DEF OpOf
<1>2. IInv => PinnedNeverWrites
  BY <1>1 DEF PinnedNeverWrites
<1>. QED  BY <1>2, Invariance, PTL

\* Once Close has returned nothing is open, and nothing is opened again (server.go, Close and
\* database).
THEOREM ClosedForGood == Spec => []ClosedStaysClosed
<1>1. IInv => ClosedStaysClosed
  BY DEF IInv
<1>. QED  BY <1>1, Invariance, PTL
=============================================================================
