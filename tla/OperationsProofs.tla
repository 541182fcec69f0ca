-------------------------- MODULE OperationsProofs --------------------------
EXTENDS Operations, TLAPS, FiniteSetTheorems, NaturalsInduction, WellFoundedInduction

(***************************************************************************)
(* Proofs about declared operations.  An operation calls only operations   *)
(* declared before it, so the calls form a dag on positions of ops and     *)
(* what the code computes by walking them (ceilings, kinds of key,         *)
(* shareable, envelopes, the rows and changes of a run) is a recursive     *)
(* function on positions.  The argument has three layers: such a function  *)
(* exists and admits induction from below; each of the walks is related,   *)
(* position by position, to what a run of the operation does; and the      *)
(* inductive invariant IInv says that every accepted operation has the     *)
(* shape those relations need and that the answer under way came from one  *)
(* that had it.                                                            *)
(***************************************************************************)

-----------------------------------------------------------------------------
(* Walks over what an operation calls are recursive functions on positions *)
(* that ask only about earlier ones.  These lemmas are what such a         *)
(* function needs: that it exists, and induction from below.               *)

\* A set of natural numbers that is not empty has a least one.
LEMMA LeastNatural ==
    ASSUME NEW T, T \subseteq Nat, T # {}
    PROVE  \E k \in T : \A j \in T : k <= j
<1>1. PICK k \in T : \A j \in T : ~(<<j, k>> \in OpToRel(<, Nat))
  BY NatLessThanWellFounded, WFMin
<1>2. ASSUME NEW j \in T PROVE k <= j
  <2>1. k \in Nat /\ j \in Nat
    OBVIOUS
  <2>2. ~(j < k)
    BY <1>1, <2>1 DEF OpToRel
  <2> QED
    BY <2>1, <2>2
<1> QED
  BY <1>2

\* What passes from the positions before to a position holds of all of them.
LEMMA FromBelow ==
    ASSUME NEW n \in Nat, NEW S,
           \A p \in 1 .. n : (\A q \in 1 .. n : q < p => q \in S) => p \in S
    PROVE  \A p \in 1 .. n : p \in S
<1> DEFINE bad == {p \in 1 .. n : p \notin S}
<1>1. SUFFICES ASSUME bad # {} PROVE FALSE
  OBVIOUS
<1>2. bad \subseteq Nat
  OBVIOUS
<1>3. PICK p \in bad : \A q \in bad : p <= q
  BY <1>1, <1>2, LeastNatural
<1>4. ASSUME NEW q \in 1 .. n, q < p PROVE q \in S
  BY <1>3, <1>4
<1> QED
  BY <1>3, <1>4

\* A rule for the value at a position that reads only the values before it.
Backward(n, V, D) ==
    /\ D \in [1 .. n -> [[1 .. n -> V] -> V]]
    /\ \A p \in 1 .. n : \A g, h \in [1 .. n -> V] :
          (\A q \in 1 .. n : q < p => g[q] = h[q]) => D[p][g] = D[p][h]

\* Such a rule has a function that keeps to it everywhere.
LEMMA Recursion ==
    ASSUME NEW n \in Nat, NEW V, NEW v \in V, NEW D, Backward(n, V, D)
    PROVE  \E f \in [1 .. n -> V] : \A p \in 1 .. n : f[p] = D[p][f]
<1> DEFINE Upto(k) == \E f \in [1 .. n -> V] : \A p \in 1 .. n : p <= k => f[p] = D[p][f]
           T == {k \in 0 .. n : ~Upto(k)}
<1>0. /\ D \in [1 .. n -> [[1 .. n -> V] -> V]]
      /\ \A p \in 1 .. n : \A g, h \in [1 .. n -> V] :
            (\A q \in 1 .. n : q < p => g[q] = h[q]) => D[p][g] = D[p][h]
  BY DEF Backward
<1>1. Upto(0)
  <2>1. [p \in 1 .. n |-> v] \in [1 .. n -> V]
    OBVIOUS
  <2>2. \A p \in 1 .. n : ~(p <= 0)
    OBVIOUS
  <2> QED
    BY <2>1, <2>2, Zenon
<1>2. ASSUME NEW k \in 1 .. n, Upto(k - 1) PROVE Upto(k)
  <2>1. PICK f \in [1 .. n -> V] : \A p \in 1 .. n : p <= k - 1 => f[p] = D[p][f]
    BY <1>2
  <2> DEFINE g == [f EXCEPT ![k] = D[k][f]]
  <2>2. D[k][f] \in V
    <3>1. D[k] \in [[1 .. n -> V] -> V]
      BY <1>0
    <3> QED
      BY <3>1, Zenon
  <2>3. g \in [1 .. n -> V] /\ g[k] = D[k][f] /\ \A p \in 1 .. n : p # k => g[p] = f[p]
    BY <2>2
  <2> HIDE DEF g
  <2>4. ASSUME NEW p \in 1 .. n, p <= k PROVE g[p] = D[p][g]
    <3>1. \A q \in 1 .. n : q < p => g[q] = f[q]
      <4>1. \A q \in 1 .. n : q < p => q # k
        BY <2>4
      <4> QED
        BY <4>1, <2>3, Zenon
    <3>2. D[p][g] = D[p][f]
      BY <3>1, <2>3, <1>0
    <3>3. CASE p = k
      BY <3>2, <3>3, <2>3
    <3>4. CASE p # k
      <4>1. p <= k - 1
        BY <3>4, <2>4
      <4> QED
        BY <4>1, <3>2, <3>4, <2>1, <2>3
    <3> QED
      BY <3>3, <3>4
  <2> QED
    BY <2>3, <2>4
<1>3. Upto(n) => \E f \in [1 .. n -> V] : \A p \in 1 .. n : f[p] = D[p][f]
  <2>1. \A p \in 1 .. n : p <= n
    OBVIOUS
  <2> QED
    BY <2>1, Zenon
<1> HIDE DEF Upto
<1>4. ASSUME T # {} PROVE FALSE
  <2>1. T \subseteq Nat
    OBVIOUS
  <2>2. PICK k \in T : \A j \in T : k <= j
    BY <1>4, <2>1, LeastNatural
  <2>3. k \in 0 .. n /\ ~Upto(k)
    BY <2>2
  <2>4. k # 0
    BY <1>1, <2>3
  <2>5. k - 1 \in 0 .. n /\ ~(k <= k - 1)
    BY <2>3, <2>4
  <2>6. Upto(k - 1)
    BY <2>2, <2>5
  <2> QED
    BY <1>2, <2>3, <2>4, <2>6
<1>5. Upto(n)
  BY <1>4
<1> QED
  BY <1>3, <1>5, Zenon

-----------------------------------------------------------------------------
(* The sum a batch comes to.                                               *)

\* The sum is where the running total of the loop ends.
LEMMA TotalRuns ==
    ASSUME NEW n \in Nat, NEW costs \in [1 .. n -> Int]
    PROVE  \E f \in [0 .. n -> Int] :
              f[0] = 0 /\ (\A k \in 1 .. n : f[k] = f[k - 1] + costs[k]) /\ Total(costs) = f[n]
<1> DEFINE D == [p \in 1 .. n |-> [g \in [1 .. n -> Int] |->
                    IF p = 1 THEN costs[1] ELSE g[p - 1] + costs[p]]]
<1>1. PICK g \in [1 .. n -> Int] : \A p \in 1 .. n : g[p] = D[p][g]
  <2>1. D \in [1 .. n -> [[1 .. n -> Int] -> Int]]
    OBVIOUS
  <2>2. ASSUME NEW p \in 1 .. n, NEW g \in [1 .. n -> Int], NEW h \in [1 .. n -> Int],
               \A q \in 1 .. n : q < p => g[q] = h[q]
        PROVE  D[p][g] = D[p][h]
    <3>1. p # 1 => g[p - 1] = h[p - 1]
      BY <2>2
    <3> QED
      BY <3>1
  <2>3. Backward(n, Int, D)
    <3> HIDE DEF D
    <3> QED
      BY <2>1, <2>2 DEF Backward
  <2> HIDE DEF D
  <2> QED
    BY <2>3, Recursion
<1> DEFINE h == [k \in 0 .. n |-> IF k = 0 THEN 0 ELSE g[k]]
<1>2. h \in [0 .. n -> Int] /\ h[0] = 0
  OBVIOUS
<1>3. ASSUME NEW k \in 1 .. n PROVE h[k] = h[k - 1] + costs[k]
  <2>1. g[k] = IF k = 1 THEN costs[1] ELSE g[k - 1] + costs[k]
    BY <1>1
  <2>2. h[k] = g[k] /\ (k = 1 => h[k - 1] = 0) /\ (k # 1 => h[k - 1] = g[k - 1])
    OBVIOUS
  <2> HIDE DEF h
  <2> QED
    BY <2>1, <2>2
<1>4. h = [k \in 0 .. n |-> IF k = 0 THEN 0 ELSE h[k - 1] + costs[k]]
  <2> HIDE DEF h, D
  <2>1. h = [k \in 0 .. n |-> h[k]]
    BY <1>2
  <2>2. \A k \in 0 .. n : h[k] = IF k = 0 THEN 0 ELSE h[k - 1] + costs[k]
    BY <1>2, <1>3
  <2> QED
    BY <2>1, <2>2
<1> HIDE DEF h, D
<1> DEFINE f == CHOOSE x : x = [k \in 0 .. n |-> IF k = 0 THEN 0 ELSE x[k - 1] + costs[k]]
<1>5. f = [k \in 0 .. n |-> IF k = 0 THEN 0 ELSE f[k - 1] + costs[k]]
  BY <1>4
<1>6. Len(costs) = n
  OBVIOUS
<1>7. Total(costs) = f[n]
  BY <1>6, Zenon DEF Total
<1> HIDE DEF f
<1>8. f[0] = 0 /\ \A k \in 1 .. n : f[k] = f[k - 1] + costs[k]
  BY <1>5
<1>9. \A k \in 0 .. n : f[k] = h[k]
  <2> DEFINE T == {k \in 0 .. n : f[k] # h[k]}
  <2>1. ASSUME T # {} PROVE FALSE
    <3>0. T \subseteq Nat
      OBVIOUS
    <3>1. PICK k \in T : \A j \in T : k <= j
      BY <2>1, <3>0, LeastNatural
    <3>2. k # 0
      BY <3>1, <1>8, <1>2
    <3>3. f[k - 1] = h[k - 1] /\ k \in 1 .. n
      BY <3>1, <3>2
    <3> QED
      BY <3>1, <3>3, <1>8, <1>3
  <2> QED
    BY <2>1
<1>10. Total(costs) = h[n]
  BY <1>7, <1>9
<1> QED
  BY <1>2, <1>3, <1>10

\* What holds at zero and passes on by one step holds at n.
LEMMA StepByStep ==
    ASSUME NEW n \in Nat, NEW S, 0 \in S, \A k \in 1 .. n : k - 1 \in S => k \in S
    PROVE  n \in S
<1> DEFINE T == {k \in 0 .. n : k \notin S}
<1>1. ASSUME T # {} PROVE FALSE
  <2>0. T \subseteq Nat
    OBVIOUS
  <2>1. PICK k \in T : \A j \in T : k <= j
    BY <1>1, <2>0, LeastNatural
  <2>2. k \in 1 .. n
    BY <2>1
  <2>3. k - 1 \in 0 .. n /\ ~(k <= k - 1)
    BY <2>2
  <2>4. k - 1 \in S
    BY <2>1, <2>3
  <2> QED
    BY <2>1, <2>2, <2>4
<1> QED
  BY <1>1

\* A sum of n costs of at most m each is at most n * m.
LEMMA TotalAtMost ==
    ASSUME NEW n \in Nat, NEW m \in Nat, NEW costs \in [1 .. n -> Int],
           \A i \in 1 .. n : 0 <= costs[i] /\ costs[i] <= m
    PROVE  Total(costs) \in Nat /\ Total(costs) <= n * m
<1>1. PICK f \in [0 .. n -> Int] :
         f[0] = 0 /\ (\A k \in 1 .. n : f[k] = f[k - 1] + costs[k]) /\ Total(costs) = f[n]
  BY TotalRuns
<1> DEFINE S == {k \in 0 .. n : 0 <= f[k] /\ f[k] <= k * m}
<1>2. 0 \in S
  BY <1>1
<1>3. ASSUME NEW k \in 1 .. n, k - 1 \in S PROVE k \in S
  <2>1. f[k] = f[k - 1] + costs[k] /\ f[k - 1] \in Int /\ costs[k] \in Int /\ f[k] \in Int
    BY <1>1
  <2>2. 0 <= f[k - 1] /\ f[k - 1] <= (k - 1) * m /\ 0 <= costs[k] /\ costs[k] <= m
    BY <1>3
  <2>3. (k - 1) * m + m = k * m /\ (k - 1) * m \in Int /\ k * m \in Int
    OBVIOUS
  <2>4. 0 <= f[k] /\ f[k] <= k * m
    <3> DEFINE x == (k - 1) * m
               y == k * m
    <3>1. x \in Int /\ y \in Int /\ x + m = y /\ f[k - 1] <= x
      BY <2>2, <2>3
    <3> HIDE DEF x, y
    <3>2. 0 <= f[k] /\ f[k] <= y
      BY <2>1, <2>2, <3>1
    <3> QED
      BY <3>2 DEF y
  <2> QED
    BY <2>4
<1>4. n \in S
  BY <1>2, <1>3, StepByStep
<1> QED
  BY <1>1, <1>4

\* Where two costs stay together within a third at every step, so do their sums.
LEMMA TotalWithin ==
    ASSUME NEW n \in Nat, NEW a \in [1 .. n -> Int], NEW b \in [1 .. n -> Int],
           NEW c \in [1 .. n -> Int], \A i \in 1 .. n : a[i] + b[i] <= c[i]
    PROVE  Total(a) + Total(b) <= Total(c)
<1>1. PICK f \in [0 .. n -> Int] :
         f[0] = 0 /\ (\A k \in 1 .. n : f[k] = f[k - 1] + a[k]) /\ Total(a) = f[n]
  BY TotalRuns
<1>2. PICK g \in [0 .. n -> Int] :
         g[0] = 0 /\ (\A k \in 1 .. n : g[k] = g[k - 1] + b[k]) /\ Total(b) = g[n]
  BY TotalRuns
<1>3. PICK h \in [0 .. n -> Int] :
         h[0] = 0 /\ (\A k \in 1 .. n : h[k] = h[k - 1] + c[k]) /\ Total(c) = h[n]
  BY TotalRuns
<1> DEFINE S == {k \in 0 .. n : f[k] + g[k] <= h[k]}
<1>4. 0 \in S
  BY <1>1, <1>2, <1>3
<1>5. ASSUME NEW k \in 1 .. n, k - 1 \in S PROVE k \in S
  <2>0. k \in 0 .. n /\ k - 1 \in 0 .. n
    OBVIOUS
  <2>1. /\ f[k] \in Int /\ g[k] \in Int /\ h[k] \in Int
        /\ f[k - 1] \in Int /\ g[k - 1] \in Int /\ h[k - 1] \in Int
    BY <2>0, Zenon
  <2>2. a[k] \in Int /\ b[k] \in Int /\ c[k] \in Int
    BY Zenon
  <2>3. f[k] = f[k - 1] + a[k] /\ g[k] = g[k - 1] + b[k] /\ h[k] = h[k - 1] + c[k]
    BY <1>1, <1>2, <1>3, Zenon
  <2>4. f[k - 1] + g[k - 1] <= h[k - 1] /\ a[k] + b[k] <= c[k]
    BY <1>5
  <2>5. \A x, y, z, u, v, w \in Int : x + y <= z /\ u + v <= w => (x + u) + (y + v) <= z + w
    OBVIOUS
  <2>6. (f[k - 1] + a[k]) + (g[k - 1] + b[k]) <= h[k - 1] + c[k]
    BY <2>1, <2>2, <2>4, <2>5, Zenon
  <2>7. f[k] + g[k] <= h[k]
    BY <2>3, <2>6, Zenon
  <2> QED
    BY <2>0, <2>7
<1>6. n \in S
  BY <1>4, <1>5, StepByStep
<1> QED
  BY <1>1, <1>2, <1>3, <1>6

\* A sum of ints is an int.
LEMMA TotalInt ==
    ASSUME NEW n \in Nat, NEW costs \in [1 .. n -> Int]
    PROVE  Total(costs) \in Int
BY TotalRuns

\* An int that fits is what it says, and whatever comes round is an int.
LEMMA Int64Fits ==
    /\ \A n \in 0 .. IntMax : Int64(n) = n
    /\ \A n \in Int : Int64(n) \in Int
<1> DEFINE w == 2 * (IntMax + 1)
<1>1. w \in Nat /\ w > 0 /\ IntMax + 1 + IntMax < w /\ IntMax \in Nat
  BY IntAssumption
<1>2. \A n \in Int : Int64(n) = ((n + IntMax + 1) % w) - (IntMax + 1)
  BY DEF Int64
<1> HIDE DEF w
<1>3. \A n \in Int : n % w \in Int /\ (0 <= n /\ n < w => n % w = n)
  BY <1>1
<1>4. ASSUME NEW n \in Int PROVE n + IntMax + 1 \in Int
  BY <1>1
<1> QED
  BY <1>1, <1>2, <1>3, <1>4

-----------------------------------------------------------------------------
(* How the declarations hang together.                                     *)

\* A declaration as DeclareOperation keeps it: a draft, its version and its holder.
Signed(draft, version, by) ==
    [name |-> draft.name, version |-> version, by |-> by,
     action |-> draft.action, collection |-> draft.collection, indexed |-> draft.indexed,
     from |-> draft.from, to |-> draft.to, limit |-> draft.limit, scopes |-> draft.scopes,
     input |-> draft.input, key |-> draft.key, set |-> draft.set, steps |-> draft.steps]

Made == {Signed(d, v, h) : d \in Drafts, v \in 1 .. MaxOps, h \in {holder(c) : c \in Callers}}

Shaped(op) == /\ op.action \in Actions /\ op.collection \in Collections
              /\ op.limit \in Int /\ op.steps \in Seq(Steps)
              /\ \A i \in DOMAIN op.steps : Calls(op.steps[i]) \/ op.steps[i].collection \in Collections

Typed == ops \in Seq(Made) /\ Len(ops) <= MaxOps

\* A name and a version are one declaration.
Apart ==
    \A p, q \in DOMAIN ops : ops[p].name = ops[q].name /\ ops[p].version = ops[q].version => p = q

\* Versions are handed out one after the other.
Counted == \A p \in DOMAIN ops : ops[p].version <= Cardinality(Named(ops[p].name))

Pointed(step, q) == ops[q].name = step.operation /\ ops[q].version = step.version

\* What an operation calls is at or below position n, and asks for no scope of its own.
Linked(op, n) ==
    \A i \in Composing(op) :
        /\ op.steps[i].version > 0
        /\ \E q \in DOMAIN ops : /\ q <= n /\ Pointed(op.steps[i], q)
                                 /\ ops[q].scopes \subseteq op.scopes

\* A step of a batch that calls nothing reaches one document.
Plain(op) ==
    op.action = "batch" =>
        \A i \in DOMAIN op.steps : Calls(op.steps[i]) \/ op.steps[i].action \in Single

Structure == /\ Typed /\ Apart
             /\ \A p \in DOMAIN ops : Linked(ops[p], p - 1) /\ Plain(ops[p])

\* So a call leads to one declaration, the one that was there when it was declared.
Resolved ==
    \A op, n : Linked(op, n) =>
        \A i \in Composing(op) :
            LET q == Callee(op.steps[i]) IN
            /\ q \in DOMAIN ops /\ q <= n
            /\ Pointed(op.steps[i], q) /\ ops[q].scopes \subseteq op.scopes

\* A declaration kept has the fields of its draft.
LEMMA MadeParts ==
    \A op \in Made : Shaped(op) /\ op.name \in Names /\ op.version \in 1 .. MaxOps
<1> SUFFICES ASSUME NEW op \in Made
             PROVE  Shaped(op) /\ op.name \in Names /\ op.version \in 1 .. MaxOps
  OBVIOUS
<1>1. PICK d \in Drafts, v \in 1 .. MaxOps, h \in {holder(c) : c \in Callers} : op = Signed(d, v, h)
  BY DEF Made
<1>2. /\ op.name = d.name /\ op.version = v /\ op.action = d.action /\ op.limit = d.limit
      /\ op.collection = d.collection /\ op.steps = d.steps
  BY <1>1 DEF Signed
<1> QED
  BY <1>2, DraftsAssumption DEF Shaped, Calls

\* Positions are the numbers up to the length, and each holds a declaration.
LEMMA Positions ==
    Typed => /\ DOMAIN ops = 1 .. Len(ops) /\ Len(ops) \in Nat
             /\ \A p \in DOMAIN ops : ops[p] \in Made /\ Shaped(ops[p]) /\ p \in Nat
<1> SUFFICES ASSUME Typed
             PROVE  /\ DOMAIN ops = 1 .. Len(ops) /\ Len(ops) \in Nat
                    /\ \A p \in DOMAIN ops : ops[p] \in Made /\ Shaped(ops[p]) /\ p \in Nat
  OBVIOUS
<1>1. DOMAIN ops = 1 .. Len(ops) /\ Len(ops) \in Nat
  BY DEF Typed
<1>2. \A p \in DOMAIN ops : ops[p] \in Made /\ p \in Nat
  BY DEF Typed
<1> QED
  BY <1>1, <1>2, MadeParts

\* A step that names a version is led to the one declaration that has it.
LEMMA CalleeIs ==
    ASSUME Apart, NEW step, step.version > 0, NEW q \in DOMAIN ops, Pointed(step, q)
    PROVE  Callee(step) = q
<1>1. Callee(step) = CHOOSE p \in Named(step.operation) : ops[p].version = step.version
  BY DEF Callee, Operation
<1>2. q \in Named(step.operation) /\ ops[q].version = step.version
  BY DEF Named, Pointed
<1>3. ASSUME NEW p \in Named(step.operation), ops[p].version = step.version PROVE p = q
  BY <1>3 DEF Apart, Named, Pointed
<1> DEFINE c == CHOOSE p \in Named(step.operation) : ops[p].version = step.version
<1>4. c \in Named(step.operation) /\ ops[c].version = step.version
  BY <1>2
<1> QED
  BY <1>1, <1>3, <1>4

\* A call leads to one declaration.
LEMMA CallsResolve == Structure => Resolved
<1> SUFFICES ASSUME Structure, NEW op, NEW n, Linked(op, n), NEW i \in Composing(op)
             PROVE  LET q == Callee(op.steps[i]) IN
                    /\ q \in DOMAIN ops /\ q <= n
                    /\ Pointed(op.steps[i], q) /\ ops[q].scopes \subseteq op.scopes
  BY DEF Resolved
<1>1. PICK q \in DOMAIN ops : /\ q <= n /\ Pointed(op.steps[i], q) /\ op.steps[i].version > 0
                              /\ ops[q].scopes \subseteq op.scopes
  BY DEF Linked
<1>2. Callee(op.steps[i]) = q
  BY <1>1, CalleeIs DEF Structure
<1> QED
  BY <1>1, <1>2

-----------------------------------------------------------------------------
(* The walks over what an operation calls: each is well defined.           *)

\* What a batch adds up to depends on what its calls come to, and is an int when they are.
LEMMA SummedSame ==
    ASSUME NEW op, NEW g, NEW h, NEW own,
           \A i \in DOMAIN op.steps : Calls(op.steps[i]) => g[Callee(op.steps[i])] = h[Callee(op.steps[i])]
    PROVE  Summed(op, g, own) = Summed(op, h, own)
<1>1. [i \in DOMAIN op.steps |-> IF Calls(op.steps[i]) THEN g[Callee(op.steps[i])] ELSE own[i]]
      = [i \in DOMAIN op.steps |-> IF Calls(op.steps[i]) THEN h[Callee(op.steps[i])] ELSE own[i]]
  OBVIOUS
<1> QED
  BY <1>1, Zenon DEF Summed

\* The costs a batch adds up are ints when those of its calls and of its own steps are.
LEMMA SummedInt ==
    ASSUME NEW op, op.steps \in Seq(Steps), NEW g, NEW own,
           \A i \in DOMAIN op.steps : IF Calls(op.steps[i]) THEN g[Callee(op.steps[i])] \in Int
                                                           ELSE own[i] \in Int
    PROVE  Summed(op, g, own) \in Int
<1> DEFINE costs == [i \in DOMAIN op.steps |->
                       IF Calls(op.steps[i]) THEN g[Callee(op.steps[i])] ELSE own[i]]
           n == Len(op.steps)
<1>1. n \in Nat /\ DOMAIN op.steps = 1 .. n
  OBVIOUS
<1>2. costs \in [1 .. n -> Int]
  BY <1>1
<1>3. Summed(op, g, own) = Total(costs)
  BY Zenon DEF Summed
<1> HIDE DEF costs, n
<1> QED
  BY <1>1, <1>2, <1>3, TotalInt

\* Callees of the operation at position p are before p.
LEMMA CalleesBefore ==
    ASSUME Structure, NEW p \in DOMAIN ops, ops[p].action = "batch",
           NEW i \in DOMAIN ops[p].steps, Calls(ops[p].steps[i])
    PROVE  /\ Callee(ops[p].steps[i]) \in DOMAIN ops
           /\ Callee(ops[p].steps[i]) < p
<1>1. i \in Composing(ops[p]) /\ Linked(ops[p], p - 1)
  BY DEF Composing, Structure
<1>2. Callee(ops[p].steps[i]) \in DOMAIN ops /\ Callee(ops[p].steps[i]) <= p - 1
  <2>1. Resolved
    BY CallsResolve
  <2> QED
    BY <1>1, <2>1 DEF Resolved
<1>3. DOMAIN ops \subseteq Nat
  BY Positions DEF Structure
<1> QED
  BY <1>2, <1>3

CeilingsHold ==
    \A p \in DOMAIN ops : Ceilings[p] = CeilingIn(ops[p], Ceilings) /\ Ceilings[p] \in Int

\* Every declaration has a ceiling, the one its action or the sum of its steps gives.
LEMMA CeilingsRun == Structure => CeilingsHold
<1> SUFFICES ASSUME Structure PROVE CeilingsHold
  OBVIOUS
<1> DEFINE n == Len(ops)
<1>1. n \in Nat /\ DOMAIN ops = 1 .. n /\ \A p \in DOMAIN ops : Shaped(ops[p])
  BY Positions DEF Structure
<1> HIDE DEF n
<1>2. ASSUME NEW p \in 1 .. n, NEW g, NEW h, \A q \in 1 .. n : q < p => g[q] = h[q]
      PROVE  CeilingIn(ops[p], g) = CeilingIn(ops[p], h)
  <2>1. CASE ops[p].action = "batch"
    <3>1. \A i \in DOMAIN ops[p].steps :
             Calls(ops[p].steps[i]) => g[Callee(ops[p].steps[i])] = h[Callee(ops[p].steps[i])]
      BY <1>1, <1>2, <2>1, CalleesBefore
    <3>2. Summed(ops[p], g, [i \in DOMAIN ops[p].steps |-> 1])
          = Summed(ops[p], h, [i \in DOMAIN ops[p].steps |-> 1])
      BY <3>1, SummedSame
    <3> QED
      BY <2>1, <3>2 DEF CeilingIn, Single
  <2>2. CASE ops[p].action # "batch"
    BY <2>2, <1>1 DEF CeilingIn, Single, Shaped, Actions, Walks
  <2> QED
    BY <2>1, <2>2
<1>3. ASSUME NEW p \in 1 .. n, NEW g, \A q \in 1 .. n : q < p => g[q] \in Int
      PROVE  CeilingIn(ops[p], g) \in Int
  <2>1. CASE ops[p].action = "batch"
    <3>1. \A i \in DOMAIN ops[p].steps :
             IF Calls(ops[p].steps[i]) THEN g[Callee(ops[p].steps[i])] \in Int
             ELSE [j \in DOMAIN ops[p].steps |-> 1][i] \in Int
      BY <1>1, <1>3, <2>1, CalleesBefore
    <3>2. Summed(ops[p], g, [i \in DOMAIN ops[p].steps |-> 1]) \in Int
      BY <3>1, <1>1, SummedInt DEF Shaped
    <3> QED
      BY <2>1, <3>2, Int64Fits DEF CeilingIn, Single
  <2>2. CASE ops[p].action # "batch"
    BY <2>2, <1>1 DEF CeilingIn, Single, Shaped, Actions, Walks
  <2> QED
    BY <2>1, <2>2
<1> DEFINE D == [p \in 1 .. n |-> [g \in [1 .. n -> Int] |-> CeilingIn(ops[p], g)]]
<1>4. Backward(n, Int, D)
  <2>1. \A p \in 1 .. n : \A g \in [1 .. n -> Int] : CeilingIn(ops[p], g) \in Int
    BY <1>3
  <2>2. D \in [1 .. n -> [[1 .. n -> Int] -> Int]]
    BY <2>1
  <2>3. ASSUME NEW p \in 1 .. n, NEW g \in [1 .. n -> Int], NEW h \in [1 .. n -> Int],
               \A q \in 1 .. n : q < p => g[q] = h[q]
        PROVE  D[p][g] = D[p][h]
    <3>1. CeilingIn(ops[p], g) = CeilingIn(ops[p], h)
      BY <1>2, <2>3
    <3>2. D[p][g] = CeilingIn(ops[p], g) /\ D[p][h] = CeilingIn(ops[p], h)
      OBVIOUS
    <3> QED
      BY <3>1, <3>2, Zenon
  <2> HIDE DEF D
  <2> QED
    BY <2>2, <2>3 DEF Backward
<1>5. PICK f \in [1 .. n -> Int] : \A p \in 1 .. n : f[p] = CeilingIn(ops[p], f)
  <2>1. PICK f \in [1 .. n -> Int] : \A p \in 1 .. n : f[p] = D[p][f]
    <3> HIDE DEF D
    <3> QED
      BY <1>1, <1>4, Recursion
  <2> QED
    BY <2>1
<1>6. f = [p \in DOMAIN ops |-> CeilingIn(ops[p], f)]
  BY <1>1, <1>5
<1>7. Ceilings = [p \in DOMAIN ops |-> CeilingIn(ops[p], Ceilings)]
  <2> DEFINE c == CHOOSE x : x = [p \in DOMAIN ops |-> CeilingIn(ops[p], x)]
  <2>1. c = [p \in DOMAIN ops |-> CeilingIn(ops[p], c)]
    BY <1>6
  <2>2. Ceilings = c
    BY Zenon DEF Ceilings
  <2> QED
    BY <2>1, <2>2, Zenon
<1>8. \A p \in 1 .. n : Ceilings[p] = CeilingIn(ops[p], Ceilings)
  BY <1>1, <1>7
<1>9. \A p \in 1 .. n : Ceilings[p] \in Int
  <2> DEFINE S == {p \in 1 .. n : Ceilings[p] \in Int}
  <2>1. ASSUME NEW p \in 1 .. n, \A q \in 1 .. n : q < p => q \in S PROVE p \in S
    BY <2>1, <1>3, <1>8
  <2>2. \A p \in 1 .. n : p \in S
    <3> HIDE DEF S
    <3> QED
      BY <2>1, <1>1, FromBelow
  <2> QED
    BY <2>2
<1> QED
  BY <1>1, <1>8, <1>9 DEF CeilingsHold

SharesHold == \A p \in DOMAIN ops : shareable[p] = ShareIn(ops[p], shareable)

\* Every declaration is shared or not, as its steps and what they call are.
LEMMA SharesRun == Structure => SharesHold
<1> SUFFICES ASSUME Structure PROVE SharesHold
  OBVIOUS
<1> DEFINE n == Len(ops)
           V == BOOLEAN
<1>1. n \in Nat /\ DOMAIN ops = 1 .. n
  BY Positions DEF Structure
<1> HIDE DEF n
<1>2. ASSUME NEW p \in 1 .. n, NEW g, NEW h, \A q \in 1 .. n : q < p => g[q] = h[q]
      PROVE  ShareIn(ops[p], g) = ShareIn(ops[p], h)
  <2>1. CASE ops[p].action = "batch"
    <3>1. \A i \in DOMAIN ops[p].steps :
             Calls(ops[p].steps[i]) => g[Callee(ops[p].steps[i])] = h[Callee(ops[p].steps[i])]
      BY <1>1, <1>2, <2>1, CalleesBefore
    <3> QED
      BY <2>1, <3>1 DEF ShareIn
  <2>2. CASE ops[p].action # "batch"
    BY <2>2 DEF ShareIn
  <2> QED
    BY <2>1, <2>2
<1>3. \A p \in 1 .. n : \A g : ShareIn(ops[p], g) \in V
  BY DEF ShareIn
<1>0. PICK v : v \in V
  OBVIOUS
<1> HIDE DEF V
<1> DEFINE D == [p \in 1 .. n |-> [g \in [1 .. n -> V] |-> ShareIn(ops[p], g)]]
<1>4. Backward(n, V, D)
  <2>2. D \in [1 .. n -> [[1 .. n -> V] -> V]]
    BY <1>3
  <2>3. ASSUME NEW p \in 1 .. n, NEW g \in [1 .. n -> V], NEW h \in [1 .. n -> V],
               \A q \in 1 .. n : q < p => g[q] = h[q]
        PROVE  D[p][g] = D[p][h]
    <3>1. ShareIn(ops[p], g) = ShareIn(ops[p], h)
      BY <1>2, <2>3
    <3>2. D[p][g] = ShareIn(ops[p], g) /\ D[p][h] = ShareIn(ops[p], h)
      OBVIOUS
    <3> QED
      BY <3>1, <3>2, Zenon
  <2> HIDE DEF D
  <2> QED
    BY <2>2, <2>3 DEF Backward
<1>5. PICK f \in [1 .. n -> V] : \A p \in 1 .. n : f[p] = ShareIn(ops[p], f)
  <2>1. PICK f \in [1 .. n -> V] : \A p \in 1 .. n : f[p] = D[p][f]
    <3> HIDE DEF D
    <3> QED
      BY <1>0, <1>1, <1>4, Recursion
  <2> QED
    BY <2>1
<1>6. f = [p \in DOMAIN ops |-> ShareIn(ops[p], f)]
  BY <1>1, <1>5
<1>7. shareable = [p \in DOMAIN ops |-> ShareIn(ops[p], shareable)]
  <2> DEFINE c == CHOOSE x : x = [p \in DOMAIN ops |-> ShareIn(ops[p], x)]
  <2>1. c = [p \in DOMAIN ops |-> ShareIn(ops[p], c)]
    BY <1>6
  <2>2. shareable = c
    BY Zenon DEF shareable
  <2> QED
    BY <2>1, <2>2, Zenon
<1> QED
  BY <1>7 DEF SharesHold

EnvelopesHold == \A p \in DOMAIN ops : Envelopes[p] = EnvelopeIn(ops[p], Envelopes)

\* Every declaration has the set of collections its steps and what they call reach.
LEMMA EnvelopesRun == Structure => EnvelopesHold
<1> SUFFICES ASSUME Structure PROVE EnvelopesHold
  OBVIOUS
<1> DEFINE n == Len(ops)
           V == SUBSET Collections
<1>1. n \in Nat /\ DOMAIN ops = 1 .. n /\ \A p \in DOMAIN ops : Shaped(ops[p])
  BY Positions DEF Structure
<1> HIDE DEF n
<1>2. ASSUME NEW p \in 1 .. n, NEW g, NEW h, \A q \in 1 .. n : q < p => g[q] = h[q]
      PROVE  EnvelopeIn(ops[p], g) = EnvelopeIn(ops[p], h)
  <2>1. CASE ops[p].action = "batch"
    <3>1. \A i \in DOMAIN ops[p].steps :
             Calls(ops[p].steps[i]) => g[Callee(ops[p].steps[i])] = h[Callee(ops[p].steps[i])]
      BY <1>1, <1>2, <2>1, CalleesBefore
    <3> QED
      BY <2>1, <3>1 DEF EnvelopeIn
  <2>2. CASE ops[p].action # "batch"
    BY <2>2 DEF EnvelopeIn
  <2> QED
    BY <2>1, <2>2
<1>3. ASSUME NEW p \in 1 .. n, NEW g \in [1 .. n -> V] PROVE EnvelopeIn(ops[p], g) \in V
  <2>1. CASE ops[p].action = "batch"
    <3>1. \A i \in DOMAIN ops[p].steps :
             IF Calls(ops[p].steps[i]) THEN g[Callee(ops[p].steps[i])] \subseteq Collections
             ELSE ops[p].steps[i].collection \in Collections
      BY <1>1, <2>1, CalleesBefore DEF Shaped
    <3> QED
      BY <2>1, <3>1 DEF EnvelopeIn
  <2>2. CASE ops[p].action # "batch"
    BY <2>2, <1>1 DEF EnvelopeIn, Shaped
  <2> QED
    BY <2>1, <2>2
<1> DEFINE D == [p \in 1 .. n |-> [g \in [1 .. n -> V] |-> EnvelopeIn(ops[p], g)]]
<1>0. {} \in V
  OBVIOUS
<1> HIDE DEF V
<1>4. Backward(n, V, D)
  <2>2. D \in [1 .. n -> [[1 .. n -> V] -> V]]
    BY <1>3
  <2>3. ASSUME NEW p \in 1 .. n, NEW g \in [1 .. n -> V], NEW h \in [1 .. n -> V],
               \A q \in 1 .. n : q < p => g[q] = h[q]
        PROVE  D[p][g] = D[p][h]
    <3>1. EnvelopeIn(ops[p], g) = EnvelopeIn(ops[p], h)
      BY <1>2, <2>3
    <3>2. D[p][g] = EnvelopeIn(ops[p], g) /\ D[p][h] = EnvelopeIn(ops[p], h)
      OBVIOUS
    <3> QED
      BY <3>1, <3>2, Zenon
  <2> HIDE DEF D
  <2> QED
    BY <2>2, <2>3 DEF Backward
<1>5. PICK f \in [1 .. n -> V] : \A p \in 1 .. n : f[p] = EnvelopeIn(ops[p], f)
  <2>1. PICK f \in [1 .. n -> V] : \A p \in 1 .. n : f[p] = D[p][f]
    <3> HIDE DEF D
    <3> QED
      BY <1>0, <1>1, <1>4, Recursion
  <2> QED
    BY <2>1
<1>6. f = [p \in DOMAIN ops |-> EnvelopeIn(ops[p], f)]
  BY <1>1, <1>5
<1>7. Envelopes = [p \in DOMAIN ops |-> EnvelopeIn(ops[p], Envelopes)]
  <2> DEFINE c == CHOOSE x : x = [p \in DOMAIN ops |-> EnvelopeIn(ops[p], x)]
  <2>1. c = [p \in DOMAIN ops |-> EnvelopeIn(ops[p], c)]
    BY <1>6
  <2>2. Envelopes = c
    BY Zenon DEF Envelopes
  <2> QED
    BY <2>1, <2>2, Zenon
<1> QED
  BY <1>7 DEF EnvelopesHold

-----------------------------------------------------------------------------
(* What a run hands back and changes.                                      *)

\* What one document or one walk hands back and changes: ints, together one document, or
\* as many as the limit says.
LEMMA OneCounts ==
    ASSUME NEW held \in Holdings, NEW at, at.collection \in Collections,
           at.action \in Single \/ (at.action \in Actions /\ at.limit \in Int)
    PROVE  /\ RowsOfOne(at, held) \in Int /\ ChangedByOne(at, held) \in Int
           /\ at.action \in Single => RowsOfOne(at, held) + ChangedByOne(at, held) <= 1
           /\ at.action \in {"scan", "totals", "deleteRange"} =>
                RowsOfOne(at, held) + ChangedByOne(at, held) <= at.limit
           /\ at.action \in {"count", "hashRange"} =>
                RowsOfOne(at, held) + ChangedByOne(at, held) = 0
<1>1. held[at.collection] \in Int
  BY BoundsAssumption DEF Holdings
<1> QED
  BY <1>1 DEF RowsOfOne, ChangedByOne, Least, Single, Actions, Walks

RowsHold(held) ==
    \A p \in DOMAIN ops : /\ RowsBelow(held)[p] = RowsIn(ops[p], RowsBelow(held), held)
                          /\ RowsBelow(held)[p] \in Int

\* A run of every declaration hands back a number of rows, its own and its calls'.
LEMMA RowsRun == ASSUME Structure, NEW held \in Holdings PROVE RowsHold(held)
<1> DEFINE n == Len(ops)
<1>1. n \in Nat /\ DOMAIN ops = 1 .. n /\ \A p \in DOMAIN ops : Shaped(ops[p]) /\ Plain(ops[p])
  BY Positions DEF Structure
<1> HIDE DEF n
<1>2. ASSUME NEW p \in 1 .. n, NEW g, NEW h, \A q \in 1 .. n : q < p => g[q] = h[q]
      PROVE  RowsIn(ops[p], g, held) = RowsIn(ops[p], h, held)
  <2>1. CASE ops[p].action = "batch"
    <3>1. \A i \in DOMAIN ops[p].steps :
             Calls(ops[p].steps[i]) => g[Callee(ops[p].steps[i])] = h[Callee(ops[p].steps[i])]
      BY <1>1, <1>2, <2>1, CalleesBefore
    <3> DEFINE own == [i \in DOMAIN ops[p].steps |-> RowsOfOne(ops[p].steps[i], held)]
    <3>2. Summed(ops[p], g, own) = Summed(ops[p], h, own)
      BY <3>1, SummedSame
    <3> QED
      BY <2>1, <3>2 DEF RowsIn
  <2>2. CASE ops[p].action # "batch"
    BY <2>2 DEF RowsIn
  <2> QED
    BY <2>1, <2>2
<1>3. ASSUME NEW p \in 1 .. n, NEW g, \A q \in 1 .. n : q < p => g[q] \in Int
      PROVE  RowsIn(ops[p], g, held) \in Int
  <2>1. CASE ops[p].action = "batch"
    <3> DEFINE own == [i \in DOMAIN ops[p].steps |-> RowsOfOne(ops[p].steps[i], held)]
    <3>1. ASSUME NEW i \in DOMAIN ops[p].steps
          PROVE  IF Calls(ops[p].steps[i]) THEN g[Callee(ops[p].steps[i])] \in Int ELSE own[i] \in Int
      <4>1. CASE Calls(ops[p].steps[i])
        BY <1>1, <1>3, <2>1, <4>1, CalleesBefore
      <4>2. CASE ~Calls(ops[p].steps[i])
        <5>1. ops[p].steps[i].action \in Single /\ ops[p].steps[i].collection \in Collections
          BY <1>1, <2>1, <4>2 DEF Plain, Shaped
        <5>2. RowsOfOne(ops[p].steps[i], held) \in Int
          BY <5>1, OneCounts
        <5> QED
          BY <5>2, <4>2
      <4> QED
        BY <4>1, <4>2
    <3>2. Summed(ops[p], g, own) \in Int
      <4> HIDE DEF own
      <4>1. ops[p].steps \in Seq(Steps)
        BY <1>1 DEF Shaped
      <4> QED
        BY <3>1, <4>1, SummedInt
    <3> QED
      BY <2>1, <3>2 DEF RowsIn
  <2>2. CASE ops[p].action # "batch"
    <3>1. RowsOfOne(ops[p], held) \in Int
      BY <1>1, OneCounts DEF Shaped
    <3> QED
      BY <2>2, <3>1 DEF RowsIn
  <2> QED
    BY <2>1, <2>2
<1> DEFINE D == [p \in 1 .. n |-> [g \in [1 .. n -> Int] |-> RowsIn(ops[p], g, held)]]
<1>4. Backward(n, Int, D)
  <2>1. \A p \in 1 .. n : \A g \in [1 .. n -> Int] : RowsIn(ops[p], g, held) \in Int
    BY <1>3
  <2>2. D \in [1 .. n -> [[1 .. n -> Int] -> Int]]
    BY <2>1
  <2>3. ASSUME NEW p \in 1 .. n, NEW g \in [1 .. n -> Int], NEW h \in [1 .. n -> Int],
               \A q \in 1 .. n : q < p => g[q] = h[q]
        PROVE  D[p][g] = D[p][h]
    <3>1. RowsIn(ops[p], g, held) = RowsIn(ops[p], h, held)
      BY <1>2, <2>3
    <3>2. D[p][g] = RowsIn(ops[p], g, held) /\ D[p][h] = RowsIn(ops[p], h, held)
      OBVIOUS
    <3> QED
      BY <3>1, <3>2, Zenon
  <2> HIDE DEF D
  <2> QED
    BY <2>2, <2>3 DEF Backward
<1>5. PICK f \in [1 .. n -> Int] : \A p \in 1 .. n : f[p] = RowsIn(ops[p], f, held)
  <2>1. PICK f \in [1 .. n -> Int] : \A p \in 1 .. n : f[p] = D[p][f]
    <3> HIDE DEF D
    <3> QED
      BY <1>1, <1>4, Recursion
  <2> QED
    BY <2>1
<1>6. f = [p \in DOMAIN ops |-> RowsIn(ops[p], f, held)]
  BY <1>1, <1>5
<1> DEFINE c == CHOOSE x : x = [p \in DOMAIN ops |-> RowsIn(ops[p], x, held)]
<1>7. c = [p \in DOMAIN ops |-> RowsIn(ops[p], c, held)]
  BY <1>6
<1>8. RowsBelow(held) = c
  BY Zenon DEF RowsBelow
<1> HIDE DEF c
<1>9. \A p \in 1 .. n : c[p] = RowsIn(ops[p], c, held)
  BY <1>1, <1>7
<1>10. \A p \in 1 .. n : c[p] \in Int
  <2> DEFINE S == {p \in 1 .. n : c[p] \in Int}
  <2>1. ASSUME NEW p \in 1 .. n, \A q \in 1 .. n : q < p => q \in S PROVE p \in S
    BY <2>1, <1>3, <1>9
  <2>2. \A p \in 1 .. n : p \in S
    <3> HIDE DEF S
    <3> QED
      BY <2>1, <1>1, FromBelow
  <2> QED
    BY <2>2
<1> QED
  BY <1>1, <1>8, <1>9, <1>10 DEF RowsHold

ChangedHold(held) ==
    \A p \in DOMAIN ops : /\ ChangedBelow(held)[p] = ChangedIn(ops[p], ChangedBelow(held), held)
                          /\ ChangedBelow(held)[p] \in Int

\* A run of every declaration changes a number of documents, its own and its calls'.
LEMMA ChangedRun == ASSUME Structure, NEW held \in Holdings PROVE ChangedHold(held)
<1> DEFINE n == Len(ops)
<1>1. n \in Nat /\ DOMAIN ops = 1 .. n /\ \A p \in DOMAIN ops : Shaped(ops[p]) /\ Plain(ops[p])
  BY Positions DEF Structure
<1> HIDE DEF n
<1>2. ASSUME NEW p \in 1 .. n, NEW g, NEW h, \A q \in 1 .. n : q < p => g[q] = h[q]
      PROVE  ChangedIn(ops[p], g, held) = ChangedIn(ops[p], h, held)
  <2>1. CASE ops[p].action = "batch"
    <3>1. \A i \in DOMAIN ops[p].steps :
             Calls(ops[p].steps[i]) => g[Callee(ops[p].steps[i])] = h[Callee(ops[p].steps[i])]
      BY <1>1, <1>2, <2>1, CalleesBefore
    <3> DEFINE own == [i \in DOMAIN ops[p].steps |-> ChangedByOne(ops[p].steps[i], held)]
    <3>2. Summed(ops[p], g, own) = Summed(ops[p], h, own)
      BY <3>1, SummedSame
    <3> QED
      BY <2>1, <3>2 DEF ChangedIn
  <2>2. CASE ops[p].action # "batch"
    BY <2>2 DEF ChangedIn
  <2> QED
    BY <2>1, <2>2
<1>3. ASSUME NEW p \in 1 .. n, NEW g, \A q \in 1 .. n : q < p => g[q] \in Int
      PROVE  ChangedIn(ops[p], g, held) \in Int
  <2>1. CASE ops[p].action = "batch"
    <3> DEFINE own == [i \in DOMAIN ops[p].steps |-> ChangedByOne(ops[p].steps[i], held)]
    <3>1. ASSUME NEW i \in DOMAIN ops[p].steps
          PROVE  IF Calls(ops[p].steps[i]) THEN g[Callee(ops[p].steps[i])] \in Int ELSE own[i] \in Int
      <4>1. CASE Calls(ops[p].steps[i])
        BY <1>1, <1>3, <2>1, <4>1, CalleesBefore
      <4>2. CASE ~Calls(ops[p].steps[i])
        <5>1. ops[p].steps[i].action \in Single /\ ops[p].steps[i].collection \in Collections
          BY <1>1, <2>1, <4>2 DEF Plain, Shaped
        <5>2. ChangedByOne(ops[p].steps[i], held) \in Int
          BY <5>1, OneCounts
        <5> QED
          BY <5>2, <4>2
      <4> QED
        BY <4>1, <4>2
    <3>2. Summed(ops[p], g, own) \in Int
      <4> HIDE DEF own
      <4>1. ops[p].steps \in Seq(Steps)
        BY <1>1 DEF Shaped
      <4> QED
        BY <3>1, <4>1, SummedInt
    <3> QED
      BY <2>1, <3>2 DEF ChangedIn
  <2>2. CASE ops[p].action # "batch"
    <3>1. ChangedByOne(ops[p], held) \in Int
      BY <1>1, OneCounts DEF Shaped
    <3> QED
      BY <2>2, <3>1 DEF ChangedIn
  <2> QED
    BY <2>1, <2>2
<1> DEFINE D == [p \in 1 .. n |-> [g \in [1 .. n -> Int] |-> ChangedIn(ops[p], g, held)]]
<1>4. Backward(n, Int, D)
  <2>1. \A p \in 1 .. n : \A g \in [1 .. n -> Int] : ChangedIn(ops[p], g, held) \in Int
    BY <1>3
  <2>2. D \in [1 .. n -> [[1 .. n -> Int] -> Int]]
    BY <2>1
  <2>3. ASSUME NEW p \in 1 .. n, NEW g \in [1 .. n -> Int], NEW h \in [1 .. n -> Int],
               \A q \in 1 .. n : q < p => g[q] = h[q]
        PROVE  D[p][g] = D[p][h]
    <3>1. ChangedIn(ops[p], g, held) = ChangedIn(ops[p], h, held)
      BY <1>2, <2>3
    <3>2. D[p][g] = ChangedIn(ops[p], g, held) /\ D[p][h] = ChangedIn(ops[p], h, held)
      OBVIOUS
    <3> QED
      BY <3>1, <3>2, Zenon
  <2> HIDE DEF D
  <2> QED
    BY <2>2, <2>3 DEF Backward
<1>5. PICK f \in [1 .. n -> Int] : \A p \in 1 .. n : f[p] = ChangedIn(ops[p], f, held)
  <2>1. PICK f \in [1 .. n -> Int] : \A p \in 1 .. n : f[p] = D[p][f]
    <3> HIDE DEF D
    <3> QED
      BY <1>1, <1>4, Recursion
  <2> QED
    BY <2>1
<1>6. f = [p \in DOMAIN ops |-> ChangedIn(ops[p], f, held)]
  BY <1>1, <1>5
<1> DEFINE c == CHOOSE x : x = [p \in DOMAIN ops |-> ChangedIn(ops[p], x, held)]
<1>7. c = [p \in DOMAIN ops |-> ChangedIn(ops[p], c, held)]
  BY <1>6
<1>8. ChangedBelow(held) = c
  BY Zenon DEF ChangedBelow
<1> HIDE DEF c
<1>9. \A p \in 1 .. n : c[p] = ChangedIn(ops[p], c, held)
  BY <1>1, <1>7
<1>10. \A p \in 1 .. n : c[p] \in Int
  <2> DEFINE S == {p \in 1 .. n : c[p] \in Int}
  <2>1. ASSUME NEW p \in 1 .. n, \A q \in 1 .. n : q < p => q \in S PROVE p \in S
    BY <2>1, <1>3, <1>9
  <2>2. \A p \in 1 .. n : p \in S
    <3> HIDE DEF S
    <3> QED
      BY <2>1, <1>1, FromBelow
  <2> QED
    BY <2>2
<1> QED
  BY <1>1, <1>8, <1>9, <1>10 DEF ChangedHold

-----------------------------------------------------------------------------
(* What an operation reaches.                                              *)

\* What is called is declared, and asks for no scope of its own.
LEMMA CalledWithin ==
    ASSUME Structure, NEW op, NEW n, Linked(op, n)
    PROVE  \A q \in CalledBy(op) : q \in DOMAIN ops /\ q <= n /\ ops[q].scopes \subseteq op.scopes
<1>1. Resolved
  BY CallsResolve
<1> QED
  BY <1>1 DEF CalledBy, Resolved

\* What is reached is declared, holds everything called, and everything that calls.
LEMMA ReachedClosed ==
    ASSUME Structure, NEW op, NEW n, Linked(op, n)
    PROVE  /\ Reached(op) \subseteq DOMAIN ops /\ CalledBy(op) \subseteq Reached(op)
           /\ Closed(Reached(op))
<1>1. Reached(op) \subseteq DOMAIN ops
  BY DEF Reached
<1>2. CalledBy(op) \subseteq Reached(op)
  BY CalledWithin DEF Reached
<1>3. ASSUME NEW p \in Reached(op), NEW q \in CalledBy(ops[p]) PROVE q \in Reached(op)
  <2>1. p \in DOMAIN ops /\ Linked(ops[p], p - 1)
    BY <1>1 DEF Structure
  <2>2. q \in DOMAIN ops
    BY <2>1, CalledWithin
  <2>3. ASSUME NEW S \in SUBSET DOMAIN ops, CalledBy(op) \subseteq S, Closed(S) PROVE q \in S
    <3>1. p \in S
      BY <2>3 DEF Reached
    <3> QED
      BY <3>1, <2>3 DEF Closed
  <2> QED
    BY <2>2, <2>3 DEF Reached
<1> QED
  BY <1>1, <1>2, <1>3 DEF Closed

\* Nothing is reached but what has to be.
LEMMA ReachedLeast ==
    ASSUME NEW op, NEW S, S \subseteq DOMAIN ops, CalledBy(op) \subseteq S, Closed(S)
    PROVE  Reached(op) \subseteq S
BY DEF Reached

\* The scopes of what runs below an operation are among the operation's own.
LEMMA ScopesBelow ==
    ASSUME Structure, NEW op, NEW n, Linked(op, n)
    PROVE  \A part \in Parts(op) : part.scopes \subseteq op.scopes
<1> DEFINE S == {p \in DOMAIN ops : ops[p].scopes \subseteq op.scopes}
<1>1. CalledBy(op) \subseteq S
  BY CalledWithin
<1>2. ASSUME NEW p \in S, NEW q \in CalledBy(ops[p]) PROVE q \in S
  <2>1. Linked(ops[p], p - 1)
    BY DEF Structure
  <2>2. q \in DOMAIN ops /\ ops[q].scopes \subseteq ops[p].scopes
    BY <2>1, CalledWithin
  <2> QED
    BY <2>2
<1>3. Closed(S)
  BY <1>2 DEF Closed
<1>4. Reached(op) \subseteq S
  BY <1>1, <1>3, ReachedLeast
<1> QED
  BY <1>4 DEF Parts

\* What a declaration touches itself, its calls left out.
OwnTouches(part) ==
    IF part.action = "batch"
    THEN {[action |-> part.steps[i].action, collection |-> part.steps[i].collection] :
             i \in {j \in DOMAIN part.steps : ~Calls(part.steps[j])}}
    ELSE {[action |-> part.action, collection |-> part.collection]}

\* What an operation touches is what its parts do.
LEMMA TouchesOfParts ==
    ASSUME NEW op
    PROVE  /\ \A part \in Parts(op) : OwnTouches(part) \subseteq Touches(op)
           /\ \A at \in Touches(op) : \E part \in Parts(op) : at \in OwnTouches(part)
<1>1. Touches(op) = UNION {OwnTouches(part) : part \in Parts(op)}
  BY Zenon DEF Touches, OwnTouches
<1> QED
  BY <1>1

\* What a callee touches its caller touches.
LEMMA TouchesBelow ==
    ASSUME Structure, NEW op, NEW n, Linked(op, n), NEW q \in CalledBy(op)
    PROVE  Touches(ops[q]) \subseteq Touches(op)
<1>1. q \in Reached(op) /\ Closed(Reached(op)) /\ Reached(op) \subseteq DOMAIN ops
  BY ReachedClosed
<1>2. CalledBy(ops[q]) \subseteq Reached(op)
  BY <1>1 DEF Closed
<1>3. Reached(ops[q]) \subseteq Reached(op)
  BY <1>1, <1>2, ReachedLeast
<1>4. Parts(ops[q]) \subseteq Parts(op)
  BY <1>1, <1>3 DEF Parts
<1> QED
  BY <1>4, TouchesOfParts

Harmless(at) == ~Writes(at.action) /\ collections[at.collection].divided = "no"

\* An operation that is shared touches nothing itself that writes or is divided, and what
\* it calls is shared.
LEMMA SharedParts ==
    ASSUME Structure, NEW p \in DOMAIN ops
    PROVE  shareable[p] <=> /\ \A at \in OwnTouches(ops[p]) : Harmless(at)
                            /\ \A q \in CalledBy(ops[p]) : shareable[q]
<1>1. shareable[p] = ShareIn(ops[p], shareable)
  BY SharesRun DEF SharesHold
<1>2. CASE ops[p].action = "batch"
  <2>1. \A i \in DOMAIN ops[p].steps : ~Calls(ops[p].steps[i]) => ops[p].steps[i].action \in Single
    BY <1>2 DEF Structure, Plain
  <2>2. (\A at \in OwnTouches(ops[p]) : Harmless(at)) <=>
           \A i \in DOMAIN ops[p].steps : ~Calls(ops[p].steps[i]) =>
              /\ ops[p].steps[i].action = "get"
              /\ collections[ops[p].steps[i].collection].divided = "no"
    <3>1. \A a \in Single : ~Writes(a) <=> a = "get"
      BY DEF Writes, Single
    <3> DEFINE T(i) == [action |-> ops[p].steps[i].action, collection |-> ops[p].steps[i].collection]
    <3>2. \A at : at \in OwnTouches(ops[p]) <=>
             \E i \in DOMAIN ops[p].steps : ~Calls(ops[p].steps[i]) /\ at = T(i)
      BY <1>2 DEF OwnTouches
    <3>3. ASSUME NEW i \in DOMAIN ops[p].steps, ~Calls(ops[p].steps[i])
          PROVE  Harmless(T(i)) <=> /\ ops[p].steps[i].action = "get"
                                    /\ collections[ops[p].steps[i].collection].divided = "no"
      BY <3>1, <3>3, <2>1 DEF Harmless
    <3> HIDE DEF T
    <3> QED
      BY <3>2, <3>3, Zenon
  <2>3. (\A q \in CalledBy(ops[p]) : shareable[q]) <=>
           \A i \in DOMAIN ops[p].steps : Calls(ops[p].steps[i]) => shareable[Callee(ops[p].steps[i])]
    BY <1>2 DEF CalledBy, Composing
  <2>4. ShareIn(ops[p], shareable) <=>
           \A i \in DOMAIN ops[p].steps :
              /\ Calls(ops[p].steps[i]) => shareable[Callee(ops[p].steps[i])]
              /\ ~Calls(ops[p].steps[i]) => /\ ops[p].steps[i].action = "get"
                                            /\ collections[ops[p].steps[i].collection].divided = "no"
    BY <1>2 DEF ShareIn
  <2> QED
    BY <1>1, <2>2, <2>3, <2>4, Zenon
<1>3. CASE ops[p].action # "batch"
  <2>1. CalledBy(ops[p]) = {}
    BY <1>3 DEF CalledBy, Composing
  <2>2. (\A at \in OwnTouches(ops[p]) : Harmless(at)) <=>
           ~Writes(ops[p].action) /\ collections[ops[p].collection].divided = "no"
    <3> DEFINE t == [action |-> ops[p].action, collection |-> ops[p].collection]
    <3>1. OwnTouches(ops[p]) = {t}
      BY <1>3 DEF OwnTouches
    <3>2. Harmless(t) <=> ~Writes(ops[p].action) /\ collections[ops[p].collection].divided = "no"
      BY DEF Harmless
    <3> HIDE DEF t
    <3> QED
      BY <3>1, <3>2
  <2>3. ShareIn(ops[p], shareable) <=>
           ~Writes(ops[p].action) /\ collections[ops[p].collection].divided = "no"
    BY <1>3 DEF ShareIn
  <2> QED
    BY <1>1, <2>1, <2>2, <2>3, Zenon
<1> QED
  BY <1>2, <1>3

\* Sharing is exactly being harmless at every depth.
LEMMA SharesBelow == Structure => SharesExactly
<1> SUFFICES ASSUME Structure PROVE SharesExactly
  OBVIOUS
<1> DEFINE n == Len(ops)
<1>1. n \in Nat /\ DOMAIN ops = 1 .. n
  BY Positions DEF Structure
<1> HIDE DEF n
<1>2. ASSUME NEW p \in DOMAIN ops, shareable[p], NEW at \in Touches(ops[p]) PROVE Harmless(at)
  <2> DEFINE S == {q \in DOMAIN ops : shareable[q]}
  <2>1. \A q \in S : CalledBy(ops[q]) \subseteq S
    <3>1. ASSUME NEW q \in S, NEW r \in CalledBy(ops[q]) PROVE r \in S
      <4>1. Linked(ops[q], q - 1)
        BY DEF Structure
      <4>2. r \in DOMAIN ops
        BY <4>1, CalledWithin
      <4>3. shareable[r]
        BY SharedParts
      <4> QED
        BY <4>2, <4>3
    <3> QED
      BY <3>1
  <2>2. Closed(S) /\ CalledBy(ops[p]) \subseteq S
    BY <1>2, <2>1 DEF Closed
  <2>3. Reached(ops[p]) \subseteq S
    BY <2>2, ReachedLeast
  <2>4. PICK part \in Parts(ops[p]) : at \in OwnTouches(part)
    BY TouchesOfParts
  <2>5. PICK q \in S : part = ops[q]
    BY <1>2, <2>3, <2>4 DEF Parts
  <2> QED
    BY <2>4, <2>5, SharedParts
<1>3. \A p \in 1 .. n : (\A at \in Touches(ops[p]) : Harmless(at)) => shareable[p]
  <2> DEFINE S == {p \in 1 .. n : (\A at \in Touches(ops[p]) : Harmless(at)) => shareable[p]}
  <2>1. ASSUME NEW p \in 1 .. n, \A q \in 1 .. n : q < p => q \in S PROVE p \in S
    <3>1. SUFFICES ASSUME \A at \in Touches(ops[p]) : Harmless(at) PROVE shareable[p]
      OBVIOUS
    <3>2. Linked(ops[p], p - 1) /\ p \in DOMAIN ops /\ p \in Nat
      BY <1>1 DEF Structure
    <3>3. ops[p] \in Parts(ops[p])
      BY DEF Parts
    <3>4. \A at \in OwnTouches(ops[p]) : Harmless(at)
      BY <3>1, <3>3, TouchesOfParts
    <3>5. ASSUME NEW q \in CalledBy(ops[p]) PROVE shareable[q]
      <4>1. q \in 1 .. n /\ q <= p - 1
        BY <3>2, <1>1, CalledWithin
      <4>2. q \in S
        BY <2>1, <4>1
      <4>3. Touches(ops[q]) \subseteq Touches(ops[p])
        BY <3>2, TouchesBelow
      <4> QED
        BY <3>1, <4>2, <4>3
    <3> QED
      BY <3>2, <3>4, <3>5, SharedParts
  <2>2. \A p \in 1 .. n : p \in S
    <3> HIDE DEF S
    <3> QED
      BY <2>1, <1>1, FromBelow
  <2> QED
    BY <2>2
<1>4. ASSUME NEW p \in DOMAIN ops
      PROVE  shareable[p] <=> \A at \in Touches(ops[p]) : Harmless(at)
  BY <1>1, <1>2, <1>3
<1> QED
  BY <1>4 DEF SharesExactly, Harmless

\* The collections named in an envelope are all that is touched.
LEMMA EnvelopeCovers ==
    ASSUME Structure, NEW op, NEW n, Linked(op, n)
    PROVE  \A at \in Touches(op) : at.collection \in EnvelopeIn(op, Envelopes)
<1> DEFINE E == EnvelopeIn(op, Envelopes)
           S == {q \in DOMAIN ops : Envelopes[q] \subseteq E}
<1>1. \A q \in DOMAIN ops : Envelopes[q] = EnvelopeIn(ops[q], Envelopes)
  BY EnvelopesRun DEF EnvelopesHold
<1>2. ASSUME NEW o, NEW q \in CalledBy(o) PROVE Envelopes[q] \subseteq EnvelopeIn(o, Envelopes)
  <2>1. PICK i \in Composing(o) : q = Callee(o.steps[i])
    BY DEF CalledBy
  <2>2. i \in DOMAIN o.steps /\ o.action = "batch" /\ Calls(o.steps[i])
    BY DEF Composing
  <2> QED
    BY <2>1, <2>2 DEF EnvelopeIn
<1>3. ASSUME NEW o, NEW at \in OwnTouches(o) PROVE at.collection \in EnvelopeIn(o, Envelopes)
  <2>1. CASE o.action = "batch"
    <3>1. PICK i \in DOMAIN o.steps : /\ ~Calls(o.steps[i])
                                      /\ at = [action |-> o.steps[i].action, collection |-> o.steps[i].collection]
      BY <2>1 DEF OwnTouches
    <3>2. at.collection = o.steps[i].collection
      BY <3>1
    <3> QED
      BY <2>1, <3>1, <3>2 DEF EnvelopeIn
  <2>2. CASE o.action # "batch"
    <3>1. at = [action |-> o.action, collection |-> o.collection]
      BY <2>2 DEF OwnTouches
    <3>2. at.collection = o.collection
      BY <3>1
    <3> QED
      BY <2>2, <3>2 DEF EnvelopeIn
  <2> QED
    BY <2>1, <2>2
<1>4. CalledBy(op) \subseteq S
  BY <1>2, CalledWithin
<1>5. Closed(S)
  <2>1. ASSUME NEW p \in S, NEW q \in CalledBy(ops[p]) PROVE q \in S
    <3>1. Linked(ops[p], p - 1)
      BY DEF Structure
    <3>2. q \in DOMAIN ops
      BY <3>1, CalledWithin
    <3>3. Envelopes[q] \subseteq Envelopes[p]
      BY <1>1, <1>2
    <3> QED
      BY <3>2, <3>3
  <2> QED
    BY <2>1 DEF Closed
<1>6. Reached(op) \subseteq S
  BY <1>4, <1>5, ReachedLeast
<1>7. ASSUME NEW at \in Touches(op) PROVE at.collection \in E
  <2>1. PICK part \in Parts(op) : at \in OwnTouches(part)
    BY TouchesOfParts
  <2>2. CASE part = op
    BY <1>3, <2>1, <2>2
  <2>3. CASE part # op
    <3>1. PICK q \in S : part = ops[q]
      BY <1>6, <2>1, <2>3 DEF Parts
    <3>2. at.collection \in Envelopes[q]
      BY <1>1, <1>3, <2>1, <3>1
    <3> QED
      BY <3>2
  <2> QED
    BY <2>2, <2>3
<1> QED
  BY <1>7

-----------------------------------------------------------------------------
(* What a call costs.                                                      *)

\* An operation that calls others holds the sum of their ceilings to its limit, and a walk
\* has one.
Priced(op) ==
    /\ Composing(op) # {} => ceilingOf(op) <= op.limit
    /\ op.action \in Walks \cup {"totals"} => op.limit > 0

\* Limits and numbers of steps are such that no sum of ceilings comes round.
Modest ==
    \E m \in Nat \ {0} : \A d \in Drafts : /\ d.limit <= m /\ Len(d.steps) <= m
                                          /\ Len(d.steps) * m <= IntMax

\* A declaration is as modest as its draft.
LEMMA ModestMade ==
    ASSUME Modest
    PROVE  \E m \in Nat \ {0} : \A op \in Made : /\ op.limit <= m /\ Len(op.steps) <= m
                                                 /\ Len(op.steps) * m <= IntMax
<1>1. PICK m \in Nat \ {0} : \A d \in Drafts : /\ d.limit <= m /\ Len(d.steps) <= m
                                               /\ Len(d.steps) * m <= IntMax
  BY DEF Modest
<1>2. ASSUME NEW op \in Made
      PROVE  op.limit <= m /\ Len(op.steps) <= m /\ Len(op.steps) * m <= IntMax
  <2>1. PICK d \in Drafts, v \in 1 .. MaxOps, h \in {holder(c) : c \in Callers} : op = Signed(d, v, h)
    BY DEF Made
  <2>2. op.limit = d.limit /\ op.steps = d.steps
    BY <2>1 DEF Signed
  <2> QED
    BY <1>1, <2>2
<1> QED
  BY <1>2

Counting(op, g, own) ==
    \A i \in DOMAIN op.steps : IF Calls(op.steps[i]) THEN g[Callee(op.steps[i])] \in Int
                                                     ELSE own[i] \in Int

\* costs is what the steps of a batch come to, one by one
AddUp(op, g, own, costs) ==
    /\ costs \in [1 .. Len(op.steps) -> Int]
    /\ Summed(op, g, own) = Total(costs)
    /\ \A i \in 1 .. Len(op.steps) : /\ Calls(op.steps[i]) => costs[i] = g[Callee(op.steps[i])]
                                     /\ ~Calls(op.steps[i]) => costs[i] = own[i]

\* The sum of a batch, as a sum over positions.
LEMMA SummedTotal ==
    ASSUME NEW op, op.steps \in Seq(Steps), NEW g, NEW own, Counting(op, g, own)
    PROVE  \E costs : AddUp(op, g, own, costs)
<1> DEFINE costs == [i \in DOMAIN op.steps |->
                       IF Calls(op.steps[i]) THEN g[Callee(op.steps[i])] ELSE own[i]]
<1>1. Len(op.steps) \in Nat /\ DOMAIN op.steps = 1 .. Len(op.steps)
  OBVIOUS
<1>2. costs \in [1 .. Len(op.steps) -> Int]
  BY <1>1 DEF Counting
<1>3. Summed(op, g, own) = Total(costs)
  BY Zenon DEF Summed
<1>4. \A i \in 1 .. Len(op.steps) : /\ Calls(op.steps[i]) => costs[i] = g[Callee(op.steps[i])]
                                    /\ ~Calls(op.steps[i]) => costs[i] = own[i]
  BY <1>1
<1> HIDE DEF costs
<1>5. AddUp(op, g, own, costs)
  BY <1>2, <1>3, <1>4 DEF AddUp
<1> QED
  BY <1>5

\* Of modest declarations, a ceiling is the sum it is meant to be.
LEMMA CeilingsFit ==
    ASSUME Structure, \A p \in DOMAIN ops : Priced(ops[p]), Modest
    PROVE  \A p \in DOMAIN ops : ops[p].action = "batch" =>
              Ceilings[p] = Summed(ops[p], Ceilings, [i \in DOMAIN ops[p].steps |-> 1])
<1> DEFINE n == Len(ops)
<1>1. n \in Nat /\ DOMAIN ops = 1 .. n /\ \A p \in DOMAIN ops : ops[p] \in Made /\ Shaped(ops[p])
  BY Positions DEF Structure
<1> HIDE DEF n
<1>2. PICK m \in Nat \ {0} : \A op \in Made : /\ op.limit <= m /\ Len(op.steps) <= m
                                              /\ Len(op.steps) * m <= IntMax
  BY ModestMade
<1>3. \A p \in DOMAIN ops : Ceilings[p] = CeilingIn(ops[p], Ceilings) /\ Ceilings[p] \in Int
  BY CeilingsRun DEF CeilingsHold
<1> DEFINE Fits1(p) == ops[p].action = "batch" =>
              Ceilings[p] = Summed(ops[p], Ceilings, [i \in DOMAIN ops[p].steps |-> 1])
           S == {p \in 1 .. n : 0 <= Ceilings[p] /\ Ceilings[p] <= m /\ Fits1(p)}
<1>4. ASSUME NEW p \in 1 .. n, \A q \in 1 .. n : q < p => q \in S PROVE p \in S
  <2>0. /\ ops[p].limit <= m /\ Len(ops[p].steps) <= m /\ Len(ops[p].steps) * m <= IntMax
        /\ ops[p].limit \in Int /\ ops[p].steps \in Seq(Steps) /\ ops[p].action \in Actions
    BY <1>1, <1>2 DEF Shaped
  <2>1. CASE ops[p].action = "batch"
    <3> DEFINE own == [i \in DOMAIN ops[p].steps |-> 1]
               k == Len(ops[p].steps)
    <3>1. k \in Nat /\ DOMAIN ops[p].steps = 1 .. k
      BY <2>0
    <3>2. \A i \in 1 .. k : Calls(ops[p].steps[i]) =>
             /\ Ceilings[Callee(ops[p].steps[i])] \in Int
             /\ 0 <= Ceilings[Callee(ops[p].steps[i])] /\ Ceilings[Callee(ops[p].steps[i])] <= m
      BY <1>1, <1>3, <1>4, <2>1, <3>1, CalleesBefore
    <3>3. \A i \in 1 .. k : own[i] = 1
      BY <3>1
    <3> HIDE DEF own
    <3>a. PICK costs : AddUp(ops[p], Ceilings, own, costs)
      <4>1. Counting(ops[p], Ceilings, own)
        BY <3>1, <3>2, <3>3 DEF Counting
      <4>2. ops[p].steps \in Seq(Steps)
        BY <2>0
      <4> QED
        BY <4>1, <4>2, SummedTotal
    <3>4. /\ costs \in [1 .. k -> Int] /\ Summed(ops[p], Ceilings, own) = Total(costs)
          /\ \A i \in 1 .. k : /\ Calls(ops[p].steps[i]) => costs[i] = Ceilings[Callee(ops[p].steps[i])]
                               /\ ~Calls(ops[p].steps[i]) => costs[i] = own[i]
      BY <3>a DEF AddUp
    <3>5. \A i \in 1 .. k : 0 <= costs[i] /\ costs[i] <= m
      BY <3>2, <3>3, <3>4
    <3>6. Total(costs) \in Nat /\ Total(costs) <= k * m
      <4> HIDE DEF k
      <4> QED
        BY <3>1, <3>4, <3>5, TotalAtMost
    <3>7. Total(costs) \in 0 .. IntMax
      <4>1. k * m <= IntMax /\ k * m \in Int /\ IntMax \in Int
        BY <2>0, <3>1, IntAssumption
      <4> DEFINE x == k * m
      <4> HIDE DEF x
      <4>2. Total(costs) <= x /\ x <= IntMax /\ x \in Int
        BY <3>6, <4>1 DEF x
      <4> QED
        BY <3>6, <4>1, <4>2
    <3>8. Ceilings[p] = Total(costs)
      <4>1. Ceilings[p] = Int64(Summed(ops[p], Ceilings, own))
        BY <1>1, <1>3, <2>1 DEF CeilingIn, Single, own
      <4> QED
        BY <3>4, <3>7, <4>1, Int64Fits
    <3>9. Total(costs) <= m
      <4>1. CASE Composing(ops[p]) # {}
        <5>1. ceilingOf(ops[p]) <= ops[p].limit
          BY <1>1, <4>1 DEF Priced
        <5>2. Ceilings[p] <= ops[p].limit
          BY <1>1, <1>3, <5>1 DEF ceilingOf
        <5> QED
          BY <5>2, <2>0, <3>6, <3>8
      <4>2. CASE Composing(ops[p]) = {}
        <5>1. \A i \in 1 .. k : costs[i] = 1
          BY <2>1, <3>1, <3>3, <3>4, <4>2 DEF Composing
        <5>2. Total(costs) <= k * 1
          <6>1. \A i \in 1 .. k : 0 <= costs[i] /\ costs[i] <= 1
            BY <5>1
          <6> HIDE DEF k
          <6> QED
            BY <6>1, <3>1, <3>4, TotalAtMost
        <5> QED
          BY <5>2, <3>1, <2>0, <3>6
      <4> QED
        BY <4>1, <4>2
    <3>10. Fits1(p)
      BY <3>4, <3>8 DEF own
    <3>11. 0 <= Ceilings[p] /\ Ceilings[p] <= m
      BY <3>6, <3>8, <3>9
    <3> QED
      BY <3>10, <3>11
  <2>2. CASE ops[p].action # "batch"
    <3>1. Ceilings[p] = 1 \/ (Ceilings[p] = ops[p].limit /\ ops[p].limit > 0)
      <4>1. Ceilings[p] = CeilingIn(ops[p], Ceilings) /\ Priced(ops[p])
        BY <1>1, <1>3
      <4> QED
        BY <4>1, <2>0, <2>2 DEF CeilingIn, Priced, Single, Walks, Actions
    <3> QED
      BY <2>0, <2>2, <3>1
  <2> QED
    BY <2>1, <2>2
<1>5. \A p \in 1 .. n : p \in S
  <2> HIDE DEF S
  <2> QED
    BY <1>1, <1>4, FromBelow
<1> QED
  BY <1>1, <1>5

\* What a run hands back and changes is together within the ceiling of its declaration.
LEMMA RowsUnderCeiling ==
    ASSUME Structure, \A p \in DOMAIN ops : Priced(ops[p]), Modest, NEW held \in Holdings
    PROVE  \A p \in DOMAIN ops : RowsBelow(held)[p] + ChangedBelow(held)[p] <= Ceilings[p]
<1> DEFINE n == Len(ops)
           R == RowsBelow(held)
           C == ChangedBelow(held)
<1>1. /\ n \in Nat /\ DOMAIN ops = 1 .. n
      /\ \A p \in DOMAIN ops : Shaped(ops[p]) /\ Plain(ops[p])
  BY Positions DEF Structure
<1> HIDE DEF n
<1>2. \A p \in DOMAIN ops : R[p] = RowsIn(ops[p], R, held) /\ R[p] \in Int
  BY RowsRun DEF RowsHold
<1>3. \A p \in DOMAIN ops : C[p] = ChangedIn(ops[p], C, held) /\ C[p] \in Int
  BY ChangedRun DEF ChangedHold
<1>4. \A p \in DOMAIN ops : Ceilings[p] = CeilingIn(ops[p], Ceilings) /\ Ceilings[p] \in Int
  BY CeilingsRun DEF CeilingsHold
<1> HIDE DEF R, C
<1> DEFINE S == {p \in 1 .. n : R[p] + C[p] <= Ceilings[p]}
<1>5. ASSUME NEW p \in 1 .. n, \A q \in 1 .. n : q < p => q \in S PROVE p \in S
  <2>1. CASE ops[p].action = "batch"
    <3> DEFINE k == Len(ops[p].steps)
               ownR == [i \in DOMAIN ops[p].steps |-> RowsOfOne(ops[p].steps[i], held)]
               ownC == [i \in DOMAIN ops[p].steps |-> ChangedByOne(ops[p].steps[i], held)]
               ones == [i \in DOMAIN ops[p].steps |-> 1]
    <3>1. /\ ops[p].steps \in Seq(Steps) /\ k \in Nat /\ DOMAIN ops[p].steps = 1 .. k
      BY <1>1 DEF Shaped
    <3>2. R[p] = Summed(ops[p], R, ownR)
      BY <1>1, <1>2, <2>1 DEF RowsIn
    <3>3. C[p] = Summed(ops[p], C, ownC)
      BY <1>1, <1>3, <2>1 DEF ChangedIn
    <3>4. Ceilings[p] = Summed(ops[p], Ceilings, ones)
      BY <1>1, <2>1, CeilingsFit
    <3>5. ASSUME NEW i \in 1 .. k, ~Calls(ops[p].steps[i])
          PROVE  ownR[i] \in Int /\ ownC[i] \in Int /\ ones[i] = 1 /\ ownR[i] + ownC[i] <= 1
      <4>1. ops[p].steps[i].action \in Single /\ ops[p].steps[i].collection \in Collections
        BY <1>1, <2>1, <3>1, <3>5 DEF Plain, Shaped
      <4>2. /\ ownR[i] = RowsOfOne(ops[p].steps[i], held) /\ ones[i] = 1
            /\ ownC[i] = ChangedByOne(ops[p].steps[i], held)
        BY <3>1
      <4> HIDE DEF ownR, ownC, ones
      <4> QED
        BY <4>1, <4>2, OneCounts
    <3> HIDE DEF ownR, ownC, ones
    <3>6. ASSUME NEW i \in 1 .. k, Calls(ops[p].steps[i])
          PROVE  LET q == Callee(ops[p].steps[i]) IN
                 R[q] \in Int /\ C[q] \in Int /\ Ceilings[q] \in Int /\ R[q] + C[q] <= Ceilings[q]
      <4>1. Callee(ops[p].steps[i]) \in 1 .. n /\ Callee(ops[p].steps[i]) < p
        BY <1>1, <2>1, <3>1, <3>6, CalleesBefore
      <4> QED
        BY <4>1, <1>1, <1>2, <1>3, <1>4, <1>5
    <3>7. /\ Counting(ops[p], R, ownR) /\ Counting(ops[p], C, ownC)
          /\ Counting(ops[p], Ceilings, ones)
      BY <3>1, <3>5, <3>6 DEF Counting
    <3>8. PICK a : AddUp(ops[p], R, ownR, a)
      BY <3>1, <3>7, SummedTotal
    <3>9. PICK b : AddUp(ops[p], C, ownC, b)
      BY <3>1, <3>7, SummedTotal
    <3>10. PICK c : AddUp(ops[p], Ceilings, ones, c)
      BY <3>1, <3>7, SummedTotal
    <3>11. a \in [1 .. k -> Int] /\ b \in [1 .. k -> Int] /\ c \in [1 .. k -> Int]
      BY <3>8, <3>9, <3>10 DEF AddUp
    <3>12. ASSUME NEW i \in 1 .. k PROVE a[i] + b[i] <= c[i]
      <4>1. CASE Calls(ops[p].steps[i])
        <5> DEFINE q == Callee(ops[p].steps[i])
        <5>1. a[i] = R[q] /\ b[i] = C[q] /\ c[i] = Ceilings[q]
          BY <4>1, <3>8, <3>9, <3>10 DEF AddUp
        <5>2. R[q] + C[q] <= Ceilings[q]
          BY <4>1, <3>6
        <5> HIDE DEF q
        <5> QED
          BY <5>1, <5>2, Zenon
      <4>2. CASE ~Calls(ops[p].steps[i])
        <5>1. a[i] = ownR[i] /\ b[i] = ownC[i] /\ c[i] = ones[i]
          BY <4>2, <3>8, <3>9, <3>10 DEF AddUp
        <5>2. ownR[i] + ownC[i] <= ones[i]
          BY <4>2, <3>5
        <5> QED
          BY <5>1, <5>2, Zenon
      <4> QED
        BY <4>1, <4>2
    <3>13. Total(a) + Total(b) <= Total(c)
      <4> HIDE DEF k
      <4> QED
        BY <3>1, <3>11, <3>12, TotalWithin
    <3>14. R[p] = Total(a) /\ C[p] = Total(b) /\ Ceilings[p] = Total(c)
      BY <3>2, <3>3, <3>4, <3>8, <3>9, <3>10 DEF AddUp
    <3> QED
      BY <3>13, <3>14
  <2>2. CASE ops[p].action # "batch"
    <3>1. /\ ops[p].collection \in Collections /\ ops[p].limit \in Int
          /\ ops[p].action \in Actions
      BY <1>1 DEF Shaped
    <3>2. R[p] = RowsOfOne(ops[p], held) /\ C[p] = ChangedByOne(ops[p], held)
      BY <1>1, <1>2, <1>3, <2>2 DEF RowsIn, ChangedIn
    <3>3. /\ ops[p].action \in Single => Ceilings[p] = 1
          /\ ops[p].action \in {"scan", "totals", "deleteRange"} => Ceilings[p] = ops[p].limit
          /\ ops[p].action \in {"count", "hashRange"} => Ceilings[p] = 1
      BY <1>1, <1>4 DEF CeilingIn, Single
    <3>4. R[p] + C[p] <= Ceilings[p]
      BY <3>1, <3>2, <3>3, <2>2, OneCounts DEF Actions, Walks
    <3> QED
      BY <3>4
  <2> QED
    BY <2>1, <2>2
<1>6. \A p \in 1 .. n : p \in S
  <2> HIDE DEF S
  <2> QED
    BY <1>1, <1>5, FromBelow
<1> QED
  BY <1>1, <1>6 DEF R, C

-----------------------------------------------------------------------------
(* A declaration is never changed, and neither is what it comes to.        *)

\* What was declared is there, and it is what it was.
Grows == \A p \in DOMAIN ops : p \in DOMAIN ops' /\ ops'[p] = ops[p]

\* A step that names a version is led to the same declaration afterwards.
LEMMA CalleeStays ==
    ASSUME Structure, Apart', Grows, NEW op, NEW n, Linked(op, n), NEW i \in Composing(op)
    PROVE  Callee(op.steps[i])' = Callee(op.steps[i])
<1> DEFINE q == Callee(op.steps[i])
<1>1. q \in DOMAIN ops /\ Pointed(op.steps[i], q) /\ op.steps[i].version > 0
  <2>1. Resolved
    BY CallsResolve
  <2> QED
    BY <2>1 DEF Resolved, Linked
<1> HIDE DEF q
<1>2. PICK step : step = op.steps[i]
  OBVIOUS
<1>3. PICK r : r = q
  OBVIOUS
<1>4. /\ r \in DOMAIN ops' /\ ops'[r].name = step.operation /\ ops'[r].version = step.version
      /\ step.version > 0
  BY <1>1, <1>2, <1>3 DEF Grows, Pointed
<1>5. Callee(step)' = CHOOSE p \in {x \in DOMAIN ops' : ops'[x].name = step.operation} :
                         ops'[p].version = step.version
  BY <1>4 DEF Callee, Operation, Named
<1> DEFINE N == {x \in DOMAIN ops' : ops'[x].name = step.operation}
           c == CHOOSE p \in N : ops'[p].version = step.version
<1>6. r \in N
  BY <1>4
<1>7. c \in N /\ ops'[c].version = step.version
  BY <1>4, <1>6
<1>8. c = r
  BY <1>4, <1>7 DEF Apart
<1>9. Callee(step)' = r
  BY <1>5, <1>8, Zenon
<1> QED
  BY <1>2, <1>3, <1>9 DEF q

\* An operation calls what it called.
LEMMA LinkedStays ==
    ASSUME Grows, NEW op, NEW n, Linked(op, n)
    PROVE  Linked(op, n)'
BY DEF Grows, Linked, Pointed

\* A batch whose calls come to the same comes to the same.
LEMMA CeilingInStays ==
    ASSUME Structure, Apart', Grows, NEW op, NEW n, Linked(op, n), op.action \in Actions,
           \A q \in CalledBy(op) : Ceilings'[q] = Ceilings[q]
    PROVE  CeilingIn(op, Ceilings)' = CeilingIn(op, Ceilings)
<1>1. CASE op.action = "batch"
  <2>1. ASSUME NEW i \in DOMAIN op.steps, Calls(op.steps[i])
        PROVE  Ceilings'[Callee(op.steps[i])'] = Ceilings[Callee(op.steps[i])]
    <3>1. i \in Composing(op)
      BY <1>1, <2>1 DEF Composing
    <3>2. Callee(op.steps[i])' = Callee(op.steps[i])
      BY <3>1, CalleeStays
    <3>3. Callee(op.steps[i]) \in CalledBy(op)
      BY <3>1 DEF CalledBy
    <3> QED
      BY <3>2, <3>3
  <2> DEFINE ones == [i \in DOMAIN op.steps |-> 1]
             new == [i \in DOMAIN op.steps |->
                       IF Calls(op.steps[i]) THEN Ceilings'[Callee(op.steps[i])'] ELSE ones[i]]
             old == [i \in DOMAIN op.steps |->
                       IF Calls(op.steps[i]) THEN Ceilings[Callee(op.steps[i])] ELSE ones[i]]
  <2>2. new = old
    BY <2>1
  <2>3. Summed(op, Ceilings, ones)' = Total(new) /\ Summed(op, Ceilings, ones) = Total(old)
    BY Zenon DEF Summed
  <2>4. Summed(op, Ceilings, ones)' = Summed(op, Ceilings, ones)
    BY <2>2, <2>3, Zenon
  <2>5. /\ CeilingIn(op, Ceilings)' = Int64(Summed(op, Ceilings, ones)')
        /\ CeilingIn(op, Ceilings) = Int64(Summed(op, Ceilings, ones))
    BY <1>1 DEF CeilingIn, Single
  <2> QED
    BY <2>4, <2>5, Zenon
<1>2. CASE op.action # "batch"
  BY <1>2 DEF CeilingIn, Single, Walks, Actions
<1> QED
  BY <1>1, <1>2

\* The ceiling of a declaration, with the declaration named.
CeilingsRead ==
    \A p \in DOMAIN ops : \A op : op = ops[p] => Ceilings[p] = CeilingIn(op, Ceilings)

\* Every declaration has its ceiling.
LEMMA CeilingsReadable == Structure => CeilingsRead
<1>1. CeilingsHold => CeilingsRead
  BY Zenon DEF CeilingsHold, CeilingsRead
<1> QED
  BY <1>1, CeilingsRun

\* What a declaration costs stays what it was when others are declared.
LEMMA CeilingsStay ==
    ASSUME Structure, Structure', Grows
    PROVE  \A p \in DOMAIN ops : Ceilings'[p] = Ceilings[p]
<1> DEFINE n == Len(ops)
<1>1. n \in Nat /\ DOMAIN ops = 1 .. n /\ \A p \in DOMAIN ops : Shaped(ops[p]) /\ p \in Nat
  BY Positions DEF Structure
<1> HIDE DEF n
<1>2. CeilingsRead
  BY CeilingsReadable
<1>3. CeilingsRead'
  <2>1. Structure' => CeilingsRead'
    BY CeilingsReadable, PTL
  <2> QED
    BY <2>1
<1>4. Apart'
  BY DEF Structure
<1> DEFINE S == {p \in 1 .. n : Ceilings'[p] = Ceilings[p]}
<1>5. ASSUME NEW p \in 1 .. n, \A q \in 1 .. n : q < p => q \in S PROVE p \in S
  <2>1. PICK op : op = ops[p]
    OBVIOUS
  <2>2. /\ p \in DOMAIN ops /\ p \in DOMAIN ops' /\ op = ops'[p] /\ Linked(op, p - 1)
        /\ op.action \in Actions
    BY <1>1, <2>1 DEF Grows, Structure, Shaped
  <2>3. ASSUME NEW q \in CalledBy(op) PROVE Ceilings'[q] = Ceilings[q]
    <3>1. q \in 1 .. n /\ q <= p - 1
      BY <1>1, <2>2, CalledWithin
    <3>2. q < p
      BY <3>1
    <3> QED
      BY <3>1, <3>2, <1>5
  <2>4. CeilingIn(op, Ceilings)' = CeilingIn(op, Ceilings)
    BY <1>4, <2>2, <2>3, CeilingInStays
  <2>5. Ceilings[p] = CeilingIn(op, Ceilings)
    BY <1>2, <2>1, <2>2 DEF CeilingsRead
  <2>6. Ceilings'[p] = CeilingIn(op, Ceilings)'
    BY <1>3, <2>2 DEF CeilingsRead
  <2> QED
    BY <2>4, <2>5, <2>6
<1>6. \A p \in 1 .. n : p \in S
  <2> HIDE DEF S
  <2> QED
    BY <1>1, <1>5, FromBelow
<1> QED
  BY <1>1, <1>6

\* And so does what an operation made of them costs.
LEMMA CeilingStays ==
    ASSUME Structure, Structure', Grows, NEW op, NEW n, Linked(op, n), op.action \in Actions
    PROVE  ceilingOf(op)' = ceilingOf(op)
<1>1. \A q \in CalledBy(op) : Ceilings'[q] = Ceilings[q]
  BY CeilingsStay, CalledWithin
<1>2. CeilingIn(op, Ceilings)' = CeilingIn(op, Ceilings)
  BY <1>1, CeilingInStays DEF Structure
<1> QED
  BY <1>2 DEF ceilingOf

-----------------------------------------------------------------------------
(* The inductive invariant.                                                *)

\* What was answered was asked of an operation whose calls are declared, by somebody who
\* presented its scopes, and stays within what its envelope says.
Answering ==
    answer.made =>
        /\ Linked(answer.op, Len(ops)) /\ answer.op.action \in Actions
        /\ answer.op.scopes \subseteq answer.scopes
        /\ Modest => /\ Composed(answer.op) => answer.rows + answer.changed <= answer.op.limit
                     /\ answer.rows + answer.changed <= envelopeOf(answer.op).limit

AllPriced == \A p \in DOMAIN ops : \A op \in {ops[p]} : Priced(op)

IInv == TypeOK /\ Structure /\ Counted /\ AllPriced /\ OneHolder /\ Answering

\* What is accepted calls what is there, and holds what it costs to its limit.
LEMMA Accepted ==
    ASSUME Structure, NEW op, op.action \in Actions, validateOperation(op)
    PROVE  Plain(op) /\ Linked(op, Len(ops)) /\ Priced(op)
<1>1. CASE op.action = "batch"
  <2>1. ValidBatch(op)
    BY <1>1 DEF validateOperation, Single, Walks
  <2>2. Plain(op)
    BY <2>1 DEF Plain, ValidBatch, ValidStep
  <2>3. ASSUME NEW i \in Composing(op)
        PROVE  /\ op.steps[i].version > 0
               /\ \E q \in DOMAIN ops : /\ q <= Len(ops) /\ Pointed(op.steps[i], q)
                                        /\ ops[q].scopes \subseteq op.scopes
    <3>1. ValidCall(op, i)
      BY <2>1 DEF ValidBatch, ValidStep, Composing
    <3>2. /\ op.steps[i].version > 0 /\ Declared(op.steps[i].operation, op.steps[i].version)
          /\ ops[Callee(op.steps[i])].scopes \subseteq op.scopes
      BY <3>1 DEF ValidCall
    <3>3. PICK q \in DOMAIN ops : Pointed(op.steps[i], q)
      BY <3>2 DEF Declared, Named, Pointed
    <3>4. Callee(op.steps[i]) = q
      BY <3>2, <3>3, CalleeIs DEF Structure
    <3>5. q <= Len(ops)
      BY Positions DEF Structure
    <3> QED
      BY <3>2, <3>3, <3>4, <3>5
  <2>4. Linked(op, Len(ops))
    BY <2>3 DEF Linked
  <2>5. Composing(op) # {} => ceilingOf(op) <= op.limit
    BY <2>1 DEF ValidBatch, Composing
  <2> QED
    BY <1>1, <2>2, <2>4, <2>5 DEF Priced, Walks
<1>2. CASE op.action # "batch"
  <2>1. Composing(op) = {}
    BY <1>2 DEF Composing
  <2>2. op.action \in Walks => ValidWalk(op)
    BY DEF validateOperation, Walks, Single
  <2>3. op.action = "totals" => ValidTotals(op)
    BY DEF validateOperation, Walks, Single
  <2>4. op.action \in Walks \cup {"totals"} => op.limit > 0
    BY <2>2, <2>3 DEF ValidWalk, ValidTotals
  <2> QED
    BY <1>2, <2>1, <2>4 DEF Plain, Linked, Priced
<1> QED
  BY <1>1, <1>2

\* A name that is declared has a newest version, and a version that is declared is found.
LEMMA OperationFound ==
    ASSUME Typed, NEW name, NEW version \in Nat, Named(name) # {},
           version > 0 => Declared(name, version)
    PROVE  Operation(name, version) \in DOMAIN ops
<1>1. CASE version > 0
  BY <1>1 DEF Operation, Declared, Named
<1>2. CASE ~(version > 0)
  <2> DEFINE T == {MaxOps - ops[p].version : p \in Named(name)}
  <2>1. \A p \in Named(name) : p \in DOMAIN ops /\ ops[p].version \in 1 .. MaxOps
    BY Positions, MadeParts DEF Named
  <2>2. T \subseteq Nat /\ T # {}
    BY <2>1, BoundsAssumption
  <2>3. PICK k \in T : \A j \in T : k <= j
    BY <2>2, LeastNatural
  <2>4. PICK p \in Named(name) : k = MaxOps - ops[p].version
    BY <2>3
  <2>5. \A q \in Named(name) : ops[q].version <= ops[p].version
    <3>1. ASSUME NEW q \in Named(name) PROVE ops[q].version <= ops[p].version
      <4>1. MaxOps - ops[p].version <= MaxOps - ops[q].version
        BY <2>3, <2>4
      <4>2. ops[p].version \in Int /\ ops[q].version \in Int /\ MaxOps \in Int
        BY <2>1, BoundsAssumption
      <4> QED
        BY <4>1, <4>2
    <3> QED
      BY <3>1
  <2>6. Operation(name, version) \in Named(name)
    BY <1>2, <2>4, <2>5 DEF Operation
  <2> QED
    BY <2>1, <2>6
<1> QED
  BY <1>1, <1>2

\* Operations with the same action, limit and steps cost the same.
LEMMA SameCost ==
    ASSUME NEW a, NEW b, a.action = b.action, a.limit = b.limit, a.steps = b.steps
    PROVE  ceilingOf(a) = ceilingOf(b) /\ Composing(a) = Composing(b)
<1>1. \A own : Summed(a, Ceilings, own) = Summed(b, Ceilings, own)
  BY Zenon DEF Summed
<1>2. CeilingIn(a, Ceilings) = CeilingIn(b, Ceilings)
  BY <1>1 DEF CeilingIn
<1> QED
  BY <1>2 DEF ceilingOf, Composing

\* What a declaration adds: one position, after the others.
LEMMA Declaring ==
    ASSUME IInv, NEW caller \in Callers, NEW draft \in Drafts, DeclareOperation(caller, draft)
    PROVE  /\ ops' \in Seq(Made) /\ Len(ops') = Len(ops) + 1 /\ Len(ops') <= MaxOps
           /\ DOMAIN ops' = 1 .. Len(ops) + 1 /\ Grows
           /\ LET new == ops'[Len(ops) + 1] IN
              /\ new.name = draft.name /\ new.by = holder(caller) /\ new.action = draft.action
              /\ new.limit = draft.limit /\ new.scopes = draft.scopes /\ new.steps = draft.steps
              /\ new.version = Cardinality(Named(draft.name)) + 1 /\ new \in Made
           /\ Cardinality(Named(draft.name)) \in Nat /\ IsFiniteSet(Named(draft.name))
<1> DEFINE n == Len(ops)
           v == Cardinality(Named(draft.name)) + 1
           new == Signed(draft, v, holder(caller))
<1>1. /\ ops \in Seq(Made) /\ n \in Nat /\ DOMAIN ops = 1 .. n
  BY Positions DEF IInv, Structure, Typed
<1>2. n < MaxOps /\ ops' = Append(ops, new)
  BY DEF DeclareOperation, Numbered, Signed
<1>3. IsFiniteSet(Named(draft.name)) /\ Cardinality(Named(draft.name)) \in Nat
      /\ Cardinality(Named(draft.name)) <= n
  <2>1. IsFiniteSet(1 .. n) /\ Cardinality(1 .. n) = n
    BY <1>1, FS_Interval
  <2>2. Named(draft.name) \subseteq 1 .. n
    BY <1>1 DEF Named
  <2>3. IsFiniteSet(Named(draft.name)) /\ Cardinality(Named(draft.name)) <= Cardinality(1 .. n)
    BY <2>1, <2>2, FS_Subset
  <2> QED
    BY <2>1, <2>3, FS_CardinalityType
<1>4. v \in 1 .. MaxOps
  BY <1>1, <1>2, <1>3, BoundsAssumption
<1>5. new \in Made
  BY <1>4 DEF Made
<1>6. /\ new.name = draft.name /\ new.by = holder(caller) /\ new.action = draft.action
      /\ new.limit = draft.limit /\ new.scopes = draft.scopes /\ new.steps = draft.steps
      /\ new.version = v
  BY DEF Signed
<1> HIDE DEF new
<1>7. /\ ops' \in Seq(Made) /\ Len(ops') = n + 1 /\ DOMAIN ops' = 1 .. n + 1 /\ ops'[n + 1] = new
      /\ \A p \in 1 .. n : ops'[p] = ops[p]
  BY <1>1, <1>2, <1>5
<1>8. Grows
  BY <1>1, <1>7 DEF Grows
<1>9. n + 1 <= MaxOps
  BY <1>1, <1>2, BoundsAssumption
<1> QED
  BY <1>3, <1>5, <1>6, <1>7, <1>8, <1>9

\* Declaring an operation keeps names and versions apart and counted.
LEMMA DeclaringNumbers ==
    ASSUME IInv, NEW caller \in Callers, NEW draft \in Drafts, DeclareOperation(caller, draft)
    PROVE  Typed' /\ Apart' /\ Counted'
<1> DEFINE n == Len(ops)
           x == draft.name
           c == Cardinality(Named(x))
<1>1. /\ ops' \in Seq(Made) /\ Len(ops') = n + 1 /\ Len(ops') <= MaxOps /\ DOMAIN ops' = 1 .. n + 1
      /\ \A p \in DOMAIN ops : ops'[p] = ops[p]
      /\ ops'[n + 1].name = x /\ ops'[n + 1].version = c + 1
      /\ c \in Nat /\ IsFiniteSet(Named(x))
  BY Declaring DEF Grows
<1>2. n \in Nat /\ DOMAIN ops = 1 .. n /\ \A p \in DOMAIN ops : ops[p].version \in Nat
  BY Positions, MadeParts DEF IInv, Structure
<1>3. \A p \in DOMAIN ops : ops[p].version <= Cardinality(Named(ops[p].name))
  BY DEF IInv, Counted
<1> HIDE DEF n
<1>4. Typed'
  BY <1>1 DEF Typed
<1>5. \A p \in 1 .. n : ops'[p].name = x => ops'[p].version < c + 1
  BY <1>1, <1>2, <1>3
<1>6. Apart'
  <2>1. SUFFICES ASSUME NEW p \in 1 .. n + 1, NEW q \in 1 .. n + 1,
                        ops'[p].name = ops'[q].name, ops'[p].version = ops'[q].version
                 PROVE  p = q
    BY <1>1 DEF Apart
  <2>2. CASE p \in 1 .. n /\ q \in 1 .. n
    BY <1>1, <1>2, <2>1, <2>2 DEF IInv, Structure, Apart
  <2>3. CASE p = n + 1 /\ q \in 1 .. n
    BY <1>1, <1>5, <2>1, <2>3
  <2>4. CASE q = n + 1 /\ p \in 1 .. n
    BY <1>1, <1>5, <2>1, <2>4
  <2> QED
    BY <1>2, <2>2, <2>3, <2>4
<1>7. Named(x)' = Named(x) \cup {n + 1} /\ n + 1 \notin Named(x)
  BY <1>1, <1>2 DEF Named
<1>8. Cardinality(Named(x)') = c + 1
  BY <1>1, <1>7, FS_AddElement
<1>9. \A y : y # x => Named(y)' = Named(y)
  BY <1>1, <1>2 DEF Named
<1>10. ASSUME NEW p \in 1 .. n + 1 PROVE ops'[p].version <= Cardinality(Named(ops[p].name)')
  <2>1. PICK y : y = ops'[p].name
    OBVIOUS
  <2>2. Named(ops[p].name)' = Named(y)'
    BY <2>1 DEF Named
  <2>3. CASE p = n + 1
    BY <1>1, <1>8, <2>1, <2>2, <2>3
  <2>4. CASE p \in 1 .. n /\ y = x
    <3>1. ops'[p].version < c + 1 /\ ops'[p].version \in Nat
      BY <1>1, <1>2, <1>5, <2>1, <2>4
    <3> QED
      BY <1>1, <1>8, <2>2, <2>4, <3>1
  <2>5. CASE p \in 1 .. n /\ y # x
    BY <1>1, <1>2, <1>3, <1>9, <2>1, <2>2, <2>5
  <2> QED
    BY <1>2, <2>3, <2>4, <2>5
<1>11. Counted'
  BY <1>1, <1>10 DEF Counted
<1> QED
  BY <1>4, <1>6, <1>11

\* Declaring an operation keeps the declarations hanging together.
LEMMA DeclaringStructure ==
    ASSUME IInv, NEW caller \in Callers, NEW draft \in Drafts, DeclareOperation(caller, draft)
    PROVE  Structure' /\ AllPriced'
<1> DEFINE n == Len(ops)
<1>0. Structure
  BY DEF IInv
<1>1. /\ DOMAIN ops' = 1 .. n + 1 /\ Grows
      /\ ops'[n + 1].action = draft.action /\ ops'[n + 1].limit = draft.limit
      /\ ops'[n + 1].scopes = draft.scopes /\ ops'[n + 1].steps = draft.steps
  BY Declaring
<1>2. n \in Nat /\ DOMAIN ops = 1 .. n /\ \A p \in DOMAIN ops : Shaped(ops[p])
  BY <1>0, Positions DEF Structure
<1>3. Plain(draft) /\ Linked(draft, n) /\ Priced(draft) /\ draft.action \in Actions
  BY <1>0, Accepted, DraftsAssumption DEF DeclareOperation
<1> HIDE DEF n
<1>4. PICK new : new = ops'[n + 1]
  OBVIOUS
<1>5. Plain(new) /\ Linked(new, n) /\ Priced(new) /\ new.action \in Actions
  <2>1. ceilingOf(new) = ceilingOf(draft) /\ Composing(new) = Composing(draft)
    BY <1>1, <1>4, SameCost
  <2> QED
    BY <1>1, <1>3, <1>4, <2>1 DEF Plain, Linked, Priced
<1>6. ASSUME NEW p \in 1 .. n + 1
      PROVE  \E op, m : /\ op = ops'[p] /\ m <= p - 1 /\ m \in Int
                        /\ Plain(op) /\ Linked(op, m) /\ Priced(op) /\ op.action \in Actions
  <2>1. CASE p = n + 1
    <3>1. n <= p - 1 /\ n \in Int
      BY <1>2, <2>1
    <3> QED
      BY <1>4, <1>5, <2>1, <3>1
  <2>2. CASE p \in 1 .. n
    <3>1. ops'[p] = ops[p] /\ p - 1 <= p - 1 /\ p - 1 \in Int
      BY <1>1, <1>2, <2>2 DEF Grows
    <3>2. Plain(ops[p]) /\ Linked(ops[p], p - 1) /\ Priced(ops[p]) /\ ops[p].action \in Actions
      BY <1>0, <1>2, <2>2 DEF Structure, IInv, AllPriced, Shaped
    <3> QED
      BY <3>1, <3>2
  <2> QED
    BY <1>2, <2>1, <2>2
<1>7. ASSUME NEW p \in 1 .. n + 1 PROVE Linked(ops[p], p - 1)' /\ Plain(ops[p])'
  <2>1. PICK op, m : /\ op = ops'[p] /\ m <= p - 1 /\ m \in Int /\ Plain(op) /\ Linked(op, m)
    BY <1>6
  <2>2. Linked(op, m)'
    BY <1>1, <2>1, LinkedStays
  <2>3. \A q \in DOMAIN ops' : q <= m => q <= p - 1
    BY <1>1, <1>2, <2>1
  <2>4. Linked(ops[p], p - 1)'
    BY <2>1, <2>2, <2>3 DEF Linked, Pointed
  <2>5. Plain(ops[p])'
    BY <2>1 DEF Plain
  <2> QED
    BY <2>4, <2>5
<1>8. Structure'
  BY <1>1, <1>7, DeclaringNumbers DEF Structure
<1>9. ASSUME NEW p \in 1 .. n + 1, NEW op, op = ops'[p] PROVE Priced(op)'
  <2>1. PICK m : Linked(op, m) /\ Priced(op) /\ op.action \in Actions
    BY <1>6, <1>9
  <2>2. ceilingOf(op)' = ceilingOf(op)
    BY <1>0, <1>1, <1>8, <2>1, CeilingStays
  <2>3. /\ Composing(op) # {} => ceilingOf(op)' <= op.limit
        /\ op.action \in Walks \cup {"totals"} => op.limit > 0
    BY <2>1, <2>2 DEF Priced
  <2> QED
    BY <2>3 DEF Priced
<1> QED
  BY <1>1, <1>8, <1>9 DEF AllPriced

\* What only answers, or changes a collection, leaves the declarations as they are.
LEMMA LeavingAlone ==
    ASSUME IInv, UNCHANGED <<ops, claims>>
    PROVE  Structure' /\ Counted' /\ AllPriced' /\ OneHolder' /\ Grows
<1>0. Structure /\ Counted /\ OneHolder
  BY DEF IInv
<1>1. Structure'
  <2>1. Typed' /\ Apart'
    BY <1>0 DEF Structure, Typed, Apart
  <2>2. \A p \in DOMAIN ops' : Linked(ops[p], p - 1)' /\ Plain(ops[p])'
    BY <1>0 DEF Structure, Linked, Pointed, Plain
  <2> QED
    BY <2>1, <2>2 DEF Structure
<1>2. Counted'
  BY <1>0 DEF Counted, Named
<1>3. Grows
  BY DEF Grows
<1>4. OneHolder'
  BY <1>0 DEF OneHolder
<1>5. ASSUME NEW p \in DOMAIN ops', NEW op, op = ops'[p] PROVE Priced(op)'
  <2>1. Linked(op, p - 1) /\ Priced(op) /\ op.action \in Actions
    <3>1. op = ops[p] /\ p \in DOMAIN ops
      BY <1>5
    <3>2. Linked(op, p - 1) /\ Priced(op)
      BY <1>0, <3>1 DEF IInv, Structure, AllPriced
    <3>3. Shaped(op)
      BY <1>0, <3>1, Positions DEF Structure
    <3> QED
      BY <3>2, <3>3 DEF Shaped
  <2>2. ceilingOf(op)' = ceilingOf(op)
    BY <1>0, <1>1, <1>3, <2>1, CeilingStays
  <2>3. /\ Composing(op) # {} => ceilingOf(op)' <= op.limit
        /\ op.action \in Walks \cup {"totals"} => op.limit > 0
    BY <2>1, <2>2 DEF Priced
  <2> QED
    BY <2>3 DEF Priced
<1>6. AllPriced'
  BY <1>5 DEF AllPriced
<1> QED
  BY <1>1, <1>2, <1>3, <1>4, <1>6

\* A namespace is claimed by whoever declares into it first, and by nobody else after.
LEMMA DeclaringClaims ==
    ASSUME IInv, NEW caller \in Callers, NEW draft \in Drafts, DeclareOperation(caller, draft)
    PROVE  /\ OneHolder'
           /\ DOMAIN claims' \subseteq {NamespaceOf[x] : x \in Names} \ {Unnamed}
<1> DEFINE n == Len(ops)
           s == NamespaceOf[draft.name]
<1>1. /\ DOMAIN ops' = 1 .. n + 1 /\ Grows
      /\ ops'[n + 1].name = draft.name /\ ops'[n + 1].by = holder(caller)
  BY Declaring
<1>2. n \in Nat /\ DOMAIN ops = 1 .. n
  BY Positions DEF IInv, Structure
<1> HIDE DEF n
<1>3. claims' = Claimed(caller, draft.name) /\ (s \in DOMAIN claims => claims[s] = holder(caller))
  BY DEF DeclareOperation, MayClaim
<1>4. /\ \A x \in DOMAIN claims : x \in DOMAIN claims' /\ claims'[x] = claims[x]
      /\ s # Unnamed => s \in DOMAIN claims' /\ claims'[s] = holder(caller)
      /\ DOMAIN claims' \subseteq DOMAIN claims \cup ({s} \ {Unnamed})
  <2>1. CASE s = Unnamed \/ s \in DOMAIN claims
    <3>1. claims' = claims
      BY <1>3, <2>1 DEF Claimed
    <3> QED
      BY <1>3, <2>1, <3>1
  <2>2. CASE s # Unnamed /\ s \notin DOMAIN claims
    <3>1. claims' = [x \in DOMAIN claims \cup {s} |-> IF x \in DOMAIN claims THEN claims[x] ELSE holder(caller)]
      BY <1>3, <2>2 DEF Claimed
    <3> QED
      BY <2>2, <3>1
  <2> QED
    BY <2>1, <2>2
<1>5. ASSUME NEW p \in 1 .. n + 1, NamespaceOf[ops'[p].name] # Unnamed
      PROVE  /\ NamespaceOf[ops'[p].name] \in DOMAIN claims'
             /\ claims'[NamespaceOf[ops'[p].name]] = ops'[p].by
  <2>1. CASE p = n + 1
    BY <1>1, <1>4, <1>5, <2>1
  <2>2. CASE p \in 1 .. n
    <3>1. p \in DOMAIN ops /\ ops'[p] = ops[p]
      BY <1>1, <1>2, <2>2 DEF Grows
    <3>2. /\ NamespaceOf[ops[p].name] \in DOMAIN claims
          /\ claims[NamespaceOf[ops[p].name]] = ops[p].by
      BY <1>5, <3>1 DEF IInv, OneHolder
    <3> QED
      BY <1>4, <3>1, <3>2
  <2> QED
    BY <1>2, <2>1, <2>2
<1>6. OneHolder'
  BY <1>1, <1>5 DEF OneHolder
<1>7. DOMAIN claims' \subseteq {NamespaceOf[x] : x \in Names} \ {Unnamed}
  <2>1. DOMAIN claims \subseteq {NamespaceOf[x] : x \in Names} \ {Unnamed}
    BY DEF IInv, TypeOK
  <2>2. draft.name \in Names
    BY DraftsAssumption
  <2> QED
    BY <1>4, <2>1, <2>2
<1> QED
  BY <1>6, <1>7

\* Declarations that are kept are well typed.
LEMMA TypedOps ==
    Typed => \A p \in DOMAIN ops : /\ ops[p].name \in Names
                                   /\ ops[p].version \in 1 .. MaxOps
                                   /\ ops[p].collection \in Collections
BY Positions, MadeParts DEF Shaped

\* What a call of a declaration hands back and changes stays within its limit and its
\* envelope.
LEMMA DeclaredWithin ==
    ASSUME IInv, Modest, NEW p \in DOMAIN ops, NEW held \in Holdings
    PROVE  LET op == ops[p] IN
           /\ Composed(op) => Rows(op, held) + Changed(op, held) <= op.limit
           /\ Rows(op, held) + Changed(op, held) <= envelopeOf(op).limit
<1> DEFINE op == ops[p]
           r == Rows(op, held)
           c == Changed(op, held)
<1>0. Structure /\ \A q \in DOMAIN ops : Priced(ops[q])
  BY DEF IInv, AllPriced
<1>1. r = RowsBelow(held)[p] /\ r \in Int
  BY <1>0, RowsRun DEF RowsHold, Rows
<1>2. c = ChangedBelow(held)[p] /\ c \in Int
  BY <1>0, ChangedRun DEF ChangedHold, Changed
<1>3. ceilingOf(op) = Ceilings[p] /\ Ceilings[p] \in Int
  BY <1>0, CeilingsRun DEF CeilingsHold, ceilingOf
<1>4. r + c <= ceilingOf(op)
  BY <1>0, <1>1, <1>2, <1>3, RowsUnderCeiling
<1>5. /\ op.limit \in Int /\ op.action \in Actions /\ op.collection \in Collections
      /\ Priced(op)
  BY <1>0, Positions DEF Structure, Shaped
<1>6. ceilingOf(op) \in Int
  BY <1>3
<1>7. Composed(op) => ceilingOf(op) <= op.limit
  BY <1>5 DEF Composed, Priced
<1>8. op.action \in {"count", "hashRange"} => r + c = 0 /\ op.limit > 0
  <2>1. op.action \in {"count", "hashRange"} =>
           r = RowsOfOne(op, held) /\ c = ChangedByOne(op, held)
    BY DEF Rows, RowsIn, Changed, ChangedIn
  <2>2. op.action \in {"count", "hashRange"} => RowsOfOne(op, held) + ChangedByOne(op, held) = 0
    BY <1>5, OneCounts
  <2> QED
    BY <1>5, <2>1, <2>2 DEF Priced, Walks
<1>9. envelopeOf(op).limit = IF op.action \in {"count", "hashRange"} THEN op.limit ELSE ceilingOf(op)
  BY DEF envelopeOf
<1> HIDE DEF op, r, c
<1>10. Composed(op) => r + c <= op.limit
  BY <1>1, <1>2, <1>4, <1>5, <1>6, <1>7
<1>11. r + c <= envelopeOf(op).limit
  BY <1>1, <1>2, <1>4, <1>5, <1>6, <1>8, <1>9
<1> QED
  BY <1>10, <1>11 DEF op, r, c

\* An answer given within bounds, of an operation whose calls are there, is one the
\* invariant speaks of, in the state after it.
LEMMA AnswerKept ==
    ASSUME IInv, UNCHANGED <<ops, claims>>, NEW op, NEW scopes, NEW rows, NEW changed,
           answer'.op = op, answer'.scopes = scopes, answer'.rows = rows, answer'.changed = changed,
           Linked(op, Len(ops)), op.action \in Actions, op.scopes \subseteq scopes,
           Modest => /\ Composed(op) => rows + changed <= op.limit
                     /\ rows + changed <= envelopeOf(op).limit
    PROVE  Answering'
<1>0. Structure /\ Structure' /\ Grows
  BY LeavingAlone DEF IInv
<1>1. PICK n : n = Len(ops) /\ n = Len(ops')
  OBVIOUS
<1>2. Linked(op, n)'
  BY <1>0, <1>1, LinkedStays
<1>3. Linked(answer.op, Len(ops))'
  BY <1>1, <1>2 DEF Linked, Pointed
<1>4. ceilingOf(op)' = ceilingOf(op)
  BY <1>0, CeilingStays
<1>5. PICK c : c = ceilingOf(op) /\ c = ceilingOf(op)'
  BY <1>4
<1>6. envelopeOf(op).limit = IF op.action \in {"count", "hashRange"} THEN op.limit ELSE c
  BY <1>5 DEF envelopeOf
<1>7. envelopeOf(op)'.limit = IF op.action \in {"count", "hashRange"} THEN op.limit ELSE c
  BY <1>5 DEF envelopeOf
<1>8. PICK e : e = envelopeOf(op).limit /\ e = envelopeOf(op)'.limit
  BY <1>6, <1>7
<1>9. Modest => /\ Composed(op) => rows + changed <= op.limit
                /\ rows + changed <= envelopeOf(op)'.limit
  BY <1>8
<1>10. envelopeOf(answer.op)'.limit = envelopeOf(op)'.limit
  BY DEF envelopeOf, ceilingOf, CeilingIn, Summed, Callee, Operation, Named
<1> QED
  BY <1>3, <1>9, <1>10 DEF Answering, Composed

\* A call is answered within what its declaration says.
LEMMA InvInvoke ==
    ASSUME IInv, NEW name \in Names, NEW version \in 0 .. MaxOps, NEW scopes \in Presented,
           Invoke(name, version, scopes)
    PROVE  IInv'
<1>0. Structure /\ UNCHANGED <<collections, ops, claims>>
  BY DEF IInv, Invoke
<1>1. PICK p : p = Operation(name, version)
  OBVIOUS
<1>2. p \in DOMAIN ops
  <2>1. version \in Nat /\ Named(name) # {} /\ (version > 0 => Declared(name, version))
    BY BoundsAssumption DEF Invoke
  <2> QED
    BY <1>0, <1>1, <2>1, OperationFound DEF Structure
<1>3. PICK op : op = ops[p]
  OBVIOUS
<1>4. PICK held \in Holdings : op.scopes \subseteq scopes /\ answer' = Answer(op, scopes, held)
  BY <1>1, <1>3 DEF Invoke
<1>5. PICK rows, changed : rows = Rows(op, held) /\ changed = Changed(op, held)
  OBVIOUS
<1>6. /\ answer'.op = op /\ answer'.scopes = scopes /\ answer'.rows = rows
      /\ answer'.changed = changed /\ answer'.made = TRUE
  BY <1>4, <1>5 DEF Answer
<1>7. Linked(op, Len(ops)) /\ op.action \in Actions
  <2>1. Linked(op, p - 1) /\ Shaped(op) /\ DOMAIN ops = 1 .. Len(ops) /\ Len(ops) \in Nat
    BY <1>0, <1>2, <1>3, Positions DEF Structure
  <2>2. \A q \in DOMAIN ops : q <= p - 1 => q <= Len(ops)
    BY <1>2, <2>1
  <2> QED
    BY <2>1, <2>2 DEF Linked, Shaped
<1>8. Modest => /\ Composed(op) => rows + changed <= op.limit
                /\ rows + changed <= envelopeOf(op).limit
  <2>1. ASSUME Modest
        PROVE  /\ Composed(op) => Rows(op, held) + Changed(op, held) <= op.limit
               /\ Rows(op, held) + Changed(op, held) <= envelopeOf(op).limit
    BY <1>2, <1>3, <2>1, DeclaredWithin
  <2> QED
    BY <1>5, <2>1
<1>9. Answering'
  BY <1>0, <1>4, <1>6, <1>7, <1>8, AnswerKept
<1>10. TypeOK'
  BY <1>0, <1>6 DEF IInv, TypeOK
<1> QED
  BY <1>0, <1>9, <1>10, LeavingAlone DEF IInv

\* A typed access is answered within what it would have been declared as.
LEMMA InvExplore ==
    ASSUME IInv, NEW access \in Accesses, Explore(access)
    PROVE  IInv'
<1>0. Structure /\ UNCHANGED <<collections, ops, claims>>
  BY DEF IInv, Explore
<1>1. PICK op : op = asOperation(access)
  OBVIOUS
<1>2. /\ op.action = access.action /\ op.collection = access.collection /\ op.scopes = {}
      /\ op.limit \in Int
  BY <1>1, AccessesAssumption, IntAssumption DEF asOperation
<1>3. /\ op.action \in Actions /\ op.action # "batch" /\ op.collection \in Collections
      /\ op.action \in Walks \cup {"get"}
  BY <1>2, AccessesAssumption DEF Actions, Single, Walks
<1>4. PICK held \in Holdings : validateOperation(op) /\ answer' = Answer(op, {}, held)
  BY <1>1 DEF Explore
<1>5. Linked(op, Len(ops)) /\ Priced(op)
  BY <1>0, <1>3, <1>4, Accepted
<1>6. PICK rows, changed : rows = Rows(op, held) /\ changed = Changed(op, held)
  OBVIOUS
<1>7. /\ answer'.op = op /\ answer'.scopes = {} /\ answer'.rows = rows
      /\ answer'.changed = changed /\ answer'.made = TRUE
  BY <1>4, <1>6 DEF Answer
<1>8. rows = RowsOfOne(op, held) /\ changed = ChangedByOne(op, held)
  BY <1>3, <1>6 DEF Rows, RowsIn, Changed, ChangedIn
<1>9. rows + changed <= envelopeOf(op).limit
  <2>1. envelopeOf(op).limit = IF op.action \in {"count", "hashRange"} THEN op.limit ELSE ceilingOf(op)
    BY DEF envelopeOf
  <2>2. /\ op.action \in Single => ceilingOf(op) = 1
        /\ op.action \in {"scan", "totals", "deleteRange"} => ceilingOf(op) = op.limit
    BY DEF ceilingOf, CeilingIn, Single
  <2>3. op.action \in {"count", "hashRange"} => op.limit > 0
    BY <1>5 DEF Priced, Walks
  <2>4. CASE op.action = "get"
    BY <1>2, <1>3, <1>8, <2>1, <2>2, <2>4, OneCounts DEF Single
  <2>5. CASE op.action \in {"scan", "deleteRange"}
    BY <1>2, <1>3, <1>8, <2>1, <2>2, <2>5, OneCounts
  <2>6. CASE op.action \in {"count", "hashRange"}
    BY <1>2, <1>3, <1>8, <2>1, <2>3, <2>6, OneCounts
  <2> QED
    BY <1>3, <2>4, <2>5, <2>6 DEF Walks
<1>10. ~Composed(op)
  BY <1>3 DEF Composed, Composing
<1>11. Answering'
  <2>1. op.scopes \subseteq {}
    BY <1>2
  <2>2. Modest => /\ Composed(op) => rows + changed <= op.limit
                  /\ rows + changed <= envelopeOf(op).limit
    BY <1>9, <1>10
  <2> QED
    BY <1>0, <1>3, <1>5, <1>7, <2>1, <2>2, AnswerKept
<1>12. TypeOK'
  BY <1>0, <1>7 DEF IInv, TypeOK
<1> QED
  BY <1>0, <1>11, <1>12, LeavingAlone DEF IInv

\* Declaring an operation keeps the invariant.
LEMMA InvDeclare ==
    ASSUME IInv, NEW caller \in Callers, NEW draft \in Drafts, DeclareOperation(caller, draft)
    PROVE  IInv'
<1>1. Structure' /\ AllPriced'
  BY DeclaringStructure
<1>2. Typed' /\ Counted'
  BY DeclaringNumbers
<1>3. OneHolder' /\ DOMAIN claims' \subseteq {NamespaceOf[x] : x \in Names} \ {Unnamed}
  BY DeclaringClaims
<1>4. ~answer'.made /\ collections' = collections /\ answer' = answer
  BY DEF DeclareOperation
<1>5. Answering'
  BY <1>4 DEF Answering
<1>6. \A p \in DOMAIN ops' : /\ ops'[p].name \in Names
                             /\ ops'[p].version \in 1 .. MaxOps
                             /\ ops'[p].collection \in Collections
  <2>1. Typed' => (\A p \in DOMAIN ops : /\ ops[p].name \in Names
                                         /\ ops[p].version \in 1 .. MaxOps
                                         /\ ops[p].collection \in Collections)'
    BY TypedOps, PTL
  <2> QED
    BY <1>2, <2>1
<1>7. TypeOK'
  BY <1>3, <1>4, <1>6 DEF IInv, TypeOK
<1> QED
  BY <1>1, <1>2, <1>3, <1>5, <1>7 DEF IInv

\* Declaring a collection, or declaring it again, changes nothing that was decided.
LEMMA InvCollections ==
    ASSUME IInv, NEW c \in Collections, NEW spec \in Specs,
           DeclareCollection(c, spec) \/ Redeclare(c, spec)
    PROVE  IInv'
<1>1. /\ UNCHANGED <<ops, claims>> /\ answer' = answer /\ ~answer.made
      /\ collections' = [collections EXCEPT ![c] = spec]
  BY DEF DeclareCollection, Redeclare
<1>2. TypeOK'
  BY <1>1 DEF IInv, TypeOK
<1>3. Answering'
  BY <1>1 DEF Answering
<1> QED
  BY <1>1, <1>2, <1>3, LeavingAlone DEF IInv

\* A step that changes nothing keeps the invariant.
LEMMA InvStutter ==
    ASSUME IInv, UNCHANGED vars
    PROVE  IInv'
<1>1. UNCHANGED <<ops, claims>> /\ answer' = answer /\ collections' = collections
  BY DEF vars
<1>2. TypeOK'
  BY <1>1 DEF IInv, TypeOK
<1>3. Answering'
  <2>1. CASE answer.made
    <3>1. PICK op, scopes, rows, changed :
             op = answer.op /\ scopes = answer.scopes /\ rows = answer.rows /\ changed = answer.changed
      OBVIOUS
    <3>2. /\ Linked(op, Len(ops)) /\ op.action \in Actions /\ op.scopes \subseteq scopes
          /\ Modest => /\ Composed(op) => rows + changed <= op.limit
                       /\ rows + changed <= envelopeOf(op).limit
      BY <2>1, <3>1 DEF IInv, Answering
    <3>3. /\ answer'.op = op /\ answer'.scopes = scopes /\ answer'.rows = rows
          /\ answer'.changed = changed
      BY <1>1, <3>1
    <3> QED
      BY <1>1, <3>2, <3>3, AnswerKept
  <2>2. CASE ~answer.made
    BY <1>1, <2>2 DEF Answering
  <2> QED
    BY <2>1, <2>2
<1> QED
  BY <1>1, <1>2, <1>3, LeavingAlone DEF IInv

\* The invariant holds before anything is declared.
LEMMA InvInit == Init => IInv
<1> SUFFICES ASSUME Init PROVE IInv
  OBVIOUS
<1>1. ops = <<>> /\ ~answer.made /\ answer.made \in BOOLEAN
  BY DEF Init, NoAnswer
<1>2. Structure /\ Counted /\ AllPriced /\ OneHolder
  BY <1>1, BoundsAssumption DEF Structure, Typed, Apart, Counted, AllPriced, OneHolder
<1>3. TypeOK
  BY <1>1 DEF Init, TypeOK
<1>4. Answering
  BY <1>1 DEF Answering
<1> QED
  BY <1>2, <1>3, <1>4 DEF IInv

\* And every step keeps it.
LEMMA InvNext == IInv /\ [Next]_vars => IInv'
<1> SUFFICES ASSUME IInv, [Next]_vars PROVE IInv'
  OBVIOUS
<1>1. CASE \E caller \in Callers, draft \in Drafts : DeclareOperation(caller, draft)
  BY <1>1, InvDeclare
<1>2. CASE \E c \in Collections, spec \in Specs : DeclareCollection(c, spec) \/ Redeclare(c, spec)
  BY <1>2, InvCollections
<1>3. CASE \E name \in Names, version \in 0 .. MaxOps, scopes \in Presented : Invoke(name, version, scopes)
  BY <1>3, InvInvoke
<1>4. CASE \E access \in Accesses : Explore(access)
  BY <1>4, InvExplore
<1>5. CASE Answered
  <2>1. UNCHANGED <<ops, claims>> /\ collections' = collections /\ answer' = NoAnswer
    BY <1>5 DEF Answered
  <2>2. ~answer'.made /\ answer'.made \in BOOLEAN
    BY <2>1 DEF NoAnswer
  <2>3. TypeOK' /\ Answering'
    BY <2>1, <2>2 DEF IInv, TypeOK, Answering
  <2> QED
    BY <2>1, <2>3, LeavingAlone DEF IInv
<1>6. CASE UNCHANGED vars
  BY <1>6, InvStutter
<1> QED
  BY <1>1, <1>2, <1>3, <1>4, <1>5, <1>6 DEF Next

-----------------------------------------------------------------------------
(* What holds of every store, however many operations are declared in it.  *)

\* The inductive invariant holds in every reachable state.
THEOREM Invariance == Spec => []IInv
<1>1. Init => IInv
  BY InvInit
<1>2. IInv /\ [Next]_vars => IInv'
  BY InvNext
<1> QED
  BY <1>1, <1>2, PTL DEF Spec

\* Collections, declarations and claims keep their types.
THEOREM TypeCorrect == Spec => []TypeOK
<1>1. IInv => TypeOK
  BY DEF IInv
<1> QED
  BY <1>1, Invariance, PTL

\* Calls lead to declarations made before the caller's (validateComposedStep), so that
\* every walk over what an operation calls ends.
THEOREM PinnedAlways == Spec => []Pinned
<1>1. IInv => Pinned
  <2> SUFFICES ASSUME IInv, NEW p \in DOMAIN ops, NEW i \in Composing(ops[p])
               PROVE  /\ Declared(ops[p].steps[i].operation, ops[p].steps[i].version)
                      /\ Callee(ops[p].steps[i]) < p
    BY DEF Pinned
  <2>1. Structure /\ Linked(ops[p], p - 1)
    BY DEF IInv, Structure
  <2>2. /\ Callee(ops[p].steps[i]) \in DOMAIN ops
        /\ Pointed(ops[p].steps[i], Callee(ops[p].steps[i]))
    BY <2>1, CallsResolve DEF Resolved
  <2>3. Callee(ops[p].steps[i]) < p
    BY <2>1, CalleesBefore DEF Composing
  <2> QED
    BY <2>2, <2>3 DEF Declared, Named, Pointed
<1> QED
  BY <1>1, Invariance, PTL

\* No operation runs below another that asks for a scope the caller did not present
\* (allowed, once, for the operation that was named).
THEOREM ScopesHoldAlways == Spec => []ScopesHold
<1>1. IInv => ScopesHold
  <2> SUFFICES ASSUME IInv, answer.made, NEW part \in Parts(answer.op)
               PROVE  part.scopes \subseteq answer.scopes
    BY DEF ScopesHold
  <2>1. Structure /\ Linked(answer.op, Len(ops)) /\ answer.op.scopes \subseteq answer.scopes
    BY DEF IInv, Answering
  <2>2. part.scopes \subseteq answer.op.scopes
    BY <2>1, ScopesBelow
  <2> QED
    BY <2>1, <2>2
<1> QED
  BY <1>1, Invariance, PTL

\* What SharedRead lets run beside readers is what writes nothing and opens no partition
\* at any depth, and all of it (shareable, stepsShare).
THEOREM SharesExactlyAlways == Spec => []SharesExactly
<1>1. IInv => SharesExactly
  BY SharesBelow DEF IInv
<1> QED
  BY <1>1, Invariance, PTL

\* A namespace's operations are all its holder's (claimFor).
THEOREM OneHolderAlways == Spec => []OneHolder
<1>1. IInv => OneHolder
  BY DEF IInv
<1> QED
  BY <1>1, Invariance, PTL

\* No declaration changes, and no declaration made later changes what an earlier one
\* costs (DeclareOperation, ceilingOf).
THEOREM CostIsFixedAlways == Spec => CostIsFixed
<1>1. IInv /\ IInv' /\ [Next]_vars =>
         [\A p \in DOMAIN ops : ops'[p] = ops[p] /\ Ceilings'[p] = Ceilings[p]]_vars
  <2> SUFFICES ASSUME IInv, IInv', Next
               PROVE  \A p \in DOMAIN ops : ops'[p] = ops[p] /\ Ceilings'[p] = Ceilings[p]
    OBVIOUS
  <2>1. Grows
    <3>1. CASE \E caller \in Callers, draft \in Drafts : DeclareOperation(caller, draft)
      BY <3>1, Declaring
    <3>2. CASE UNCHANGED ops
      BY <3>2 DEF Grows
    <3> QED
      BY <3>1, <3>2 DEF Next, DeclareCollection, Redeclare, Invoke, Explore, Answered
  <2>2. Structure /\ Structure'
    BY DEF IInv
  <2> QED
    BY <2>1, <2>2, CeilingsStay DEF Grows
<1> QED
  BY <1>1, Invariance, PTL DEF Spec, CostIsFixed

\* The limit of an operation that calls others bounds what a call of it hands back and
\* removes, at whatever depth (validateOperation's rule for batches), as long as no sum
\* of ceilings comes round.
THEOREM RowsWithinLimitAlways == Modest => (Spec => []RowsWithinLimit)
<1> SUFFICES ASSUME Modest PROVE Spec => []RowsWithinLimit
  OBVIOUS
<1>1. IInv => RowsWithinLimit
  BY DEF IInv, Answering, RowsWithinLimit
<1> QED
  BY <1>1, Invariance, PTL

\* An envelope covers the collections a call touches and the rows it hands back or
\* removes (envelopeOf), as long as no sum of ceilings comes round.
THEOREM EnvelopeHoldsAlways == Modest => (Spec => []EnvelopeHolds)
<1> SUFFICES ASSUME Modest PROVE Spec => []EnvelopeHolds
  OBVIOUS
<1>1. IInv => EnvelopeHolds
  <2> SUFFICES ASSUME IInv, answer.made
               PROVE  /\ {at.collection : at \in Touches(answer.op)} \subseteq envelopeOf(answer.op).collections
                      /\ answer.rows + answer.changed <= envelopeOf(answer.op).limit
    BY DEF EnvelopeHolds
  <2>1. Structure /\ Linked(answer.op, Len(ops))
    BY DEF IInv, Answering
  <2>2. \A at \in Touches(answer.op) : at.collection \in EnvelopeIn(answer.op, Envelopes)
    BY <2>1, EnvelopeCovers
  <2>3. envelopeOf(answer.op).collections = EnvelopeIn(answer.op, Envelopes)
    BY DEF envelopeOf
  <2>4. answer.rows + answer.changed <= envelopeOf(answer.op).limit
    BY DEF IInv, Answering
  <2> QED
    BY <2>2, <2>3, <2>4
<1> QED
  BY <1>1, Invariance, PTL

=============================================================================
