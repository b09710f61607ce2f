----------------------------- MODULE ExchangeProofs ----------------------------
(***************************************************************************)
(* Proofs about ExchangeMeaning and Exchange: that parsing, enforcing and  *)
(* rendering a query keep what it means, for trees and plans of any depth, *)
(* and what a backend is asked and a client is shown, for any requests and *)
(* any responses.                                                          *)
(***************************************************************************)
EXTENDS ExchangeMeaning, ProofBasics

--------------------------------------------------------------------------------
(* Trees by their levels: how induction over them goes, without an         *)
(* operator as a parameter.                                                *)

(* Induction over numbers up to a bound.                                   *)
LEMMA InductTo ==
  ASSUME NEW m \in Nat, NEW H \in SUBSET (0 .. m), 0 \in H,
         \A h \in H : h < m => h + 1 \in H
  PROVE  H = 0 .. m
<1> DEFINE N == {n \in Nat : n <= m => n \in H}
<1>1. 0 \in N
  OBVIOUS
<1>2. ASSUME NEW n \in N PROVE n + 1 \in N
  <2>1. n + 1 <= m => n \in H /\ n < m
    OBVIOUS
  <2>2. QED BY <2>1
<1>3. N = Nat
  <2> HIDE DEF N
  <2>1. N \in SUBSET Nat
    BY DEF N
  <2>2. QED BY <1>1, <1>2, <2>1, NatInduct
<1>4. \A h \in 0 .. m : h \in Nat /\ h <= m /\ h \in N
  BY <1>3
<1>5. QED BY <1>4

(* The levels of predicates: none, and each over the one below.            *)
LEMMA PredicateLevels ==
  /\ PredicatesTo[0] = {}
  /\ \A h \in 0 .. Depth + 2 : PredicatesTo[h + 1] = PredicatesOver(PredicatesTo[h])
<1>0. Depth + 3 \in Nat
  BY DepthAssumption
<1> DEFINE G(f, n) == [h \in 0 .. n |-> IF h = 0 THEN {} ELSE PredicatesOver(f[h - 1])]
           N == {n \in Nat : \E f : f = G(f, n)}
           levels == CHOOSE f : f = G(f, Depth + 3)
<1>1. N = Nat
  <2>1. 0 \in N
    <3>1. G(<<>>, 0) = G(G(<<>>, 0), 0)
      OBVIOUS
    <3>2. QED BY <3>1
  <2>2. ASSUME NEW n \in N PROVE n + 1 \in N
    <3>1. PICK f : f = G(f, n)
      OBVIOUS
    <3> DEFINE g == G(f, n + 1)
    <3>2. ASSUME NEW h \in 0 .. n + 1, h # 0 PROVE g[h - 1] = f[h - 1]
      <4>1. h - 1 \in 0 .. n /\ h - 1 \in 0 .. n + 1
        BY <3>2
      <4>2. f[h - 1] = G(f, n)[h - 1]
        BY <3>1
      <4>3. QED BY <4>1, <4>2
    <3>3. g = G(g, n + 1)
      BY <3>2
    <3>4. \E e : e = G(e, n + 1)
      BY <3>3
    <3>5. QED BY <3>4
  <2> HIDE DEF N
  <2>3. N \in SUBSET Nat
    BY DEF N
  <2>4. QED BY <2>1, <2>2, <2>3, NatInduct
<1>2. levels = G(levels, Depth + 3)
  <2> HIDE DEF N
  <2>1. Depth + 3 \in Nat
    BY DepthAssumption
  <2>2. Depth + 3 \in N
    BY <1>1, <2>1
  <2>3. QED BY <2>2 DEF N
<1>3. PredicatesTo = levels
  BY DEF PredicatesTo
<1> HIDE DEF levels
<1>4. PredicatesTo[0] = {}
  BY <1>2, <1>3, DepthAssumption
<1>5. ASSUME NEW h \in 0 .. Depth + 2
      PROVE  PredicatesTo[h + 1] = PredicatesOver(PredicatesTo[h])
  <2>1. h + 1 \in 0 .. Depth + 3 /\ h + 1 # 0 /\ (h + 1) - 1 = h
    BY DepthAssumption
  <2>2. levels[h + 1] = G(levels, Depth + 3)[h + 1]
    BY <1>2
  <2>3. levels[h + 1] = PredicatesOver(levels[h])
    BY <2>1, <2>2
  <2>4. QED BY <1>3, <2>3
<1>6. QED BY <1>4, <1>5

(* A level holds the predicates of the levels below.                       *)
LEMMA PredicateMonotone ==
  ASSUME NEW h \in 0 .. Depth + 2
  PROVE  PredicatesTo[h] \subseteq PredicatesTo[h + 1]
<1> DEFINE H == {k \in 0 .. Depth + 2 : PredicatesTo[k] \subseteq PredicatesTo[k + 1]}
<1>1. 0 \in H
  BY PredicateLevels, DepthAssumption
<1>2. ASSUME NEW k \in H, k < Depth + 2 PROVE k + 1 \in H
  <2>1. k \in 0 .. Depth + 2 /\ k + 1 \in 0 .. Depth + 2
    BY <1>2, DepthAssumption
  <2>2. /\ PredicatesTo[k + 1] = PredicatesOver(PredicatesTo[k])
        /\ PredicatesTo[(k + 1) + 1] = PredicatesOver(PredicatesTo[k + 1])
    BY <2>1, PredicateLevels
  <2>3. PredicatesOver(PredicatesTo[k]) \subseteq PredicatesOver(PredicatesTo[k + 1])
    BY <1>2 DEF PredicatesOver
  <2>4. QED BY <2>1, <2>2, <2>3
<1>3. H = 0 .. Depth + 2
  <2> HIDE DEF H
  <2>1. H \in SUBSET (0 .. Depth + 2) /\ Depth + 2 \in Nat
    BY DepthAssumption DEF H
  <2>2. QED BY <1>1, <1>2, <2>1, InductTo
<1>4. QED BY <1>3

(* So does every level above it.                                           *)
LEMMA PredicateWithin ==
  ASSUME NEW k \in 0 .. Depth + 3
  PROVE  \A h \in 0 .. k : PredicatesTo[h] \subseteq PredicatesTo[k]
<1> DEFINE H == {d \in 0 .. k : PredicatesTo[k - d] \subseteq PredicatesTo[k]}
<1>1. 0 \in H
  BY DepthAssumption
<1>2. ASSUME NEW d \in H, d < k PROVE d + 1 \in H
  <2>1. d + 1 \in 0 .. k /\ k - (d + 1) \in 0 .. Depth + 2 /\ (k - (d + 1)) + 1 = k - d
    BY <1>2, DepthAssumption
  <2>2. PredicatesTo[k - (d + 1)] \subseteq PredicatesTo[(k - (d + 1)) + 1]
    BY <2>1, PredicateMonotone
  <2>3. QED BY <2>1, <2>2
<1>3. H = 0 .. k
  <2> HIDE DEF H
  <2>1. H \in SUBSET (0 .. k) /\ k \in Nat
    BY DepthAssumption DEF H
  <2>2. QED BY <1>1, <1>2, <2>1, InductTo
<1>4. ASSUME NEW h \in 0 .. k PROVE PredicatesTo[h] \subseteq PredicatesTo[k]
  <2>1. k - h \in 0 .. k /\ k - (k - h) = h
    BY DepthAssumption
  <2>2. k - h \in H
    BY <1>3, <2>1, Zenon
  <2>3. PredicatesTo[k - (k - h)] \subseteq PredicatesTo[k]
    BY <2>2
  <2>4. QED BY <2>1, <2>3
<1>5. QED BY <1>4

(* The levels of plans: none, and each over the one below.                 *)
LEMMA PlanLevels ==
  ASSUME NEW selects
  PROVE  /\ PlansTo(selects)[0] = {}
         /\ \A h \in 0 .. Depth - 1 : PlansTo(selects)[h + 1] = PlansOver(PlansTo(selects)[h], selects)
<1>0. Depth \in Nat
  BY DepthAssumption
<1> DEFINE G(f, n) == [h \in 0 .. n |-> IF h = 0 THEN {} ELSE PlansOver(f[h - 1], selects)]
           N == {n \in Nat : \E f : f = G(f, n)}
           levels == CHOOSE f : f = G(f, Depth)
<1>1. N = Nat
  <2>1. 0 \in N
    <3>1. G(<<>>, 0) = G(G(<<>>, 0), 0)
      OBVIOUS
    <3>2. QED BY <3>1
  <2>2. ASSUME NEW n \in N PROVE n + 1 \in N
    <3>1. PICK f : f = G(f, n)
      OBVIOUS
    <3> DEFINE g == G(f, n + 1)
    <3>2. ASSUME NEW h \in 0 .. n + 1, h # 0 PROVE g[h - 1] = f[h - 1]
      <4>1. h - 1 \in 0 .. n /\ h - 1 \in 0 .. n + 1
        BY <3>2
      <4>2. f[h - 1] = G(f, n)[h - 1]
        BY <3>1
      <4>3. QED BY <4>1, <4>2
    <3>3. g = G(g, n + 1)
      BY <3>2
    <3>4. \E e : e = G(e, n + 1)
      BY <3>3
    <3>5. QED BY <3>4
  <2> HIDE DEF N
  <2>3. N \in SUBSET Nat
    BY DEF N
  <2>4. QED BY <2>1, <2>2, <2>3, NatInduct
<1>2. levels = G(levels, Depth)
  <2> HIDE DEF N
  <2>1. Depth \in Nat
    BY DepthAssumption
  <2>2. Depth \in N
    BY <1>1, <2>1
  <2>3. QED BY <2>2 DEF N
<1>3. PlansTo(selects) = levels
  BY DEF PlansTo
<1> HIDE DEF levels
<1>4. PlansTo(selects)[0] = {}
  BY <1>2, <1>3, DepthAssumption
<1>5. ASSUME NEW h \in 0 .. Depth - 1
      PROVE  PlansTo(selects)[h + 1] = PlansOver(PlansTo(selects)[h], selects)
  <2>1. h + 1 \in 0 .. Depth /\ h + 1 # 0 /\ (h + 1) - 1 = h
    BY DepthAssumption
  <2>2. levels[h + 1] = G(levels, Depth)[h + 1]
    BY <1>2
  <2>3. levels[h + 1] = PlansOver(levels[h], selects)
    BY <2>1, <2>2
  <2>4. QED BY <1>3, <2>3
<1>6. QED BY <1>4, <1>5

(* A level holds the plans of the levels below.                            *)
LEMMA PlanMonotone ==
  ASSUME NEW selects, NEW h \in 0 .. Depth - 1
  PROVE  PlansTo(selects)[h] \subseteq PlansTo(selects)[h + 1]
<1> DEFINE H == {k \in 0 .. Depth - 1 : PlansTo(selects)[k] \subseteq PlansTo(selects)[k + 1]}
<1>1. 0 \in H
  BY PlanLevels, DepthAssumption
<1>2. ASSUME NEW k \in H, k < Depth - 1 PROVE k + 1 \in H
  <2>1. k \in 0 .. Depth - 1 /\ k + 1 \in 0 .. Depth - 1
    BY <1>2, DepthAssumption
  <2>2. /\ PlansTo(selects)[k + 1] = PlansOver(PlansTo(selects)[k], selects)
        /\ PlansTo(selects)[(k + 1) + 1] = PlansOver(PlansTo(selects)[k + 1], selects)
    BY <2>1, PlanLevels
  <2>3. PlansOver(PlansTo(selects)[k], selects) \subseteq PlansOver(PlansTo(selects)[k + 1], selects)
    BY <1>2 DEF PlansOver
  <2>4. QED BY <2>1, <2>2, <2>3
<1>3. H = 0 .. Depth - 1
  <2> HIDE DEF H
  <2>1. H \in SUBSET (0 .. Depth - 1) /\ Depth - 1 \in Nat
    BY DepthAssumption DEF H
  <2>2. QED BY <1>1, <1>2, <2>1, InductTo
<1>4. QED BY <1>3

(* So does every level above it.                                           *)
LEMMA PlanWithin ==
  ASSUME NEW selects, NEW k \in 0 .. Depth
  PROVE  \A h \in 0 .. k : PlansTo(selects)[h] \subseteq PlansTo(selects)[k]
<1> DEFINE H == {d \in 0 .. k : PlansTo(selects)[k - d] \subseteq PlansTo(selects)[k]}
<1>1. 0 \in H
  BY DepthAssumption
<1>2. ASSUME NEW d \in H, d < k PROVE d + 1 \in H
  <2>1. d + 1 \in 0 .. k /\ k - (d + 1) \in 0 .. Depth - 1 /\ (k - (d + 1)) + 1 = k - d
    BY <1>2, DepthAssumption
  <2>2. PlansTo(selects)[k - (d + 1)] \subseteq PlansTo(selects)[(k - (d + 1)) + 1]
    BY <2>1, PlanMonotone
  <2>3. QED BY <2>1, <2>2
<1>3. H = 0 .. k
  <2> HIDE DEF H
  <2>1. H \in SUBSET (0 .. k) /\ k \in Nat
    BY DepthAssumption DEF H
  <2>2. QED BY <1>1, <1>2, <2>1, InductTo
<1>4. ASSUME NEW h \in 0 .. k PROVE PlansTo(selects)[h] \subseteq PlansTo(selects)[k]
  <2>1. k - h \in 0 .. k /\ k - (k - h) = h
    BY DepthAssumption
  <2>2. k - h \in H
    BY <1>3, <2>1, Zenon
  <2>3. PlansTo(selects)[k - (k - h)] \subseteq PlansTo(selects)[k]
    BY <2>2
  <2>4. QED BY <2>1, <2>3
<1>5. QED BY <1>4

(* The levels of trees: none, and each over the one below.                 *)
LEMMA TreeLevels ==
  /\ TreesTo[0] = {}
  /\ \A h \in 0 .. Depth - 1 : TreesTo[h + 1] = TreesOver(TreesTo[h])
<1>0. Depth \in Nat
  BY DepthAssumption
<1> DEFINE G(f, n) == [h \in 0 .. n |-> IF h = 0 THEN {} ELSE TreesOver(f[h - 1])]
           N == {n \in Nat : \E f : f = G(f, n)}
           levels == CHOOSE f : f = G(f, Depth)
<1>1. N = Nat
  <2>1. 0 \in N
    <3>1. G(<<>>, 0) = G(G(<<>>, 0), 0)
      OBVIOUS
    <3>2. QED BY <3>1
  <2>2. ASSUME NEW n \in N PROVE n + 1 \in N
    <3>1. PICK f : f = G(f, n)
      OBVIOUS
    <3> DEFINE g == G(f, n + 1)
    <3>2. ASSUME NEW h \in 0 .. n + 1, h # 0 PROVE g[h - 1] = f[h - 1]
      <4>1. h - 1 \in 0 .. n /\ h - 1 \in 0 .. n + 1
        BY <3>2
      <4>2. f[h - 1] = G(f, n)[h - 1]
        BY <3>1
      <4>3. QED BY <4>1, <4>2
    <3>3. g = G(g, n + 1)
      BY <3>2
    <3>4. \E e : e = G(e, n + 1)
      BY <3>3
    <3>5. QED BY <3>4
  <2> HIDE DEF N
  <2>3. N \in SUBSET Nat
    BY DEF N
  <2>4. QED BY <2>1, <2>2, <2>3, NatInduct
<1>2. levels = G(levels, Depth)
  <2> HIDE DEF N
  <2>1. Depth \in Nat
    BY DepthAssumption
  <2>2. Depth \in N
    BY <1>1, <2>1
  <2>3. QED BY <2>2 DEF N
<1>3. TreesTo = levels
  BY DEF TreesTo
<1> HIDE DEF levels
<1>4. TreesTo[0] = {}
  BY <1>2, <1>3, DepthAssumption
<1>5. ASSUME NEW h \in 0 .. Depth - 1
      PROVE  TreesTo[h + 1] = TreesOver(TreesTo[h])
  <2>1. h + 1 \in 0 .. Depth /\ h + 1 # 0 /\ (h + 1) - 1 = h
    BY DepthAssumption
  <2>2. levels[h + 1] = G(levels, Depth)[h + 1]
    BY <1>2
  <2>3. levels[h + 1] = TreesOver(levels[h])
    BY <2>1, <2>2
  <2>4. QED BY <1>3, <2>3
<1>6. QED BY <1>4, <1>5

(* A level holds the trees of the levels below.                            *)
LEMMA TreeMonotone ==
  ASSUME NEW h \in 0 .. Depth - 1
  PROVE  TreesTo[h] \subseteq TreesTo[h + 1]
<1> DEFINE H == {k \in 0 .. Depth - 1 : TreesTo[k] \subseteq TreesTo[k + 1]}
<1>1. 0 \in H
  BY TreeLevels, DepthAssumption
<1>2. ASSUME NEW k \in H, k < Depth - 1 PROVE k + 1 \in H
  <2>1. k \in 0 .. Depth - 1 /\ k + 1 \in 0 .. Depth - 1
    BY <1>2, DepthAssumption
  <2>2. /\ TreesTo[k + 1] = TreesOver(TreesTo[k])
        /\ TreesTo[(k + 1) + 1] = TreesOver(TreesTo[k + 1])
    BY <2>1, TreeLevels
  <2>3. TreesOver(TreesTo[k]) \subseteq TreesOver(TreesTo[k + 1])
    BY <1>2 DEF TreesOver
  <2>4. QED BY <2>1, <2>2, <2>3
<1>3. H = 0 .. Depth - 1
  <2> HIDE DEF H
  <2>1. H \in SUBSET (0 .. Depth - 1) /\ Depth - 1 \in Nat
    BY DepthAssumption DEF H
  <2>2. QED BY <1>1, <1>2, <2>1, InductTo
<1>4. QED BY <1>3

(* So does every level above it.                                           *)
LEMMA TreeWithin ==
  ASSUME NEW k \in 0 .. Depth
  PROVE  \A h \in 0 .. k : TreesTo[h] \subseteq TreesTo[k]
<1> DEFINE H == {d \in 0 .. k : TreesTo[k - d] \subseteq TreesTo[k]}
<1>1. 0 \in H
  BY DepthAssumption
<1>2. ASSUME NEW d \in H, d < k PROVE d + 1 \in H
  <2>1. d + 1 \in 0 .. k /\ k - (d + 1) \in 0 .. Depth - 1 /\ (k - (d + 1)) + 1 = k - d
    BY <1>2, DepthAssumption
  <2>2. TreesTo[k - (d + 1)] \subseteq TreesTo[(k - (d + 1)) + 1]
    BY <2>1, TreeMonotone
  <2>3. QED BY <2>1, <2>2
<1>3. H = 0 .. k
  <2> HIDE DEF H
  <2>1. H \in SUBSET (0 .. k) /\ k \in Nat
    BY DepthAssumption DEF H
  <2>2. QED BY <1>1, <1>2, <2>1, InductTo
<1>4. ASSUME NEW h \in 0 .. k PROVE TreesTo[h] \subseteq TreesTo[k]
  <2>1. k - h \in 0 .. k /\ k - (k - h) = h
    BY DepthAssumption
  <2>2. k - h \in H
    BY <1>3, <2>1, Zenon
  <2>3. TreesTo[k - (k - h)] \subseteq TreesTo[k]
    BY <2>2
  <2>4. QED BY <2>1, <2>3
<1>5. QED BY <1>4

--------------------------------------------------------------------------------
(* Functions over predicates, plans and trees, one node at a time.         *)

(* What a predicate is: a leaf, or a node over predicates a level less.    *)
LEMMA PredicateNode ==
  ASSUME NEW h \in 0 .. Depth + 2, NEW q \in PredicatesTo[h + 1]
  PROVE  \/ q \in Leaves /\ q.kind = "leaf"
         \/ /\ q = Bool(q.op, q.operands) /\ q.kind = "bool"
            /\ q.op \in String /\ q.operands \in Seq(PredicatesTo[h])
<1>1. q \in PredicatesOver(PredicatesTo[h])
  BY PredicateLevels
<1>2. CASE q \in Leaves
  BY <1>2 DEF Leaves
<1>3. CASE q \notin Leaves
  BY <1>1, <1>3 DEF PredicatesOver, Bool
<1>4. QED BY <1>2, <1>3

(* Satisfies by cases.                                                     *)
LEMMA SatisfiesUnfolds ==
  ASSUME NEW r, NEW q \in Predicate
  PROVE  Satisfies(q, r) =
           CASE q.kind = "leaf" -> Accepts(q, r[q.name])
             [] q.kind = "bool" /\ q.op = "OR" -> \E i \in DOMAIN q.operands : Satisfies(q.operands[i], r)
             [] q.kind = "bool" /\ q.op = "NOT" -> \A i \in DOMAIN q.operands : ~ Satisfies(q.operands[i], r)
             [] OTHER -> \A i \in DOMAIN q.operands : Satisfies(q.operands[i], r)
<1> DEFINE B(f, x) ==
             CASE x.kind = "leaf" -> Accepts(x, r[x.name])
               [] x.kind = "bool" /\ x.op = "OR" -> \E i \in DOMAIN x.operands : f[x.operands[i]]
               [] x.kind = "bool" /\ x.op = "NOT" -> \A i \in DOMAIN x.operands : ~ f[x.operands[i]]
               [] OTHER -> \A i \in DOMAIN x.operands : f[x.operands[i]]
           H == {h \in 0 .. Depth + 3 : \E f : f = [x \in PredicatesTo[h] |-> B(f, x)]}
           all == CHOOSE f : f = [x \in Predicate |-> B(f, x)]
<1>1. ASSUME NEW h \in 0 .. Depth + 2, NEW node \in PredicatesTo[h + 1], NEW f, NEW g,
             \A c \in PredicatesTo[h] : g[c] = f[c]
      PROVE  B(g, node) = B(f, node)
  <2>1. CASE node.kind = "leaf"
    BY <2>1
  <2>2. CASE node.kind = "bool" /\ node.operands \in Seq(PredicatesTo[h])
    <3>1. \A i \in DOMAIN node.operands : g[node.operands[i]] = f[node.operands[i]]
      BY <1>1, <2>2
    <3>2. QED BY <2>2, <3>1
  <2>3. QED BY <2>1, <2>2, PredicateNode
<1> HIDE DEF B
<1>2. 0 \in H
  <2>1. PredicatesTo[0] = {} /\ 0 \in 0 .. Depth + 3
    BY PredicateLevels, DepthAssumption
  <2>2. [c \in {} |-> {}] = [x \in PredicatesTo[0] |-> B([c \in {} |-> {}], x)]
    BY <2>1
  <2>3. QED BY <2>1, <2>2
<1>3. ASSUME NEW h \in H, h < Depth + 3 PROVE h + 1 \in H
  <2>1. h \in 0 .. Depth + 2 /\ h + 1 \in 0 .. Depth + 3
    BY <1>3, DepthAssumption
  <2>2. PICK f : f = [x \in PredicatesTo[h] |-> B(f, x)]
    OBVIOUS
  <2> DEFINE g == [x \in PredicatesTo[h + 1] |-> B(f, x)]
  <2>3. ASSUME NEW c \in PredicatesTo[h] PROVE g[c] = f[c]
    <3>1. c \in PredicatesTo[h + 1]
      BY <2>1, PredicateMonotone
    <3>2. f[c] = [x \in PredicatesTo[h] |-> B(f, x)][c]
      BY <2>2
    <3>3. QED BY <3>1, <3>2
  <2>4. ASSUME NEW c \in PredicatesTo[h + 1] PROVE B(g, c) = B(f, c)
    <3> HIDE DEF g
    <3>1. \A d \in PredicatesTo[h] : g[d] = f[d]
      BY <2>3
    <3>2. QED BY <1>1, <2>1, <3>1
  <2>5. g = [x \in PredicatesTo[h + 1] |-> B(g, x)]
    BY <2>4
  <2>6. \E d : d = [x \in PredicatesTo[h + 1] |-> B(d, x)]
    BY <2>5
  <2>7. QED BY <2>1, <2>6
<1>4. \E f : f = [x \in Predicate |-> B(f, x)]
  <2>1. H \in SUBSET (0 .. Depth + 3) /\ Depth + 3 \in Nat
    BY DepthAssumption
  <2> HIDE DEF H
  <2>2. Depth + 3 \in H
    BY <1>2, <1>3, <2>1, InductTo
  <2>3. QED BY <2>2 DEF H, Predicate
<1>5. all = [x \in Predicate |-> B(all, x)]
  BY <1>4
<1>6. ASSUME NEW c PROVE Satisfies(c, r) = all[c]
  BY Zenon DEF Satisfies, B
<1> HIDE DEF all
<1>7. Satisfies(q, r) = B(all, q)
  BY <1>5, <1>6
<1>8. QED BY <1>6, <1>7 DEF B

(* Hit by cases.                                                           *)
LEMMA HitUnfolds ==
  ASSUME NEW r, NEW q \in Predicate
  PROVE  Hit(q, r) =
           CASE q.kind = "leaf" -> (q.value \cap Indexed(q.name, r) # {}) = Positive(q.op)
             [] q.kind = "bool" /\ q.op = "OR" -> \E i \in DOMAIN q.operands : Hit(q.operands[i], r)
             [] q.kind = "bool" /\ q.op = "NOT" -> \A i \in DOMAIN q.operands : ~ Hit(q.operands[i], r)
             [] OTHER -> \A i \in DOMAIN q.operands : Hit(q.operands[i], r)
<1> DEFINE B(f, x) ==
             CASE x.kind = "leaf" -> (x.value \cap Indexed(x.name, r) # {}) = Positive(x.op)
               [] x.kind = "bool" /\ x.op = "OR" -> \E i \in DOMAIN x.operands : f[x.operands[i]]
               [] x.kind = "bool" /\ x.op = "NOT" -> \A i \in DOMAIN x.operands : ~ f[x.operands[i]]
               [] OTHER -> \A i \in DOMAIN x.operands : f[x.operands[i]]
           H == {h \in 0 .. Depth + 3 : \E f : f = [x \in PredicatesTo[h] |-> B(f, x)]}
           all == CHOOSE f : f = [x \in Predicate |-> B(f, x)]
<1>1. ASSUME NEW h \in 0 .. Depth + 2, NEW node \in PredicatesTo[h + 1], NEW f, NEW g,
             \A c \in PredicatesTo[h] : g[c] = f[c]
      PROVE  B(g, node) = B(f, node)
  <2>1. CASE node.kind = "leaf"
    BY <2>1
  <2>2. CASE node.kind = "bool" /\ node.operands \in Seq(PredicatesTo[h])
    <3>1. \A i \in DOMAIN node.operands : g[node.operands[i]] = f[node.operands[i]]
      BY <1>1, <2>2
    <3>2. QED BY <2>2, <3>1
  <2>3. QED BY <2>1, <2>2, PredicateNode
<1> HIDE DEF B
<1>2. 0 \in H
  <2>1. PredicatesTo[0] = {} /\ 0 \in 0 .. Depth + 3
    BY PredicateLevels, DepthAssumption
  <2>2. [c \in {} |-> {}] = [x \in PredicatesTo[0] |-> B([c \in {} |-> {}], x)]
    BY <2>1
  <2>3. QED BY <2>1, <2>2
<1>3. ASSUME NEW h \in H, h < Depth + 3 PROVE h + 1 \in H
  <2>1. h \in 0 .. Depth + 2 /\ h + 1 \in 0 .. Depth + 3
    BY <1>3, DepthAssumption
  <2>2. PICK f : f = [x \in PredicatesTo[h] |-> B(f, x)]
    OBVIOUS
  <2> DEFINE g == [x \in PredicatesTo[h + 1] |-> B(f, x)]
  <2>3. ASSUME NEW c \in PredicatesTo[h] PROVE g[c] = f[c]
    <3>1. c \in PredicatesTo[h + 1]
      BY <2>1, PredicateMonotone
    <3>2. f[c] = [x \in PredicatesTo[h] |-> B(f, x)][c]
      BY <2>2
    <3>3. QED BY <3>1, <3>2
  <2>4. ASSUME NEW c \in PredicatesTo[h + 1] PROVE B(g, c) = B(f, c)
    <3> HIDE DEF g
    <3>1. \A d \in PredicatesTo[h] : g[d] = f[d]
      BY <2>3
    <3>2. QED BY <1>1, <2>1, <3>1
  <2>5. g = [x \in PredicatesTo[h + 1] |-> B(g, x)]
    BY <2>4
  <2>6. \E d : d = [x \in PredicatesTo[h + 1] |-> B(d, x)]
    BY <2>5
  <2>7. QED BY <2>1, <2>6
<1>4. \E f : f = [x \in Predicate |-> B(f, x)]
  <2>1. H \in SUBSET (0 .. Depth + 3) /\ Depth + 3 \in Nat
    BY DepthAssumption
  <2> HIDE DEF H
  <2>2. Depth + 3 \in H
    BY <1>2, <1>3, <2>1, InductTo
  <2>3. QED BY <2>2 DEF H, Predicate
<1>5. all = [x \in Predicate |-> B(all, x)]
  BY <1>4
<1>6. ASSUME NEW c PROVE Hit(c, r) = all[c]
  BY Zenon DEF Hit, B
<1> HIDE DEF all
<1>7. Hit(q, r) = B(all, q)
  BY <1>5, <1>6
<1>8. QED BY <1>6, <1>7 DEF B

(* IsConjunction by cases.                                                 *)
LEMMA IsConjunctionUnfolds ==
  ASSUME NEW q \in Predicate
  PROVE  IsConjunction(q) =
           (q.kind # "leaf" => q.op = "AND" /\ \A i \in DOMAIN q.operands : IsConjunction(q.operands[i]))
<1> DEFINE B(f, x) ==
             (x.kind # "leaf" => x.op = "AND" /\ \A i \in DOMAIN x.operands : f[x.operands[i]])
           H == {h \in 0 .. Depth + 3 : \E f : f = [x \in PredicatesTo[h] |-> B(f, x)]}
           all == CHOOSE f : f = [x \in Predicate |-> B(f, x)]
<1>1. ASSUME NEW h \in 0 .. Depth + 2, NEW node \in PredicatesTo[h + 1], NEW f, NEW g,
             \A c \in PredicatesTo[h] : g[c] = f[c]
      PROVE  B(g, node) = B(f, node)
  <2>1. CASE node.kind = "leaf"
    BY <2>1
  <2>2. CASE node.kind = "bool" /\ node.operands \in Seq(PredicatesTo[h])
    <3>1. \A i \in DOMAIN node.operands : g[node.operands[i]] = f[node.operands[i]]
      BY <1>1, <2>2
    <3>2. QED BY <2>2, <3>1
  <2>3. QED BY <2>1, <2>2, PredicateNode
<1> HIDE DEF B
<1>2. 0 \in H
  <2>1. PredicatesTo[0] = {} /\ 0 \in 0 .. Depth + 3
    BY PredicateLevels, DepthAssumption
  <2>2. [c \in {} |-> {}] = [x \in PredicatesTo[0] |-> B([c \in {} |-> {}], x)]
    BY <2>1
  <2>3. QED BY <2>1, <2>2
<1>3. ASSUME NEW h \in H, h < Depth + 3 PROVE h + 1 \in H
  <2>1. h \in 0 .. Depth + 2 /\ h + 1 \in 0 .. Depth + 3
    BY <1>3, DepthAssumption
  <2>2. PICK f : f = [x \in PredicatesTo[h] |-> B(f, x)]
    OBVIOUS
  <2> DEFINE g == [x \in PredicatesTo[h + 1] |-> B(f, x)]
  <2>3. ASSUME NEW c \in PredicatesTo[h] PROVE g[c] = f[c]
    <3>1. c \in PredicatesTo[h + 1]
      BY <2>1, PredicateMonotone
    <3>2. f[c] = [x \in PredicatesTo[h] |-> B(f, x)][c]
      BY <2>2
    <3>3. QED BY <3>1, <3>2
  <2>4. ASSUME NEW c \in PredicatesTo[h + 1] PROVE B(g, c) = B(f, c)
    <3> HIDE DEF g
    <3>1. \A d \in PredicatesTo[h] : g[d] = f[d]
      BY <2>3
    <3>2. QED BY <1>1, <2>1, <3>1
  <2>5. g = [x \in PredicatesTo[h + 1] |-> B(g, x)]
    BY <2>4
  <2>6. \E d : d = [x \in PredicatesTo[h + 1] |-> B(d, x)]
    BY <2>5
  <2>7. QED BY <2>1, <2>6
<1>4. \E f : f = [x \in Predicate |-> B(f, x)]
  <2>1. H \in SUBSET (0 .. Depth + 3) /\ Depth + 3 \in Nat
    BY DepthAssumption
  <2> HIDE DEF H
  <2>2. Depth + 3 \in H
    BY <1>2, <1>3, <2>1, InductTo
  <2>3. QED BY <2>2 DEF H, Predicate
<1>5. all = [x \in Predicate |-> B(all, x)]
  BY <1>4
<1>6. ASSUME NEW c PROVE IsConjunction(c) = all[c]
  BY Zenon DEF IsConjunction, B
<1> HIDE DEF all
<1>7. IsConjunction(q) = B(all, q)
  BY <1>5, <1>6
<1>8. QED BY <1>6, <1>7 DEF B

(* Conjuncts by cases.                                                     *)
LEMMA ConjunctsUnfold ==
  ASSUME NEW q \in Predicate
  PROVE  Conjuncts(q) =
           IF q.kind = "leaf" THEN <<q>>
           ELSE FlattenSeq([i \in DOMAIN q.operands |-> Conjuncts(q.operands[i])])
<1> DEFINE B(f, x) ==
             IF x.kind = "leaf" THEN <<x>>
             ELSE FlattenSeq([i \in DOMAIN x.operands |-> f[x.operands[i]]])
           H == {h \in 0 .. Depth + 3 : \E f : f = [x \in PredicatesTo[h] |-> B(f, x)]}
           all == CHOOSE f : f = [x \in Predicate |-> B(f, x)]
<1>1. ASSUME NEW h \in 0 .. Depth + 2, NEW node \in PredicatesTo[h + 1], NEW f, NEW g,
             \A c \in PredicatesTo[h] : g[c] = f[c]
      PROVE  B(g, node) = B(f, node)
  <2>1. CASE node.kind = "leaf"
    BY <2>1
  <2>2. CASE node.kind = "bool" /\ node.operands \in Seq(PredicatesTo[h])
    <3>1. \A i \in DOMAIN node.operands : g[node.operands[i]] = f[node.operands[i]]
      BY <1>1, <2>2
    <3>2. QED BY <2>2, <3>1
  <2>3. QED BY <2>1, <2>2, PredicateNode
<1> HIDE DEF B
<1>2. 0 \in H
  <2>1. PredicatesTo[0] = {} /\ 0 \in 0 .. Depth + 3
    BY PredicateLevels, DepthAssumption
  <2>2. [c \in {} |-> {}] = [x \in PredicatesTo[0] |-> B([c \in {} |-> {}], x)]
    BY <2>1
  <2>3. QED BY <2>1, <2>2
<1>3. ASSUME NEW h \in H, h < Depth + 3 PROVE h + 1 \in H
  <2>1. h \in 0 .. Depth + 2 /\ h + 1 \in 0 .. Depth + 3
    BY <1>3, DepthAssumption
  <2>2. PICK f : f = [x \in PredicatesTo[h] |-> B(f, x)]
    OBVIOUS
  <2> DEFINE g == [x \in PredicatesTo[h + 1] |-> B(f, x)]
  <2>3. ASSUME NEW c \in PredicatesTo[h] PROVE g[c] = f[c]
    <3>1. c \in PredicatesTo[h + 1]
      BY <2>1, PredicateMonotone
    <3>2. f[c] = [x \in PredicatesTo[h] |-> B(f, x)][c]
      BY <2>2
    <3>3. QED BY <3>1, <3>2
  <2>4. ASSUME NEW c \in PredicatesTo[h + 1] PROVE B(g, c) = B(f, c)
    <3> HIDE DEF g
    <3>1. \A d \in PredicatesTo[h] : g[d] = f[d]
      BY <2>3
    <3>2. QED BY <1>1, <2>1, <3>1
  <2>5. g = [x \in PredicatesTo[h + 1] |-> B(g, x)]
    BY <2>4
  <2>6. \E d : d = [x \in PredicatesTo[h + 1] |-> B(d, x)]
    BY <2>5
  <2>7. QED BY <2>1, <2>6
<1>4. \E f : f = [x \in Predicate |-> B(f, x)]
  <2>1. H \in SUBSET (0 .. Depth + 3) /\ Depth + 3 \in Nat
    BY DepthAssumption
  <2> HIDE DEF H
  <2>2. Depth + 3 \in H
    BY <1>2, <1>3, <2>1, InductTo
  <2>3. QED BY <2>2 DEF H, Predicate
<1>5. all = [x \in Predicate |-> B(all, x)]
  BY <1>4
<1>6. ASSUME NEW c PROVE Conjuncts(c) = all[c]
  BY Zenon DEF Conjuncts, B
<1> HIDE DEF all
<1>7. Conjuncts(q) = B(all, q)
  BY <1>5, <1>6
<1>8. QED BY <1>6, <1>7 DEF B

(* Matchers by cases.                                                      *)
LEMMA MatchersUnfold ==
  ASSUME NEW q \in Predicate
  PROVE  Matchers(q) =
           IF q.kind = "leaf" THEN {q} ELSE UNION {Matchers(q.operands[i]) : i \in DOMAIN q.operands}
<1> DEFINE B(f, x) ==
             IF x.kind = "leaf" THEN {x} ELSE UNION {f[x.operands[i]] : i \in DOMAIN x.operands}
           H == {h \in 0 .. Depth + 3 : \E f : f = [x \in PredicatesTo[h] |-> B(f, x)]}
           all == CHOOSE f : f = [x \in Predicate |-> B(f, x)]
<1>1. ASSUME NEW h \in 0 .. Depth + 2, NEW node \in PredicatesTo[h + 1], NEW f, NEW g,
             \A c \in PredicatesTo[h] : g[c] = f[c]
      PROVE  B(g, node) = B(f, node)
  <2>1. CASE node.kind = "leaf"
    BY <2>1
  <2>2. CASE node.kind = "bool" /\ node.operands \in Seq(PredicatesTo[h])
    <3>1. \A i \in DOMAIN node.operands : g[node.operands[i]] = f[node.operands[i]]
      BY <1>1, <2>2
    <3>2. QED BY <2>2, <3>1
  <2>3. QED BY <2>1, <2>2, PredicateNode
<1> HIDE DEF B
<1>2. 0 \in H
  <2>1. PredicatesTo[0] = {} /\ 0 \in 0 .. Depth + 3
    BY PredicateLevels, DepthAssumption
  <2>2. [c \in {} |-> {}] = [x \in PredicatesTo[0] |-> B([c \in {} |-> {}], x)]
    BY <2>1
  <2>3. QED BY <2>1, <2>2
<1>3. ASSUME NEW h \in H, h < Depth + 3 PROVE h + 1 \in H
  <2>1. h \in 0 .. Depth + 2 /\ h + 1 \in 0 .. Depth + 3
    BY <1>3, DepthAssumption
  <2>2. PICK f : f = [x \in PredicatesTo[h] |-> B(f, x)]
    OBVIOUS
  <2> DEFINE g == [x \in PredicatesTo[h + 1] |-> B(f, x)]
  <2>3. ASSUME NEW c \in PredicatesTo[h] PROVE g[c] = f[c]
    <3>1. c \in PredicatesTo[h + 1]
      BY <2>1, PredicateMonotone
    <3>2. f[c] = [x \in PredicatesTo[h] |-> B(f, x)][c]
      BY <2>2
    <3>3. QED BY <3>1, <3>2
  <2>4. ASSUME NEW c \in PredicatesTo[h + 1] PROVE B(g, c) = B(f, c)
    <3> HIDE DEF g
    <3>1. \A d \in PredicatesTo[h] : g[d] = f[d]
      BY <2>3
    <3>2. QED BY <1>1, <2>1, <3>1
  <2>5. g = [x \in PredicatesTo[h + 1] |-> B(g, x)]
    BY <2>4
  <2>6. \E d : d = [x \in PredicatesTo[h + 1] |-> B(d, x)]
    BY <2>5
  <2>7. QED BY <2>1, <2>6
<1>4. \E f : f = [x \in Predicate |-> B(f, x)]
  <2>1. H \in SUBSET (0 .. Depth + 3) /\ Depth + 3 \in Nat
    BY DepthAssumption
  <2> HIDE DEF H
  <2>2. Depth + 3 \in H
    BY <1>2, <1>3, <2>1, InductTo
  <2>3. QED BY <2>2 DEF H, Predicate
<1>5. all = [x \in Predicate |-> B(all, x)]
  BY <1>4
<1>6. ASSUME NEW c PROVE Matchers(c) = all[c]
  BY Zenon DEF Matchers, B
<1> HIDE DEF all
<1>7. Matchers(q) = B(all, q)
  BY <1>5, <1>6
<1>8. QED BY <1>6, <1>7 DEF B

(* ESClause by cases.                                                      *)
LEMMA ESClauseUnfolds ==
  ASSUME NEW q \in Predicate
  PROVE  ESClause(q) =
           IF q.kind = "bool" THEN [q EXCEPT !.operands = [i \in DOMAIN @ |-> ESClause(@[i])]]
           ELSE IF Positive(q.op) THEN q
           ELSE Bool("NOT", <<Negation(q)>>)
<1> DEFINE B(f, x) ==
             IF x.kind = "bool" THEN [x EXCEPT !.operands = [i \in DOMAIN @ |-> f[@[i]]]]
             ELSE IF Positive(x.op) THEN x
             ELSE Bool("NOT", <<Negation(x)>>)
           H == {h \in 0 .. Depth + 3 : \E f : f = [x \in PredicatesTo[h] |-> B(f, x)]}
           all == CHOOSE f : f = [x \in Predicate |-> B(f, x)]
<1>1. ASSUME NEW h \in 0 .. Depth + 2, NEW node \in PredicatesTo[h + 1], NEW f, NEW g,
             \A c \in PredicatesTo[h] : g[c] = f[c]
      PROVE  B(g, node) = B(f, node)
  <2>1. CASE node.kind = "leaf"
    BY <2>1
  <2>2. CASE node.kind = "bool" /\ node.operands \in Seq(PredicatesTo[h])
    <3>1. \A i \in DOMAIN node.operands : g[node.operands[i]] = f[node.operands[i]]
      BY <1>1, <2>2
    <3>2. [i \in DOMAIN node.operands |-> g[node.operands[i]]]
            = [i \in DOMAIN node.operands |-> f[node.operands[i]]]
      BY <3>1
    <3>3. QED BY <2>2, <3>2
  <2>3. QED BY <2>1, <2>2, PredicateNode
<1> HIDE DEF B
<1>2. 0 \in H
  <2>1. PredicatesTo[0] = {} /\ 0 \in 0 .. Depth + 3
    BY PredicateLevels, DepthAssumption
  <2>2. [c \in {} |-> {}] = [x \in PredicatesTo[0] |-> B([c \in {} |-> {}], x)]
    BY <2>1
  <2>3. QED BY <2>1, <2>2
<1>3. ASSUME NEW h \in H, h < Depth + 3 PROVE h + 1 \in H
  <2>1. h \in 0 .. Depth + 2 /\ h + 1 \in 0 .. Depth + 3
    BY <1>3, DepthAssumption
  <2>2. PICK f : f = [x \in PredicatesTo[h] |-> B(f, x)]
    OBVIOUS
  <2> DEFINE g == [x \in PredicatesTo[h + 1] |-> B(f, x)]
  <2>3. ASSUME NEW c \in PredicatesTo[h] PROVE g[c] = f[c]
    <3>1. c \in PredicatesTo[h + 1]
      BY <2>1, PredicateMonotone
    <3>2. f[c] = [x \in PredicatesTo[h] |-> B(f, x)][c]
      BY <2>2
    <3>3. QED BY <3>1, <3>2
  <2>4. ASSUME NEW c \in PredicatesTo[h + 1] PROVE B(g, c) = B(f, c)
    <3> HIDE DEF g
    <3>1. \A d \in PredicatesTo[h] : g[d] = f[d]
      BY <2>3
    <3>2. QED BY <1>1, <2>1, <3>1
  <2>5. g = [x \in PredicatesTo[h + 1] |-> B(g, x)]
    BY <2>4
  <2>6. \E d : d = [x \in PredicatesTo[h + 1] |-> B(d, x)]
    BY <2>5
  <2>7. QED BY <2>1, <2>6
<1>4. \E f : f = [x \in Predicate |-> B(f, x)]
  <2>1. H \in SUBSET (0 .. Depth + 3) /\ Depth + 3 \in Nat
    BY DepthAssumption
  <2> HIDE DEF H
  <2>2. Depth + 3 \in H
    BY <1>2, <1>3, <2>1, InductTo
  <2>3. QED BY <2>2 DEF H, Predicate
<1>5. all = [x \in Predicate |-> B(all, x)]
  BY <1>4
<1>6. ASSUME NEW c PROVE ESClause(c) = all[c]
  BY Zenon DEF ESClause, B
<1> HIDE DEF all
<1>7. ESClause(q) = B(all, q)
  BY <1>5, <1>6
<1>8. QED BY <1>6, <1>7 DEF B

(* What a plan is: a Select, or a node over plans a level less.            *)
LEMMA PlanNode ==
  ASSUME NEW selects, NEW h \in 0 .. Depth - 1,
         NEW n \in PlansTo(selects)[h + 1],
         NEW below, below = PlansTo(selects)[h]
  PROVE  \/ n \in selects
         \/ n = Literal
         \/ /\ n = TimeAgg(n.op, n.window, n.input)
            /\ n.op \in String /\ n.window \in Int /\ n.input \in below
         \/ /\ n = Aggregate(n.op, n.by, n.without, n.param, n.input)
            /\ n.op \in String /\ n.by \in SUBSET String /\ n.without \in SUBSET String
            /\ n.param \in Int /\ n.input \in below
         \/ /\ n = Function(n.name, n.args)
            /\ n.name \in String /\ n.args \in Seq(below)
         \/ /\ n = Binary(n.op, n.lhs, n.rhs, n.matching)
            /\ n.op \in String /\ n.matching \in {Nil} \cup VectorMatching
            /\ n.lhs \in below /\ n.rhs \in below
<1>1. n \in PlansOver(below, selects)
  BY PlanLevels
<1>2. QED BY <1>1 DEF PlansOver, TimeAgg, Aggregate, Function, Binary

(* The levels of the plans that Plan is the last one of.                   *)
PlanTo == PlansTo(SelectsOf({Nil} \cup Predicate))

(* Its levels grow, and Plan is the last.                                  *)
LEMMA PlanToLevels ==
  /\ PlanTo[0] = {} /\ PlanTo[Depth] = Plan
  /\ \A h \in 0 .. Depth - 1 : PlanTo[h] \subseteq PlanTo[h + 1]
  /\ \A h \in 0 .. Depth : PlanTo[h] \subseteq Plan
<1>1. PlanTo[0] = {} /\ PlanTo[Depth] = Plan
  BY PlanLevels DEF PlanTo, Plan
<1>2. ASSUME NEW h \in 0 .. Depth - 1 PROVE PlanTo[h] \subseteq PlanTo[h + 1]
  BY PlanMonotone DEF PlanTo
<1>3. ASSUME NEW h \in 0 .. Depth PROVE PlanTo[h] \subseteq PlanTo[Depth]
  <2>1. Depth \in 0 .. Depth
    BY DepthAssumption
  <2>2. QED BY <2>1, PlanWithin DEF PlanTo
<1>4. QED BY <1>1, <1>2, <1>3

(* A plan by the kind of its root.                                         *)
LEMMA FilterKinds ==
  ASSUME NEW filters, NEW levels, levels = PlansTo(SelectsOf(filters)),
         NEW h \in 0 .. Depth - 1, NEW n \in levels[h + 1]
  PROVE  \/ /\ n = Select(n.signal, n.filter, n.lines) /\ n.kind = "select"
            /\ n.signal \in String /\ n.filter \in filters /\ n.lines \in Seq(Line)
         \/ n = Literal /\ n.kind = "literal"
         \/ /\ n = TimeAgg(n.op, n.window, n.input) /\ n.kind = "timeAgg"
            /\ n.op \in String /\ n.window \in Int /\ n.input \in levels[h]
         \/ /\ n = Aggregate(n.op, n.by, n.without, n.param, n.input) /\ n.kind = "aggregate"
            /\ n.op \in String /\ n.by \in SUBSET String /\ n.without \in SUBSET String
            /\ n.param \in Int /\ n.input \in levels[h]
         \/ /\ n = Function(n.name, n.args) /\ n.kind = "function"
            /\ n.name \in String /\ n.args \in Seq(levels[h])
         \/ /\ n = Binary(n.op, n.lhs, n.rhs, n.matching) /\ n.kind = "binary"
            /\ n.op \in String /\ n.matching \in {Nil} \cup VectorMatching
            /\ n.lhs \in levels[h] /\ n.rhs \in levels[h]
<1>1. CASE n \in SelectsOf(filters)
  BY <1>1 DEF SelectsOf, Select
<1>2. CASE n \notin SelectsOf(filters)
  <2>1. \/ n = Literal
        \/ /\ n = TimeAgg(n.op, n.window, n.input)
           /\ n.op \in String /\ n.window \in Int /\ n.input \in levels[h]
        \/ /\ n = Aggregate(n.op, n.by, n.without, n.param, n.input)
           /\ n.op \in String /\ n.by \in SUBSET String /\ n.without \in SUBSET String
           /\ n.param \in Int /\ n.input \in levels[h]
        \/ /\ n = Function(n.name, n.args)
           /\ n.name \in String /\ n.args \in Seq(levels[h])
        \/ /\ n = Binary(n.op, n.lhs, n.rhs, n.matching)
           /\ n.op \in String /\ n.matching \in {Nil} \cup VectorMatching
           /\ n.lhs \in levels[h] /\ n.rhs \in levels[h]
    BY <1>2, PlanNode
  <2>2. QED BY <2>1 DEF Literal, TimeAgg, Aggregate, Function, Binary
<1>3. QED BY <1>1, <1>2

(* The same of a Plan, any of whose filters may be.                        *)
LEMMA PlanKinds ==
  ASSUME NEW h \in 0 .. Depth - 1, NEW n \in PlanTo[h + 1]
  PROVE  \/ /\ n = Select(n.signal, n.filter, n.lines) /\ n.kind = "select"
            /\ n.signal \in String /\ n.filter \in {Nil} \cup Predicate /\ n.lines \in Seq(Line)
         \/ n = Literal /\ n.kind = "literal"
         \/ /\ n = TimeAgg(n.op, n.window, n.input) /\ n.kind = "timeAgg"
            /\ n.op \in String /\ n.window \in Int /\ n.input \in PlanTo[h]
         \/ /\ n = Aggregate(n.op, n.by, n.without, n.param, n.input) /\ n.kind = "aggregate"
            /\ n.op \in String /\ n.by \in SUBSET String /\ n.without \in SUBSET String
            /\ n.param \in Int /\ n.input \in PlanTo[h]
         \/ /\ n = Function(n.name, n.args) /\ n.kind = "function"
            /\ n.name \in String /\ n.args \in Seq(PlanTo[h])
         \/ /\ n = Binary(n.op, n.lhs, n.rhs, n.matching) /\ n.kind = "binary"
            /\ n.op \in String /\ n.matching \in {Nil} \cup VectorMatching
            /\ n.lhs \in PlanTo[h] /\ n.rhs \in PlanTo[h]
BY FilterKinds DEF PlanTo

(* PlanMeaning by cases.                                                   *)
LEMMA PlanMeaningUnfolds ==
  ASSUME NEW D, NEW n \in Plan
  PROVE  PlanMeaning(n, D) =
           IF n.kind = "select" THEN
               Rows({r \in D : /\ r.signal = n.signal /\ Passes(n.filter, r)
                               /\ LinesPass(n.lines, r)})
           ELSE IF n.kind = "timeAgg" THEN Mapped(n.op, n.window, PlanMeaning(n.input, D))
           ELSE IF n.kind = "aggregate" THEN
               Reduced(PlanMeaning(n.input, D), n.op, Grouping(n), GroupLabels(n), <<n.param>>)
           ELSE IF n.kind = "function" THEN
               IF Len(n.args) = 1 THEN Mapped(n.name, 0, PlanMeaning(n.args[1], D)) ELSE Error
           ELSE IF n.kind = "binary" THEN
               Paired(n.op, MatchingClause(n.matching), PlanMeaning(n.lhs, D), PlanMeaning(n.rhs, D))
           ELSE Scalar
<1> DEFINE B(f, x) ==
             IF x.kind = "select" THEN
                 Rows({r \in D : /\ r.signal = x.signal /\ Passes(x.filter, r)
                                 /\ LinesPass(x.lines, r)})
             ELSE IF x.kind = "timeAgg" THEN Mapped(x.op, x.window, f[x.input])
             ELSE IF x.kind = "aggregate" THEN
                 Reduced(f[x.input], x.op, Grouping(x), GroupLabels(x), <<x.param>>)
             ELSE IF x.kind = "function" THEN
                 IF Len(x.args) = 1 THEN Mapped(x.name, 0, f[x.args[1]]) ELSE Error
             ELSE IF x.kind = "binary" THEN
                 Paired(x.op, MatchingClause(x.matching), f[x.lhs], f[x.rhs])
             ELSE Scalar
           H == {h \in 0 .. Depth : \E f : f = [x \in PlanTo[h] |-> B(f, x)]}
           all == CHOOSE f : f = [x \in Plan |-> B(f, x)]
<1>1. ASSUME NEW h \in 0 .. Depth - 1, NEW node \in PlanTo[h + 1], NEW f, NEW g,
             \A c \in PlanTo[h] : g[c] = f[c]
      PROVE  B(g, node) = B(f, node)
  <2>1. CASE node.kind \in {"select", "literal"}
    BY <2>1
  <2>2. CASE node.kind = "timeAgg" /\ node.input \in PlanTo[h]
    BY <1>1, <2>2
  <2>3. CASE node.kind = "aggregate" /\ node.input \in PlanTo[h]
    BY <1>1, <2>3
  <2>4. CASE node.kind = "function" /\ node.args \in Seq(PlanTo[h])
    <3>1. \A i \in DOMAIN node.args : g[node.args[i]] = f[node.args[i]]
      BY <1>1, <2>4
    <3>2. [i \in DOMAIN node.args |-> g[node.args[i]]] = [i \in DOMAIN node.args |-> f[node.args[i]]]
      BY <3>1
    <3>3. Len(node.args) = 1 => 1 \in DOMAIN node.args
      BY <2>4
    <3>4. QED BY <2>4, <3>1, <3>2, <3>3
  <2>5. CASE node.kind = "binary" /\ node.lhs \in PlanTo[h] /\ node.rhs \in PlanTo[h]
    BY <1>1, <2>5
  <2>6. QED BY <2>1, <2>2, <2>3, <2>4, <2>5, PlanKinds
<1> HIDE DEF B
<1>2. 0 \in H
  <2>1. PlanTo[0] = {} /\ 0 \in 0 .. Depth
    BY PlanToLevels, DepthAssumption
  <2>2. [c \in {} |-> {}] = [x \in PlanTo[0] |-> B([c \in {} |-> {}], x)]
    BY <2>1
  <2>3. QED BY <2>1, <2>2
<1>3. ASSUME NEW h \in H, h < Depth PROVE h + 1 \in H
  <2>1. h \in 0 .. Depth - 1 /\ h + 1 \in 0 .. Depth
    BY <1>3, DepthAssumption
  <2>2. PICK f : f = [x \in PlanTo[h] |-> B(f, x)]
    OBVIOUS
  <2> DEFINE g == [x \in PlanTo[h + 1] |-> B(f, x)]
  <2>3. ASSUME NEW c \in PlanTo[h] PROVE g[c] = f[c]
    <3>1. c \in PlanTo[h + 1]
      BY <2>1, PlanToLevels
    <3>2. f[c] = [x \in PlanTo[h] |-> B(f, x)][c]
      BY <2>2
    <3>3. QED BY <3>1, <3>2
  <2>4. ASSUME NEW c \in PlanTo[h + 1] PROVE B(g, c) = B(f, c)
    <3> HIDE DEF g
    <3>1. \A d \in PlanTo[h] : g[d] = f[d]
      BY <2>3
    <3>2. QED BY <1>1, <2>1, <3>1
  <2>5. g = [x \in PlanTo[h + 1] |-> B(g, x)]
    BY <2>4
  <2>6. \E d : d = [x \in PlanTo[h + 1] |-> B(d, x)]
    BY <2>5
  <2>7. QED BY <2>1, <2>6
<1>4. \E f : f = [x \in Plan |-> B(f, x)]
  <2>1. H \in SUBSET (0 .. Depth) /\ Depth \in Nat
    BY DepthAssumption
  <2> HIDE DEF H
  <2>2. Depth \in H
    BY <1>2, <1>3, <2>1, InductTo
  <2>3. QED BY <2>2, PlanToLevels DEF H
<1>5. all = [x \in Plan |-> B(all, x)]
  BY <1>4
<1>6. ASSUME NEW c PROVE PlanMeaning(c, D) = all[c]
  BY Zenon DEF PlanMeaning, B
<1> HIDE DEF all
<1>7. PlanMeaning(n, D) = B(all, n)
  BY <1>5, <1>6
<1>8. QED BY <1>6, <1>7 DEF B

(* Composed by cases.                                                      *)
LEMMA ComposedUnfolds ==
  ASSUME NEW e, NEW n \in Plan
  PROVE  Composed(n, e) =
           IF n.kind = "select" THEN [n EXCEPT !.filter = Conjoin(@, e)]
           ELSE IF n.kind \in {"timeAgg", "aggregate"} THEN [n EXCEPT !.input = Composed(@, e)]
           ELSE IF n.kind = "function" THEN
               [n EXCEPT !.args = [i \in DOMAIN @ |-> Composed(@[i], e)]]
           ELSE IF n.kind = "binary" THEN [n EXCEPT !.lhs = Composed(@, e), !.rhs = Composed(@, e)]
           ELSE n
<1> DEFINE B(f, x) ==
             IF x.kind = "select" THEN [x EXCEPT !.filter = Conjoin(@, e)]
             ELSE IF x.kind \in {"timeAgg", "aggregate"} THEN [x EXCEPT !.input = f[@]]
             ELSE IF x.kind = "function" THEN
                 [x EXCEPT !.args = [i \in DOMAIN @ |-> f[@[i]]]]
             ELSE IF x.kind = "binary" THEN [x EXCEPT !.lhs = f[@], !.rhs = f[@]]
             ELSE x
           H == {h \in 0 .. Depth : \E f : f = [x \in PlanTo[h] |-> B(f, x)]}
           all == CHOOSE f : f = [x \in Plan |-> B(f, x)]
<1>1. ASSUME NEW h \in 0 .. Depth - 1, NEW node \in PlanTo[h + 1], NEW f, NEW g,
             \A c \in PlanTo[h] : g[c] = f[c]
      PROVE  B(g, node) = B(f, node)
  <2>1. CASE node.kind \in {"select", "literal"}
    BY <2>1
  <2>2. CASE node.kind = "timeAgg" /\ node.input \in PlanTo[h]
    BY <1>1, <2>2
  <2>3. CASE node.kind = "aggregate" /\ node.input \in PlanTo[h]
    BY <1>1, <2>3
  <2>4. CASE node.kind = "function" /\ node.args \in Seq(PlanTo[h])
    <3>1. \A i \in DOMAIN node.args : g[node.args[i]] = f[node.args[i]]
      BY <1>1, <2>4
    <3>2. [i \in DOMAIN node.args |-> g[node.args[i]]] = [i \in DOMAIN node.args |-> f[node.args[i]]]
      BY <3>1
    <3>3. Len(node.args) = 1 => 1 \in DOMAIN node.args
      BY <2>4
    <3>4. QED BY <2>4, <3>1, <3>2, <3>3
  <2>5. CASE node.kind = "binary" /\ node.lhs \in PlanTo[h] /\ node.rhs \in PlanTo[h]
    BY <1>1, <2>5
  <2>6. QED BY <2>1, <2>2, <2>3, <2>4, <2>5, PlanKinds
<1> HIDE DEF B
<1>2. 0 \in H
  <2>1. PlanTo[0] = {} /\ 0 \in 0 .. Depth
    BY PlanToLevels, DepthAssumption
  <2>2. [c \in {} |-> {}] = [x \in PlanTo[0] |-> B([c \in {} |-> {}], x)]
    BY <2>1
  <2>3. QED BY <2>1, <2>2
<1>3. ASSUME NEW h \in H, h < Depth PROVE h + 1 \in H
  <2>1. h \in 0 .. Depth - 1 /\ h + 1 \in 0 .. Depth
    BY <1>3, DepthAssumption
  <2>2. PICK f : f = [x \in PlanTo[h] |-> B(f, x)]
    OBVIOUS
  <2> DEFINE g == [x \in PlanTo[h + 1] |-> B(f, x)]
  <2>3. ASSUME NEW c \in PlanTo[h] PROVE g[c] = f[c]
    <3>1. c \in PlanTo[h + 1]
      BY <2>1, PlanToLevels
    <3>2. f[c] = [x \in PlanTo[h] |-> B(f, x)][c]
      BY <2>2
    <3>3. QED BY <3>1, <3>2
  <2>4. ASSUME NEW c \in PlanTo[h + 1] PROVE B(g, c) = B(f, c)
    <3> HIDE DEF g
    <3>1. \A d \in PlanTo[h] : g[d] = f[d]
      BY <2>3
    <3>2. QED BY <1>1, <2>1, <3>1
  <2>5. g = [x \in PlanTo[h + 1] |-> B(g, x)]
    BY <2>4
  <2>6. \E d : d = [x \in PlanTo[h + 1] |-> B(d, x)]
    BY <2>5
  <2>7. QED BY <2>1, <2>6
<1>4. \E f : f = [x \in Plan |-> B(f, x)]
  <2>1. H \in SUBSET (0 .. Depth) /\ Depth \in Nat
    BY DepthAssumption
  <2> HIDE DEF H
  <2>2. Depth \in H
    BY <1>2, <1>3, <2>1, InductTo
  <2>3. QED BY <2>2, PlanToLevels DEF H
<1>5. all = [x \in Plan |-> B(all, x)]
  BY <1>4
<1>6. ASSUME NEW c PROVE Composed(c, e) = all[c]
  BY Zenon DEF Composed, B
<1> HIDE DEF all
<1>7. Composed(n, e) = B(all, n)
  BY <1>5, <1>6
<1>8. QED BY <1>6, <1>7 DEF B

(* PlanSignals by cases.                                                   *)
LEMMA PlanSignalsUnfolds ==
  ASSUME NEW n \in Plan
  PROVE  PlanSignals(n) =
           IF n.kind = "select" THEN {n.signal}
           ELSE IF n.kind \in {"timeAgg", "aggregate"} THEN PlanSignals(n.input)
           ELSE IF n.kind = "function" THEN UNION {PlanSignals(n.args[i]) : i \in DOMAIN n.args}
           ELSE IF n.kind = "binary" THEN PlanSignals(n.lhs) \cup PlanSignals(n.rhs)
           ELSE {}
<1> DEFINE B(f, x) ==
             IF x.kind = "select" THEN {x.signal}
             ELSE IF x.kind \in {"timeAgg", "aggregate"} THEN f[x.input]
             ELSE IF x.kind = "function" THEN UNION {f[x.args[i]] : i \in DOMAIN x.args}
             ELSE IF x.kind = "binary" THEN f[x.lhs] \cup f[x.rhs]
             ELSE {}
           H == {h \in 0 .. Depth : \E f : f = [x \in PlanTo[h] |-> B(f, x)]}
           all == CHOOSE f : f = [x \in Plan |-> B(f, x)]
<1>1. ASSUME NEW h \in 0 .. Depth - 1, NEW node \in PlanTo[h + 1], NEW f, NEW g,
             \A c \in PlanTo[h] : g[c] = f[c]
      PROVE  B(g, node) = B(f, node)
  <2>1. CASE node.kind \in {"select", "literal"}
    BY <2>1
  <2>2. CASE node.kind = "timeAgg" /\ node.input \in PlanTo[h]
    BY <1>1, <2>2
  <2>3. CASE node.kind = "aggregate" /\ node.input \in PlanTo[h]
    BY <1>1, <2>3
  <2>4. CASE node.kind = "function" /\ node.args \in Seq(PlanTo[h])
    <3>1. \A i \in DOMAIN node.args : g[node.args[i]] = f[node.args[i]]
      BY <1>1, <2>4
    <3>2. [i \in DOMAIN node.args |-> g[node.args[i]]] = [i \in DOMAIN node.args |-> f[node.args[i]]]
      BY <3>1
    <3>3. Len(node.args) = 1 => 1 \in DOMAIN node.args
      BY <2>4
    <3>4. QED BY <2>4, <3>1, <3>2, <3>3
  <2>5. CASE node.kind = "binary" /\ node.lhs \in PlanTo[h] /\ node.rhs \in PlanTo[h]
    BY <1>1, <2>5
  <2>6. QED BY <2>1, <2>2, <2>3, <2>4, <2>5, PlanKinds
<1> HIDE DEF B
<1>2. 0 \in H
  <2>1. PlanTo[0] = {} /\ 0 \in 0 .. Depth
    BY PlanToLevels, DepthAssumption
  <2>2. [c \in {} |-> {}] = [x \in PlanTo[0] |-> B([c \in {} |-> {}], x)]
    BY <2>1
  <2>3. QED BY <2>1, <2>2
<1>3. ASSUME NEW h \in H, h < Depth PROVE h + 1 \in H
  <2>1. h \in 0 .. Depth - 1 /\ h + 1 \in 0 .. Depth
    BY <1>3, DepthAssumption
  <2>2. PICK f : f = [x \in PlanTo[h] |-> B(f, x)]
    OBVIOUS
  <2> DEFINE g == [x \in PlanTo[h + 1] |-> B(f, x)]
  <2>3. ASSUME NEW c \in PlanTo[h] PROVE g[c] = f[c]
    <3>1. c \in PlanTo[h + 1]
      BY <2>1, PlanToLevels
    <3>2. f[c] = [x \in PlanTo[h] |-> B(f, x)][c]
      BY <2>2
    <3>3. QED BY <3>1, <3>2
  <2>4. ASSUME NEW c \in PlanTo[h + 1] PROVE B(g, c) = B(f, c)
    <3> HIDE DEF g
    <3>1. \A d \in PlanTo[h] : g[d] = f[d]
      BY <2>3
    <3>2. QED BY <1>1, <2>1, <3>1
  <2>5. g = [x \in PlanTo[h + 1] |-> B(g, x)]
    BY <2>4
  <2>6. \E d : d = [x \in PlanTo[h + 1] |-> B(d, x)]
    BY <2>5
  <2>7. QED BY <2>1, <2>6
<1>4. \E f : f = [x \in Plan |-> B(f, x)]
  <2>1. H \in SUBSET (0 .. Depth) /\ Depth \in Nat
    BY DepthAssumption
  <2> HIDE DEF H
  <2>2. Depth \in H
    BY <1>2, <1>3, <2>1, InductTo
  <2>3. QED BY <2>2, PlanToLevels DEF H
<1>5. all = [x \in Plan |-> B(all, x)]
  BY <1>4
<1>6. ASSUME NEW c PROVE PlanSignals(c) = all[c]
  BY Zenon DEF PlanSignals, B
<1> HIDE DEF all
<1>7. PlanSignals(n) = B(all, n)
  BY <1>5, <1>6
<1>8. QED BY <1>6, <1>7 DEF B

(* Renders by cases.                                                       *)
LEMMA RendersUnfolds ==
  ASSUME NEW lang, NEW n \in Plan
  PROVE  Renders(lang, n) =
           /\ n.kind = "select" =>
                /\ n.signal = SignalOf[lang] /\ (lang = "promql" => n.lines = <<>>)
                /\ Flat(n.filter)
                /\ \A m \in ToSet(Conjuncts(n.filter)) : m.name \in Identifier
           /\ n.kind = "timeAgg" => n.op \in RangeFuncs[lang] /\ Renders(lang, n.input)
           /\ n.kind = "aggregate" =>
                /\ n.op \in RenderedAggs[lang] /\ GroupLabels(n) \subseteq Identifier
                /\ Renders(lang, n.input)
           /\ n.kind = "function" =>
                n.name \in Identifier /\ \A i \in DOMAIN n.args : Renders(lang, n.args[i])
           /\ n.kind = "binary" =>
                /\ n.op \in RenderedBinOps[lang]
                /\ lang = "promql" => LET mod == MatchingClause(n.matching)
                                      IN  mod.labels \cup mod.include \subseteq Identifier
                /\ Renders(lang, n.lhs) /\ Renders(lang, n.rhs)
<1> DEFINE B(f, x) ==
             /\ x.kind = "select" =>
                  /\ x.signal = SignalOf[lang] /\ (lang = "promql" => x.lines = <<>>)
                  /\ Flat(x.filter)
                  /\ \A m \in ToSet(Conjuncts(x.filter)) : m.name \in Identifier
             /\ x.kind = "timeAgg" => x.op \in RangeFuncs[lang] /\ f[x.input]
             /\ x.kind = "aggregate" =>
                  /\ x.op \in RenderedAggs[lang] /\ GroupLabels(x) \subseteq Identifier
                  /\ f[x.input]
             /\ x.kind = "function" =>
                  x.name \in Identifier /\ \A i \in DOMAIN x.args : f[x.args[i]]
             /\ x.kind = "binary" =>
                  /\ x.op \in RenderedBinOps[lang]
                  /\ lang = "promql" => LET mod == MatchingClause(x.matching)
                                        IN  mod.labels \cup mod.include \subseteq Identifier
                  /\ f[x.lhs] /\ f[x.rhs]
           H == {h \in 0 .. Depth : \E f : f = [x \in PlanTo[h] |-> B(f, x)]}
           all == CHOOSE f : f = [x \in Plan |-> B(f, x)]
<1>1. ASSUME NEW h \in 0 .. Depth - 1, NEW node \in PlanTo[h + 1], NEW f, NEW g,
             \A c \in PlanTo[h] : g[c] = f[c]
      PROVE  B(g, node) = B(f, node)
  <2>1. CASE node.kind \in {"select", "literal"}
    BY <2>1
  <2>2. CASE node.kind = "timeAgg" /\ node.input \in PlanTo[h]
    BY <1>1, <2>2
  <2>3. CASE node.kind = "aggregate" /\ node.input \in PlanTo[h]
    BY <1>1, <2>3
  <2>4. CASE node.kind = "function" /\ node.args \in Seq(PlanTo[h])
    <3>1. \A i \in DOMAIN node.args : g[node.args[i]] = f[node.args[i]]
      BY <1>1, <2>4
    <3>2. [i \in DOMAIN node.args |-> g[node.args[i]]] = [i \in DOMAIN node.args |-> f[node.args[i]]]
      BY <3>1
    <3>3. Len(node.args) = 1 => 1 \in DOMAIN node.args
      BY <2>4
    <3>4. QED BY <2>4, <3>1, <3>2, <3>3
  <2>5. CASE node.kind = "binary" /\ node.lhs \in PlanTo[h] /\ node.rhs \in PlanTo[h]
    BY <1>1, <2>5
  <2>6. QED BY <2>1, <2>2, <2>3, <2>4, <2>5, PlanKinds
<1> HIDE DEF B
<1>2. 0 \in H
  <2>1. PlanTo[0] = {} /\ 0 \in 0 .. Depth
    BY PlanToLevels, DepthAssumption
  <2>2. [c \in {} |-> {}] = [x \in PlanTo[0] |-> B([c \in {} |-> {}], x)]
    BY <2>1
  <2>3. QED BY <2>1, <2>2
<1>3. ASSUME NEW h \in H, h < Depth PROVE h + 1 \in H
  <2>1. h \in 0 .. Depth - 1 /\ h + 1 \in 0 .. Depth
    BY <1>3, DepthAssumption
  <2>2. PICK f : f = [x \in PlanTo[h] |-> B(f, x)]
    OBVIOUS
  <2> DEFINE g == [x \in PlanTo[h + 1] |-> B(f, x)]
  <2>3. ASSUME NEW c \in PlanTo[h] PROVE g[c] = f[c]
    <3>1. c \in PlanTo[h + 1]
      BY <2>1, PlanToLevels
    <3>2. f[c] = [x \in PlanTo[h] |-> B(f, x)][c]
      BY <2>2
    <3>3. QED BY <3>1, <3>2
  <2>4. ASSUME NEW c \in PlanTo[h + 1] PROVE B(g, c) = B(f, c)
    <3> HIDE DEF g
    <3>1. \A d \in PlanTo[h] : g[d] = f[d]
      BY <2>3
    <3>2. QED BY <1>1, <2>1, <3>1
  <2>5. g = [x \in PlanTo[h + 1] |-> B(g, x)]
    BY <2>4
  <2>6. \E d : d = [x \in PlanTo[h + 1] |-> B(d, x)]
    BY <2>5
  <2>7. QED BY <2>1, <2>6
<1>4. \E f : f = [x \in Plan |-> B(f, x)]
  <2>1. H \in SUBSET (0 .. Depth) /\ Depth \in Nat
    BY DepthAssumption
  <2> HIDE DEF H
  <2>2. Depth \in H
    BY <1>2, <1>3, <2>1, InductTo
  <2>3. QED BY <2>2, PlanToLevels DEF H
<1>5. all = [x \in Plan |-> B(all, x)]
  BY <1>4
<1>6. ASSUME NEW c PROVE Renders(lang, c) = all[c]
  BY Zenon DEF Renders, B
<1> HIDE DEF all
<1>7. Renders(lang, n) = B(all, n)
  BY <1>5, <1>6
<1>8. QED BY <1>6, <1>7 DEF B

(* Text by cases.                                                          *)
LEMMA TextUnfolds ==
  ASSUME NEW lang, NEW n \in Plan
  PROVE  Text(lang, n) =
           IF n.kind = "select" THEN Selector(Conjuncts(n.filter), n.lines)
           ELSE IF n.kind = "timeAgg" THEN RangeCall(n.op, Duration(n.window), Text(lang, n.input))
           ELSE IF n.kind = "aggregate" THEN
               Agg(n.op, Grouping(n), GroupLabels(n),
                   IF n.op \in TakesParam THEN <<n.param>> ELSE <<>>, Text(lang, n.input))
           ELSE IF n.kind = "function" THEN
               Call(n.name, [i \in DOMAIN n.args |-> Text(lang, n.args[i])])
           ELSE IF n.kind = "binary" THEN
               Bin(n.op, IF lang = "promql" THEN MatchingClause(n.matching) ELSE NoModifier,
                   Text(lang, n.lhs), Text(lang, n.rhs))
           ELSE Number
<1> DEFINE B(f, x) ==
             IF x.kind = "select" THEN Selector(Conjuncts(x.filter), x.lines)
             ELSE IF x.kind = "timeAgg" THEN RangeCall(x.op, Duration(x.window), f[x.input])
             ELSE IF x.kind = "aggregate" THEN
                 Agg(x.op, Grouping(x), GroupLabels(x),
                     IF x.op \in TakesParam THEN <<x.param>> ELSE <<>>, f[x.input])
             ELSE IF x.kind = "function" THEN
                 Call(x.name, [i \in DOMAIN x.args |-> f[x.args[i]]])
             ELSE IF x.kind = "binary" THEN
                 Bin(x.op, IF lang = "promql" THEN MatchingClause(x.matching) ELSE NoModifier,
                     f[x.lhs], f[x.rhs])
             ELSE Number
           H == {h \in 0 .. Depth : \E f : f = [x \in PlanTo[h] |-> B(f, x)]}
           all == CHOOSE f : f = [x \in Plan |-> B(f, x)]
<1>1. ASSUME NEW h \in 0 .. Depth - 1, NEW node \in PlanTo[h + 1], NEW f, NEW g,
             \A c \in PlanTo[h] : g[c] = f[c]
      PROVE  B(g, node) = B(f, node)
  <2>1. CASE node.kind \in {"select", "literal"}
    BY <2>1
  <2>2. CASE node.kind = "timeAgg" /\ node.input \in PlanTo[h]
    BY <1>1, <2>2
  <2>3. CASE node.kind = "aggregate" /\ node.input \in PlanTo[h]
    BY <1>1, <2>3
  <2>4. CASE node.kind = "function" /\ node.args \in Seq(PlanTo[h])
    <3>1. \A i \in DOMAIN node.args : g[node.args[i]] = f[node.args[i]]
      BY <1>1, <2>4
    <3>2. [i \in DOMAIN node.args |-> g[node.args[i]]] = [i \in DOMAIN node.args |-> f[node.args[i]]]
      BY <3>1
    <3>3. Len(node.args) = 1 => 1 \in DOMAIN node.args
      BY <2>4
    <3>4. QED BY <2>4, <3>1, <3>2, <3>3
  <2>5. CASE node.kind = "binary" /\ node.lhs \in PlanTo[h] /\ node.rhs \in PlanTo[h]
    BY <1>1, <2>5
  <2>6. QED BY <2>1, <2>2, <2>3, <2>4, <2>5, PlanKinds
<1> HIDE DEF B
<1>2. 0 \in H
  <2>1. PlanTo[0] = {} /\ 0 \in 0 .. Depth
    BY PlanToLevels, DepthAssumption
  <2>2. [c \in {} |-> {}] = [x \in PlanTo[0] |-> B([c \in {} |-> {}], x)]
    BY <2>1
  <2>3. QED BY <2>1, <2>2
<1>3. ASSUME NEW h \in H, h < Depth PROVE h + 1 \in H
  <2>1. h \in 0 .. Depth - 1 /\ h + 1 \in 0 .. Depth
    BY <1>3, DepthAssumption
  <2>2. PICK f : f = [x \in PlanTo[h] |-> B(f, x)]
    OBVIOUS
  <2> DEFINE g == [x \in PlanTo[h + 1] |-> B(f, x)]
  <2>3. ASSUME NEW c \in PlanTo[h] PROVE g[c] = f[c]
    <3>1. c \in PlanTo[h + 1]
      BY <2>1, PlanToLevels
    <3>2. f[c] = [x \in PlanTo[h] |-> B(f, x)][c]
      BY <2>2
    <3>3. QED BY <3>1, <3>2
  <2>4. ASSUME NEW c \in PlanTo[h + 1] PROVE B(g, c) = B(f, c)
    <3> HIDE DEF g
    <3>1. \A d \in PlanTo[h] : g[d] = f[d]
      BY <2>3
    <3>2. QED BY <1>1, <2>1, <3>1
  <2>5. g = [x \in PlanTo[h + 1] |-> B(g, x)]
    BY <2>4
  <2>6. \E d : d = [x \in PlanTo[h + 1] |-> B(d, x)]
    BY <2>5
  <2>7. QED BY <2>1, <2>6
<1>4. \E f : f = [x \in Plan |-> B(f, x)]
  <2>1. H \in SUBSET (0 .. Depth) /\ Depth \in Nat
    BY DepthAssumption
  <2> HIDE DEF H
  <2>2. Depth \in H
    BY <1>2, <1>3, <2>1, InductTo
  <2>3. QED BY <2>2, PlanToLevels DEF H
<1>5. all = [x \in Plan |-> B(all, x)]
  BY <1>4
<1>6. ASSUME NEW c PROVE Text(lang, c) = all[c]
  BY Zenon DEF Text, B
<1> HIDE DEF all
<1>7. Text(lang, n) = B(all, n)
  BY <1>5, <1>6
<1>8. QED BY <1>6, <1>7 DEF B

(* A tree by the kind of its root.                                         *)
LEMMA TreeKinds ==
  ASSUME NEW h \in 0 .. Depth - 1, NEW t \in TreesTo[h + 1]
  PROVE  \/ /\ t = Selector(t.matchers, t.lines) /\ t.kind = "selector"
            /\ t.matchers \in Seq(Leaves) /\ t.lines \in Seq(Line)
         \/ /\ t = Documents(t.pred) /\ t.kind = "documents"
            /\ t.pred \in {Nil} \cup Predicate
         \/ t \in {Number, Other, Refused} /\ t.kind \in {"number", "other", "refused"}
         \/ /\ t = RangeCall(t.func, t.window, t.input) /\ t.kind = "range"
            /\ t.func \in String /\ t.window \in Int /\ t.input \in TreesTo[h]
         \/ /\ t = Agg(t.func, t.clause, t.labels, t.params, t.input) /\ t.kind = "agg"
            /\ t.func \in String /\ t.clause \in {"none", "by", "without"}
            /\ t.labels \in SUBSET String /\ t.params \in Seq(Int) /\ t.input \in TreesTo[h]
         \/ /\ t = Call(t.func, t.args) /\ t.kind = "call"
            /\ t.func \in String /\ t.args \in Seq(TreesTo[h])
         \/ /\ t = Bin(t.op, t.mod, t.lhs, t.rhs) /\ t.kind = "bin"
            /\ t.op \in String /\ t.mod \in VectorModifier
            /\ t.lhs \in TreesTo[h] /\ t.rhs \in TreesTo[h]
         \/ t = Neg(t.input) /\ t.kind = "neg" /\ t.input \in TreesTo[h]
<1>1. t \in TreesOver(TreesTo[h])
  BY TreeLevels
<1> DEFINE selectors == [kind : {"selector"}, matchers : Seq(Leaves), lines : Seq(Line)]
           documents == [kind : {"documents"}, pred : {Nil} \cup Predicate]
           ranges == [kind : {"range"}, func : String, window : Int, input : TreesTo[h]]
           aggs == [kind : {"agg"}, func : String, clause : {"none", "by", "without"},
                    labels : SUBSET String, params : Seq(Int), input : TreesTo[h]]
           calls == [kind : {"call"}, func : String, args : Seq(TreesTo[h])]
           bins == [kind : {"bin"}, op : String, mod : VectorModifier, lhs : TreesTo[h],
                    rhs : TreesTo[h]]
           negs == [kind : {"neg"}, input : TreesTo[h]]
<1>2. \/ t \in selectors \/ t \in documents \/ t \in {Number, Other, Refused} \/ t \in ranges
      \/ t \in aggs \/ t \in calls \/ t \in bins \/ t \in negs
  BY <1>1, Zenon DEF TreesOver
<1>3. CASE t \in selectors
  BY <1>3 DEF Selector
<1>4. CASE t \in documents
  BY <1>4 DEF Documents
<1>5. CASE t \in {Number, Other, Refused}
  BY <1>5 DEF Number, Other, Refused
<1>6. CASE t \in ranges
  BY <1>6 DEF RangeCall
<1>7. CASE t \in aggs
  BY <1>7 DEF Agg
<1>8. CASE t \in calls
  BY <1>8 DEF Call
<1>9. CASE t \in bins
  BY <1>9 DEF Bin
<1>10. CASE t \in negs
  BY <1>10 DEF Neg
<1>11. QED BY <1>2, <1>3, <1>4, <1>5, <1>6, <1>7, <1>8, <1>9, <1>10

(* WellFormed by cases.                                                    *)
LEMMA WellFormedUnfolds ==
  ASSUME NEW lang, NEW t \in Tree
  PROVE  WellFormed(lang, t) =
           /\ t.kind \notin {"documents", "refused"}
           /\ t.kind = "selector" => t.matchers # <<>> /\ (lang = "promql" => t.lines = <<>>)
           /\ t.kind = "range" =>
                /\ t.func \in RangeFuncs[lang] /\ t.window > 0
                /\ t.input.kind = "selector" /\ WellFormed(lang, t.input)
           /\ t.kind = "agg" =>
                /\ t.func \in LanguageAggs[lang]
                /\ Len(t.params) = IF t.func \in TakesParam THEN 1 ELSE 0
                /\ lang = "logql" => t.input.kind # "selector"
                /\ WellFormed(lang, t.input)
           /\ t.kind = "call" =>
                /\ t.func \in LanguageCalls[lang]
                /\ Len(t.args) = 1 /\ WellFormed(lang, t.args[1])
           /\ t.kind = "bin" =>
                /\ t.op \in LanguageBinOps
                /\ t.mod.group # "none" => t.mod.clause # "none"
                /\ lang = "logql" => "selector" \notin {t.lhs.kind, t.rhs.kind}
                /\ WellFormed(lang, t.lhs) /\ WellFormed(lang, t.rhs)
           /\ t.kind = "neg" => lang = "promql" /\ WellFormed(lang, t.input)
<1> DEFINE B(f, x) ==
             /\ x.kind \notin {"documents", "refused"}
             /\ x.kind = "selector" => x.matchers # <<>> /\ (lang = "promql" => x.lines = <<>>)
             /\ x.kind = "range" =>
                  /\ x.func \in RangeFuncs[lang] /\ x.window > 0
                  /\ x.input.kind = "selector" /\ f[x.input]
             /\ x.kind = "agg" =>
                  /\ x.func \in LanguageAggs[lang]
                  /\ Len(x.params) = IF x.func \in TakesParam THEN 1 ELSE 0
                  /\ lang = "logql" => x.input.kind # "selector"
                  /\ f[x.input]
             /\ x.kind = "call" =>
                  /\ x.func \in LanguageCalls[lang]
                  /\ Len(x.args) = 1 /\ f[x.args[1]]
             /\ x.kind = "bin" =>
                  /\ x.op \in LanguageBinOps
                  /\ x.mod.group # "none" => x.mod.clause # "none"
                  /\ lang = "logql" => "selector" \notin {x.lhs.kind, x.rhs.kind}
                  /\ f[x.lhs] /\ f[x.rhs]
             /\ x.kind = "neg" => lang = "promql" /\ f[x.input]
           H == {h \in 0 .. Depth : \E f : f = [x \in TreesTo[h] |-> B(f, x)]}
           all == CHOOSE f : f = [x \in Tree |-> B(f, x)]
<1>1. ASSUME NEW h \in 0 .. Depth - 1, NEW node \in TreesTo[h + 1], NEW f, NEW g,
             \A c \in TreesTo[h] : g[c] = f[c]
      PROVE  B(g, node) = B(f, node)
  <2>1. CASE node.kind \in {"selector", "documents", "number", "other", "refused"}
    BY <2>1
  <2>2. CASE node.kind = "range" /\ node.input \in TreesTo[h]
    BY <1>1, <2>2
  <2>3. CASE node.kind = "agg" /\ node.input \in TreesTo[h]
    BY <1>1, <2>3
  <2>4. CASE node.kind = "call" /\ node.args \in Seq(TreesTo[h])
    <3>1. \A i \in DOMAIN node.args : g[node.args[i]] = f[node.args[i]]
      BY <1>1, <2>4
    <3>2. [i \in DOMAIN node.args |-> g[node.args[i]]] = [i \in DOMAIN node.args |-> f[node.args[i]]]
      BY <3>1
    <3>3. Len(node.args) = 1 => 1 \in DOMAIN node.args
      BY <2>4
    <3>4. QED BY <2>4, <3>1, <3>2, <3>3
  <2>5. CASE node.kind = "bin" /\ node.lhs \in TreesTo[h] /\ node.rhs \in TreesTo[h]
    BY <1>1, <2>5
  <2>6. CASE node.kind = "neg" /\ node.input \in TreesTo[h]
    BY <1>1, <2>6
  <2>7. QED BY <2>1, <2>2, <2>3, <2>4, <2>5, <2>6, TreeKinds
<1> HIDE DEF B
<1>2. 0 \in H
  <2>1. TreesTo[0] = {} /\ 0 \in 0 .. Depth
    BY TreeLevels, DepthAssumption
  <2>2. [c \in {} |-> {}] = [x \in TreesTo[0] |-> B([c \in {} |-> {}], x)]
    BY <2>1
  <2>3. QED BY <2>1, <2>2
<1>3. ASSUME NEW h \in H, h < Depth PROVE h + 1 \in H
  <2>1. h \in 0 .. Depth - 1 /\ h + 1 \in 0 .. Depth
    BY <1>3, DepthAssumption
  <2>2. PICK f : f = [x \in TreesTo[h] |-> B(f, x)]
    OBVIOUS
  <2> DEFINE g == [x \in TreesTo[h + 1] |-> B(f, x)]
  <2>3. ASSUME NEW c \in TreesTo[h] PROVE g[c] = f[c]
    <3>1. c \in TreesTo[h + 1]
      BY <2>1, TreeMonotone
    <3>2. f[c] = [x \in TreesTo[h] |-> B(f, x)][c]
      BY <2>2
    <3>3. QED BY <3>1, <3>2
  <2>4. ASSUME NEW c \in TreesTo[h + 1] PROVE B(g, c) = B(f, c)
    <3> HIDE DEF g
    <3>1. \A d \in TreesTo[h] : g[d] = f[d]
      BY <2>3
    <3>2. QED BY <1>1, <2>1, <3>1
  <2>5. g = [x \in TreesTo[h + 1] |-> B(g, x)]
    BY <2>4
  <2>6. \E d : d = [x \in TreesTo[h + 1] |-> B(d, x)]
    BY <2>5
  <2>7. QED BY <2>1, <2>6
<1>4. \E f : f = [x \in Tree |-> B(f, x)]
  <2>1. H \in SUBSET (0 .. Depth) /\ Depth \in Nat
    BY DepthAssumption
  <2> HIDE DEF H
  <2>2. Depth \in H
    BY <1>2, <1>3, <2>1, InductTo
  <2>3. QED BY <2>2 DEF H, Tree
<1>5. all = [x \in Tree |-> B(all, x)]
  BY <1>4
<1>6. ASSUME NEW c PROVE WellFormed(lang, c) = all[c]
  BY Zenon DEF WellFormed, B
<1> HIDE DEF all
<1>7. WellFormed(lang, t) = B(all, t)
  BY <1>5, <1>6
<1>8. QED BY <1>6, <1>7 DEF B

(* ConvertsPromQL by cases.                                                *)
LEMMA ConvertsUnfolds ==
  ASSUME NEW t \in Tree
  PROVE  ConvertsPromQL(t) =
           /\ t.kind \notin {"documents", "refused", "other"}
           /\ t.kind \in {"range", "neg"} => ConvertsPromQL(t.input)
           /\ t.kind = "agg" =>
                /\ t.func \in AcceptedAggs
                /\ ~ (t.clause = "without" /\ t.labels = {})
                /\ ConvertsPromQL(t.input)
           /\ t.kind = "call" => \A i \in DOMAIN t.args : ConvertsPromQL(t.args[i])
           /\ t.kind = "bin" =>
                /\ ~ (t.mod.clause = "on" /\ t.mod.labels = {})
                /\ ConvertsPromQL(t.lhs) /\ ConvertsPromQL(t.rhs)
<1> DEFINE B(f, x) ==
             /\ x.kind \notin {"documents", "refused", "other"}
             /\ x.kind \in {"range", "neg"} => f[x.input]
             /\ x.kind = "agg" =>
                  /\ x.func \in AcceptedAggs
                  /\ ~ (x.clause = "without" /\ x.labels = {})
                  /\ f[x.input]
             /\ x.kind = "call" => \A i \in DOMAIN x.args : f[x.args[i]]
             /\ x.kind = "bin" =>
                  /\ ~ (x.mod.clause = "on" /\ x.mod.labels = {})
                  /\ f[x.lhs] /\ f[x.rhs]
           H == {h \in 0 .. Depth : \E f : f = [x \in TreesTo[h] |-> B(f, x)]}
           all == CHOOSE f : f = [x \in Tree |-> B(f, x)]
<1>1. ASSUME NEW h \in 0 .. Depth - 1, NEW node \in TreesTo[h + 1], NEW f, NEW g,
             \A c \in TreesTo[h] : g[c] = f[c]
      PROVE  B(g, node) = B(f, node)
  <2>1. CASE node.kind \in {"selector", "documents", "number", "other", "refused"}
    BY <2>1
  <2>2. CASE node.kind = "range" /\ node.input \in TreesTo[h]
    BY <1>1, <2>2
  <2>3. CASE node.kind = "agg" /\ node.input \in TreesTo[h]
    BY <1>1, <2>3
  <2>4. CASE node.kind = "call" /\ node.args \in Seq(TreesTo[h])
    <3>1. \A i \in DOMAIN node.args : g[node.args[i]] = f[node.args[i]]
      BY <1>1, <2>4
    <3>2. [i \in DOMAIN node.args |-> g[node.args[i]]] = [i \in DOMAIN node.args |-> f[node.args[i]]]
      BY <3>1
    <3>3. Len(node.args) = 1 => 1 \in DOMAIN node.args
      BY <2>4
    <3>4. QED BY <2>4, <3>1, <3>2, <3>3
  <2>5. CASE node.kind = "bin" /\ node.lhs \in TreesTo[h] /\ node.rhs \in TreesTo[h]
    BY <1>1, <2>5
  <2>6. CASE node.kind = "neg" /\ node.input \in TreesTo[h]
    BY <1>1, <2>6
  <2>7. QED BY <2>1, <2>2, <2>3, <2>4, <2>5, <2>6, TreeKinds
<1> HIDE DEF B
<1>2. 0 \in H
  <2>1. TreesTo[0] = {} /\ 0 \in 0 .. Depth
    BY TreeLevels, DepthAssumption
  <2>2. [c \in {} |-> {}] = [x \in TreesTo[0] |-> B([c \in {} |-> {}], x)]
    BY <2>1
  <2>3. QED BY <2>1, <2>2
<1>3. ASSUME NEW h \in H, h < Depth PROVE h + 1 \in H
  <2>1. h \in 0 .. Depth - 1 /\ h + 1 \in 0 .. Depth
    BY <1>3, DepthAssumption
  <2>2. PICK f : f = [x \in TreesTo[h] |-> B(f, x)]
    OBVIOUS
  <2> DEFINE g == [x \in TreesTo[h + 1] |-> B(f, x)]
  <2>3. ASSUME NEW c \in TreesTo[h] PROVE g[c] = f[c]
    <3>1. c \in TreesTo[h + 1]
      BY <2>1, TreeMonotone
    <3>2. f[c] = [x \in TreesTo[h] |-> B(f, x)][c]
      BY <2>2
    <3>3. QED BY <3>1, <3>2
  <2>4. ASSUME NEW c \in TreesTo[h + 1] PROVE B(g, c) = B(f, c)
    <3> HIDE DEF g
    <3>1. \A d \in TreesTo[h] : g[d] = f[d]
      BY <2>3
    <3>2. QED BY <1>1, <2>1, <3>1
  <2>5. g = [x \in TreesTo[h + 1] |-> B(g, x)]
    BY <2>4
  <2>6. \E d : d = [x \in TreesTo[h + 1] |-> B(d, x)]
    BY <2>5
  <2>7. QED BY <2>1, <2>6
<1>4. \E f : f = [x \in Tree |-> B(f, x)]
  <2>1. H \in SUBSET (0 .. Depth) /\ Depth \in Nat
    BY DepthAssumption
  <2> HIDE DEF H
  <2>2. Depth \in H
    BY <1>2, <1>3, <2>1, InductTo
  <2>3. QED BY <2>2 DEF H, Tree
<1>5. all = [x \in Tree |-> B(all, x)]
  BY <1>4
<1>6. ASSUME NEW c PROVE ConvertsPromQL(c) = all[c]
  BY Zenon DEF ConvertsPromQL, B
<1> HIDE DEF all
<1>7. ConvertsPromQL(t) = B(all, t)
  BY <1>5, <1>6
<1>8. QED BY <1>6, <1>7 DEF B

(* Converted by cases.                                                     *)
LEMMA ConvertedUnfolds ==
  ASSUME NEW t \in Tree
  PROVE  Converted(t) =
           IF t.kind = "selector" THEN Select("metrics", Filter(t.matchers), <<>>)
           ELSE IF t.kind = "range" THEN TimeAgg(t.func, t.window, Converted(t.input))
           ELSE IF t.kind = "agg" THEN
               Aggregate(t.func, IF t.clause = "by" THEN t.labels ELSE {},
                         IF t.clause = "without" THEN t.labels ELSE {},
                         IF t.params = <<>> THEN 0 ELSE t.params[1], Converted(t.input))
           ELSE IF t.kind = "call" THEN
               Function(t.func, [i \in DOMAIN t.args |-> Converted(t.args[i])])
           ELSE IF t.kind = "bin" THEN
               Binary(t.op, Converted(t.lhs), Converted(t.rhs), Matching(t.mod))
           ELSE IF t.kind = "neg" THEN Binary("-", Literal, Converted(t.input), Nil)
           ELSE Literal
<1> DEFINE B(f, x) ==
             IF x.kind = "selector" THEN Select("metrics", Filter(x.matchers), <<>>)
             ELSE IF x.kind = "range" THEN TimeAgg(x.func, x.window, f[x.input])
             ELSE IF x.kind = "agg" THEN
                 Aggregate(x.func, IF x.clause = "by" THEN x.labels ELSE {},
                           IF x.clause = "without" THEN x.labels ELSE {},
                           IF x.params = <<>> THEN 0 ELSE x.params[1], f[x.input])
             ELSE IF x.kind = "call" THEN
                 Function(x.func, [i \in DOMAIN x.args |-> f[x.args[i]]])
             ELSE IF x.kind = "bin" THEN
                 Binary(x.op, f[x.lhs], f[x.rhs], Matching(x.mod))
             ELSE IF x.kind = "neg" THEN Binary("-", Literal, f[x.input], Nil)
             ELSE Literal
           H == {h \in 0 .. Depth : \E f : f = [x \in TreesTo[h] |-> B(f, x)]}
           all == CHOOSE f : f = [x \in Tree |-> B(f, x)]
<1>1. ASSUME NEW h \in 0 .. Depth - 1, NEW node \in TreesTo[h + 1], NEW f, NEW g,
             \A c \in TreesTo[h] : g[c] = f[c]
      PROVE  B(g, node) = B(f, node)
  <2>1. CASE node.kind \in {"selector", "documents", "number", "other", "refused"}
    BY <2>1
  <2>2. CASE node.kind = "range" /\ node.input \in TreesTo[h]
    BY <1>1, <2>2
  <2>3. CASE node.kind = "agg" /\ node.input \in TreesTo[h]
    BY <1>1, <2>3
  <2>4. CASE node.kind = "call" /\ node.args \in Seq(TreesTo[h])
    <3>1. \A i \in DOMAIN node.args : g[node.args[i]] = f[node.args[i]]
      BY <1>1, <2>4
    <3>2. [i \in DOMAIN node.args |-> g[node.args[i]]] = [i \in DOMAIN node.args |-> f[node.args[i]]]
      BY <3>1
    <3>3. Len(node.args) = 1 => 1 \in DOMAIN node.args
      BY <2>4
    <3>4. QED BY <2>4, <3>1, <3>2, <3>3
  <2>5. CASE node.kind = "bin" /\ node.lhs \in TreesTo[h] /\ node.rhs \in TreesTo[h]
    BY <1>1, <2>5
  <2>6. CASE node.kind = "neg" /\ node.input \in TreesTo[h]
    BY <1>1, <2>6
  <2>7. QED BY <2>1, <2>2, <2>3, <2>4, <2>5, <2>6, TreeKinds
<1> HIDE DEF B
<1>2. 0 \in H
  <2>1. TreesTo[0] = {} /\ 0 \in 0 .. Depth
    BY TreeLevels, DepthAssumption
  <2>2. [c \in {} |-> {}] = [x \in TreesTo[0] |-> B([c \in {} |-> {}], x)]
    BY <2>1
  <2>3. QED BY <2>1, <2>2
<1>3. ASSUME NEW h \in H, h < Depth PROVE h + 1 \in H
  <2>1. h \in 0 .. Depth - 1 /\ h + 1 \in 0 .. Depth
    BY <1>3, DepthAssumption
  <2>2. PICK f : f = [x \in TreesTo[h] |-> B(f, x)]
    OBVIOUS
  <2> DEFINE g == [x \in TreesTo[h + 1] |-> B(f, x)]
  <2>3. ASSUME NEW c \in TreesTo[h] PROVE g[c] = f[c]
    <3>1. c \in TreesTo[h + 1]
      BY <2>1, TreeMonotone
    <3>2. f[c] = [x \in TreesTo[h] |-> B(f, x)][c]
      BY <2>2
    <3>3. QED BY <3>1, <3>2
  <2>4. ASSUME NEW c \in TreesTo[h + 1] PROVE B(g, c) = B(f, c)
    <3> HIDE DEF g
    <3>1. \A d \in TreesTo[h] : g[d] = f[d]
      BY <2>3
    <3>2. QED BY <1>1, <2>1, <3>1
  <2>5. g = [x \in TreesTo[h + 1] |-> B(g, x)]
    BY <2>4
  <2>6. \E d : d = [x \in TreesTo[h + 1] |-> B(d, x)]
    BY <2>5
  <2>7. QED BY <2>1, <2>6
<1>4. \E f : f = [x \in Tree |-> B(f, x)]
  <2>1. H \in SUBSET (0 .. Depth) /\ Depth \in Nat
    BY DepthAssumption
  <2> HIDE DEF H
  <2>2. Depth \in H
    BY <1>2, <1>3, <2>1, InductTo
  <2>3. QED BY <2>2 DEF H, Tree
<1>5. all = [x \in Tree |-> B(all, x)]
  BY <1>4
<1>6. ASSUME NEW c PROVE Converted(c) = all[c]
  BY Zenon DEF Converted, B
<1> HIDE DEF all
<1>7. Converted(t) = B(all, t)
  BY <1>5, <1>6
<1>8. QED BY <1>6, <1>7 DEF B

(* Computed by cases.                                                      *)
LEMMA ComputedUnfolds ==
  ASSUME NEW lang, NEW D, NEW t \in Tree
  PROVE  Computed(lang, t, D) =
           IF t.kind = "selector" THEN
               Rows({r \in D : /\ r.signal = SignalOf[lang]
                               /\ \A i \in DOMAIN t.matchers : Satisfies(t.matchers[i], r)
                               /\ LinesPass(t.lines, r)})
           ELSE IF t.kind = "documents" THEN
               Rows({r \in D : r.signal = SignalOf[lang] /\ Searched(t.pred, r)})
           ELSE IF t.kind = "range" THEN Mapped(t.func, t.window, Computed(lang, t.input, D))
           ELSE IF t.kind = "agg" THEN
               Reduced(Computed(lang, t.input, D), t.func, t.clause, t.labels, t.params)
           ELSE IF t.kind = "call" THEN
               IF Len(t.args) = 1 THEN Mapped(t.func, 0, Computed(lang, t.args[1], D)) ELSE Error
           ELSE IF t.kind = "bin" THEN Paired(t.op, t.mod, Computed(lang, t.lhs, D), Computed(lang, t.rhs, D))
           ELSE IF t.kind = "neg" THEN Paired("-", NoModifier, Scalar, Computed(lang, t.input, D))
           ELSE IF t.kind = "number" THEN Scalar
           ELSE Error
<1> DEFINE B(f, x) ==
             IF x.kind = "selector" THEN
                 Rows({r \in D : /\ r.signal = SignalOf[lang]
                                 /\ \A i \in DOMAIN x.matchers : Satisfies(x.matchers[i], r)
                                 /\ LinesPass(x.lines, r)})
             ELSE IF x.kind = "documents" THEN
                 Rows({r \in D : r.signal = SignalOf[lang] /\ Searched(x.pred, r)})
             ELSE IF x.kind = "range" THEN Mapped(x.func, x.window, f[x.input])
             ELSE IF x.kind = "agg" THEN
                 Reduced(f[x.input], x.func, x.clause, x.labels, x.params)
             ELSE IF x.kind = "call" THEN
                 IF Len(x.args) = 1 THEN Mapped(x.func, 0, f[x.args[1]]) ELSE Error
             ELSE IF x.kind = "bin" THEN Paired(x.op, x.mod, f[x.lhs], f[x.rhs])
             ELSE IF x.kind = "neg" THEN Paired("-", NoModifier, Scalar, f[x.input])
             ELSE IF x.kind = "number" THEN Scalar
             ELSE Error
           H == {h \in 0 .. Depth : \E f : f = [x \in TreesTo[h] |-> B(f, x)]}
           all == CHOOSE f : f = [x \in Tree |-> B(f, x)]
<1>1. ASSUME NEW h \in 0 .. Depth - 1, NEW node \in TreesTo[h + 1], NEW f, NEW g,
             \A c \in TreesTo[h] : g[c] = f[c]
      PROVE  B(g, node) = B(f, node)
  <2>1. CASE node.kind \in {"selector", "documents", "number", "other", "refused"}
    BY <2>1
  <2>2. CASE node.kind = "range" /\ node.input \in TreesTo[h]
    BY <1>1, <2>2
  <2>3. CASE node.kind = "agg" /\ node.input \in TreesTo[h]
    BY <1>1, <2>3
  <2>4. CASE node.kind = "call" /\ node.args \in Seq(TreesTo[h])
    <3>1. \A i \in DOMAIN node.args : g[node.args[i]] = f[node.args[i]]
      BY <1>1, <2>4
    <3>2. [i \in DOMAIN node.args |-> g[node.args[i]]] = [i \in DOMAIN node.args |-> f[node.args[i]]]
      BY <3>1
    <3>3. Len(node.args) = 1 => 1 \in DOMAIN node.args
      BY <2>4
    <3>4. QED BY <2>4, <3>1, <3>2, <3>3
  <2>5. CASE node.kind = "bin" /\ node.lhs \in TreesTo[h] /\ node.rhs \in TreesTo[h]
    BY <1>1, <2>5
  <2>6. CASE node.kind = "neg" /\ node.input \in TreesTo[h]
    BY <1>1, <2>6
  <2>7. QED BY <2>1, <2>2, <2>3, <2>4, <2>5, <2>6, TreeKinds
<1> HIDE DEF B
<1>2. 0 \in H
  <2>1. TreesTo[0] = {} /\ 0 \in 0 .. Depth
    BY TreeLevels, DepthAssumption
  <2>2. [c \in {} |-> {}] = [x \in TreesTo[0] |-> B([c \in {} |-> {}], x)]
    BY <2>1
  <2>3. QED BY <2>1, <2>2
<1>3. ASSUME NEW h \in H, h < Depth PROVE h + 1 \in H
  <2>1. h \in 0 .. Depth - 1 /\ h + 1 \in 0 .. Depth
    BY <1>3, DepthAssumption
  <2>2. PICK f : f = [x \in TreesTo[h] |-> B(f, x)]
    OBVIOUS
  <2> DEFINE g == [x \in TreesTo[h + 1] |-> B(f, x)]
  <2>3. ASSUME NEW c \in TreesTo[h] PROVE g[c] = f[c]
    <3>1. c \in TreesTo[h + 1]
      BY <2>1, TreeMonotone
    <3>2. f[c] = [x \in TreesTo[h] |-> B(f, x)][c]
      BY <2>2
    <3>3. QED BY <3>1, <3>2
  <2>4. ASSUME NEW c \in TreesTo[h + 1] PROVE B(g, c) = B(f, c)
    <3> HIDE DEF g
    <3>1. \A d \in TreesTo[h] : g[d] = f[d]
      BY <2>3
    <3>2. QED BY <1>1, <2>1, <3>1
  <2>5. g = [x \in TreesTo[h + 1] |-> B(g, x)]
    BY <2>4
  <2>6. \E d : d = [x \in TreesTo[h + 1] |-> B(d, x)]
    BY <2>5
  <2>7. QED BY <2>1, <2>6
<1>4. \E f : f = [x \in Tree |-> B(f, x)]
  <2>1. H \in SUBSET (0 .. Depth) /\ Depth \in Nat
    BY DepthAssumption
  <2> HIDE DEF H
  <2>2. Depth \in H
    BY <1>2, <1>3, <2>1, InductTo
  <2>3. QED BY <2>2 DEF H, Tree
<1>5. all = [x \in Tree |-> B(all, x)]
  BY <1>4
<1>6. ASSUME NEW c PROVE Computed(lang, c, D) = all[c]
  BY Zenon DEF Computed, B
<1> HIDE DEF all
<1>7. Computed(lang, t, D) = B(all, t)
  BY <1>5, <1>6
<1>8. QED BY <1>6, <1>7 DEF B

(* Nodes is of plans and of trees.                                         *)
NodeTo == [h \in 0 .. Depth |-> PlanTo[h] \cup TreesTo[h]]

(* The levels of both grow together.                                       *)
LEMMA NodeToLevels ==
  /\ NodeTo[0] = {} /\ NodeTo[Depth] = Plan \cup Tree
  /\ \A h \in 0 .. Depth - 1 : NodeTo[h] \subseteq NodeTo[h + 1]
<1>1. NodeTo[0] = {} /\ NodeTo[Depth] = Plan \cup Tree
  BY PlanToLevels, TreeLevels, DepthAssumption DEF NodeTo, Tree
<1>2. ASSUME NEW h \in 0 .. Depth - 1 PROVE NodeTo[h] \subseteq NodeTo[h + 1]
  <2>1. h \in 0 .. Depth /\ h + 1 \in 0 .. Depth
    BY DepthAssumption
  <2>2. PlanTo[h] \subseteq PlanTo[h + 1] /\ TreesTo[h] \subseteq TreesTo[h + 1]
    BY PlanToLevels, TreeMonotone
  <2>3. QED BY <2>1, <2>2 DEF NodeTo
<1>3. QED BY <1>1, <1>2

(* A level of both, and the next.                                          *)
LEMMA NodeToIs ==
  ASSUME NEW h \in 0 .. Depth - 1
  PROVE  /\ NodeTo[h] = PlanTo[h] \cup TreesTo[h]
         /\ NodeTo[h + 1] = PlanTo[h + 1] \cup TreesTo[h + 1]
<1>1. h \in 0 .. Depth /\ h + 1 \in 0 .. Depth
  BY DepthAssumption
<1>2. QED BY <1>1 DEF NodeTo

(* Nodes by cases.                                                         *)
LEMMA NodesUnfold ==
  ASSUME NEW n \in Plan \cup Tree
  PROVE  Nodes(n) =
           {n} \cup IF n.kind \in {"timeAgg", "aggregate", "range", "agg", "neg"}
                    THEN Nodes(n.input)
                    ELSE IF n.kind \in {"function", "call"}
                    THEN UNION {Nodes(n.args[i]) : i \in DOMAIN n.args}
                    ELSE IF n.kind \in {"binary", "bin"} THEN Nodes(n.lhs) \cup Nodes(n.rhs)
                    ELSE {}
<1> DEFINE B(f, x) ==
             {x} \cup IF x.kind \in {"timeAgg", "aggregate", "range", "agg", "neg"}
                      THEN f[x.input]
                      ELSE IF x.kind \in {"function", "call"}
                      THEN UNION {f[x.args[i]] : i \in DOMAIN x.args}
                      ELSE IF x.kind \in {"binary", "bin"} THEN f[x.lhs] \cup f[x.rhs]
                      ELSE {}
           H == {h \in 0 .. Depth : \E f : f = [x \in NodeTo[h] |-> B(f, x)]}
           all == CHOOSE f : f = [x \in Plan \cup Tree |-> B(f, x)]
<1>1. ASSUME NEW h \in 0 .. Depth - 1, NEW node \in NodeTo[h + 1], NEW f, NEW g,
             \A c \in NodeTo[h] : g[c] = f[c]
      PROVE  B(g, node) = B(f, node)
  <2>1. CASE node.kind \in {"select", "literal", "selector", "documents", "number", "other", "refused"}
    BY <2>1
  <2>2. CASE node.kind \in {"timeAgg", "aggregate", "range", "agg", "neg"} /\ node.input \in NodeTo[h]
    BY <1>1, <2>2
  <2>3. CASE node.kind \in {"function", "call"} /\ (node.args \in Seq(PlanTo[h]) \/ node.args \in Seq(TreesTo[h]))
    <3>1. \A i \in DOMAIN node.args : node.args[i] \in NodeTo[h]
      BY <2>3, NodeToIs
    <3>2. \A i \in DOMAIN node.args : g[node.args[i]] = f[node.args[i]]
      BY <1>1, <3>1
    <3>3. QED BY <2>3, <3>2
  <2>4. CASE node.kind \in {"binary", "bin"} /\ node.lhs \in NodeTo[h] /\ node.rhs \in NodeTo[h]
    BY <1>1, <2>4
  <2>5. CASE node \in PlanTo[h + 1]
    BY <2>1, <2>2, <2>3, <2>4, <2>5, PlanKinds, NodeToIs
  <2>6. CASE node \in TreesTo[h + 1]
    BY <2>1, <2>2, <2>3, <2>4, <2>6, TreeKinds, NodeToIs
  <2>7. QED BY <2>5, <2>6, NodeToIs
<1> HIDE DEF B
<1>2. 0 \in H
  <2>1. NodeTo[0] = {} /\ 0 \in 0 .. Depth
    BY NodeToLevels, DepthAssumption
  <2>2. [c \in {} |-> {}] = [x \in NodeTo[0] |-> B([c \in {} |-> {}], x)]
    BY <2>1
  <2>3. QED BY <2>1, <2>2
<1>3. ASSUME NEW h \in H, h < Depth PROVE h + 1 \in H
  <2>1. h \in 0 .. Depth - 1 /\ h + 1 \in 0 .. Depth
    BY <1>3, DepthAssumption
  <2>2. PICK f : f = [x \in NodeTo[h] |-> B(f, x)]
    OBVIOUS
  <2> DEFINE g == [x \in NodeTo[h + 1] |-> B(f, x)]
  <2>3. ASSUME NEW c \in NodeTo[h] PROVE g[c] = f[c]
    <3>1. c \in NodeTo[h + 1]
      BY <2>1, NodeToLevels
    <3>2. f[c] = [x \in NodeTo[h] |-> B(f, x)][c]
      BY <2>2
    <3>3. QED BY <3>1, <3>2
  <2>4. ASSUME NEW c \in NodeTo[h + 1] PROVE B(g, c) = B(f, c)
    <3> HIDE DEF g
    <3>1. \A d \in NodeTo[h] : g[d] = f[d]
      BY <2>3
    <3>2. QED BY <1>1, <2>1, <3>1
  <2>5. g = [x \in NodeTo[h + 1] |-> B(g, x)]
    BY <2>4
  <2>6. \E d : d = [x \in NodeTo[h + 1] |-> B(d, x)]
    BY <2>5
  <2>7. QED BY <2>1, <2>6
<1>4. \E f : f = [x \in Plan \cup Tree |-> B(f, x)]
  <2>1. H \in SUBSET (0 .. Depth) /\ Depth \in Nat
    BY DepthAssumption
  <2> HIDE DEF H
  <2>2. Depth \in H
    BY <1>2, <1>3, <2>1, InductTo
  <2>3. QED BY <2>2, NodeToLevels DEF H
<1>5. all = [x \in Plan \cup Tree |-> B(all, x)]
  BY <1>4
<1>6. ASSUME NEW c PROVE Nodes(c) = all[c]
  BY Zenon DEF Nodes, B
<1> HIDE DEF all
<1>7. Nodes(n) = B(all, n)
  BY <1>5, <1>6
<1>8. QED BY <1>6, <1>7 DEF B

--------------------------------------------------------------------------------
(* Lists, and the functions over predicates.                               *)

(* The elements of two lists, one after the other.                         *)
LEMMA ConcatenatedElements ==
  ASSUME NEW S, NEW s \in Seq(S), NEW t \in Seq(S)
  PROVE  s \o t \in Seq(S) /\ ToSet(s \o t) = ToSet(s) \cup ToSet(t)
<1>1. s \o t \in Seq(S) /\ Len(s \o t) = Len(s) + Len(t)
  OBVIOUS
<1>2. ASSUME NEW i \in DOMAIN (s \o t) PROVE (s \o t)[i] \in ToSet(s) \cup ToSet(t)
  <2>1. CASE i <= Len(s)
    BY <2>1 DEF ToSet
  <2>2. CASE i > Len(s)
    <3>1. (s \o t)[i] = t[i - Len(s)] /\ i - Len(s) \in DOMAIN t
      BY <2>2
    <3>2. QED BY <3>1 DEF ToSet
  <2>3. QED BY <2>1, <2>2
<1>3. ASSUME NEW i \in DOMAIN s PROVE s[i] \in ToSet(s \o t)
  <2>1. i \in DOMAIN (s \o t) /\ (s \o t)[i] = s[i]
    OBVIOUS
  <2>2. QED BY <2>1 DEF ToSet
<1>4. ASSUME NEW i \in DOMAIN t PROVE t[i] \in ToSet(s \o t)
  <2>1. Len(s) + i \in DOMAIN (s \o t) /\ (s \o t)[Len(s) + i] = t[i]
    OBVIOUS
  <2>2. QED BY <2>1 DEF ToSet
<1>5. QED BY <1>1, <1>2, <1>3, <1>4 DEF ToSet

(* What FlattenSeq lists: what the lists do, and nothing else.             *)
LEMMA FlattenSeqLists ==
  ASSUME NEW S, NEW lists \in Seq(Seq(S))
  PROVE  /\ FlattenSeq(lists) \in Seq(S)
         /\ ToSet(FlattenSeq(lists)) = UNION {ToSet(lists[i]) : i \in DOMAIN lists}
<1> DEFINE n == Len(lists)
           G(f, k) == [i \in 1 .. k |-> IF i = 1 THEN lists[i] ELSE f[i - 1] \o lists[i]]
           N == {k \in Nat : \E f : f = G(f, k)}
           all == CHOOSE f : f = G(f, n)
           Lists(k) == UNION {ToSet(lists[j]) : j \in 1 .. k}
           M == {k \in Nat : k < n => all[k + 1] \in Seq(S) /\ ToSet(all[k + 1]) = Lists(k + 1)}
<1>1. n \in Nat /\ DOMAIN lists = 1 .. n /\ \A i \in 1 .. n : lists[i] \in Seq(S)
  OBVIOUS
<1> HIDE DEF n
<1>2. N = Nat
  <2>1. 0 \in N
    <3>1. G(<<>>, 0) = G(G(<<>>, 0), 0)
      OBVIOUS
    <3>2. QED BY <3>1
  <2>2. ASSUME NEW k \in N PROVE k + 1 \in N
    <3>1. PICK f : f = G(f, k)
      OBVIOUS
    <3> DEFINE g == G(f, k + 1)
    <3>2. ASSUME NEW i \in 1 .. k + 1, i # 1 PROVE g[i - 1] = f[i - 1]
      <4>1. i - 1 \in 1 .. k /\ i - 1 \in 1 .. k + 1
        BY <3>2
      <4>2. f[i - 1] = G(f, k)[i - 1]
        BY <3>1
      <4>3. QED BY <4>1, <4>2
    <3>3. g = G(g, k + 1)
      BY <3>2
    <3>4. \E e : e = G(e, k + 1)
      BY <3>3
    <3>5. k + 1 \in Nat
      OBVIOUS
    <3> HIDE DEF G
    <3>6. QED BY <3>4, <3>5
  <2> HIDE DEF N
  <2>3. N \in SUBSET Nat
    BY DEF N
  <2>4. QED BY <2>1, <2>2, <2>3, NatInduct
<1>3. all = G(all, n)
  <2> HIDE DEF N
  <2>1. n \in N
    BY <1>1, <1>2
  <2>2. QED BY <2>1 DEF N
<1> HIDE DEF all
<1>4. \A i \in 1 .. n : all[i] = IF i = 1 THEN lists[i] ELSE all[i - 1] \o lists[i]
  BY <1>3
<1>5. M = Nat
  <2>1. 0 \in M
    <3> SUFFICES ASSUME 0 < n PROVE all[1] \in Seq(S) /\ ToSet(all[1]) = Lists(1)
      OBVIOUS
    <3>1. 1 \in 1 .. n /\ all[1] = lists[1] /\ 1 .. 1 = {1}
      BY <1>1, <1>4
    <3>2. QED BY <1>1, <3>1
  <2>2. ASSUME NEW k \in M PROVE k + 1 \in M
    <3>0. k + 1 \in Nat /\ (k + 1) + 1 = k + 2
      OBVIOUS
    <3> SUFFICES ASSUME k + 1 < n PROVE all[k + 2] \in Seq(S) /\ ToSet(all[k + 2]) = Lists(k + 2)
      <4> HIDE DEF Lists
      <4>1. QED BY <3>0
    <3>1. /\ k + 2 \in 1 .. n /\ k + 2 # 1 /\ (k + 2) - 1 = k + 1
          /\ all[k + 1] \in Seq(S) /\ ToSet(all[k + 1]) = Lists(k + 1)
      BY <1>1
    <3>2. all[k + 2] = all[k + 1] \o lists[k + 2] /\ lists[k + 2] \in Seq(S)
      BY <1>1, <1>4, <3>1
    <3>3. all[k + 2] \in Seq(S) /\ ToSet(all[k + 2]) = Lists(k + 1) \cup ToSet(lists[k + 2])
      <4> HIDE DEF Lists
      <4>1. QED BY <3>1, <3>2, ConcatenatedElements
    <3>4. 1 .. k + 2 = (1 .. k + 1) \cup {k + 2}
      OBVIOUS
    <3>5. Lists(k + 2) = Lists(k + 1) \cup ToSet(lists[k + 2])
      BY <3>4
    <3>6. QED BY <3>3, <3>5
  <2> HIDE DEF M
  <2>3. M \in SUBSET Nat
    BY DEF M
  <2>4. QED BY <2>1, <2>2, <2>3, NatInduct
<1>6. CASE n = 0
  <2>1. lists = <<>>
    BY <1>1, <1>6 DEF n
  <2>2. FlattenSeq(lists) = lists
    BY <1>6 DEF FlattenSeq, n
  <2>3. DOMAIN lists = {} /\ lists \in Seq(S)
    BY <1>1, <1>6, <2>1
  <2>4. QED BY <2>2, <2>3, Zenon DEF ToSet
<1>7. CASE n # 0
  <2>1. FlattenSeq(lists) = all[n]
    BY <1>7, Zenon DEF FlattenSeq, all, n
  <2>2. n - 1 \in Nat /\ n - 1 < n /\ (n - 1) + 1 = n
    BY <1>1, <1>7
  <2>3. all[n] \in Seq(S) /\ ToSet(all[n]) = Lists(n)
    <3> HIDE DEF Lists
    <3>1. n - 1 \in M
      <4> HIDE DEF M
      <4>1. QED BY <1>5, <2>2
    <3>2. QED BY <2>2, <3>1
  <2>4. QED BY <1>1, <2>1, <2>3
<1>8. QED BY <1>6, <1>7

(* A list of one element.                                                  *)
LEMMA ListOfItself ==
  ASSUME NEW S, NEW x \in S
  PROVE  <<x>> \in Seq(S) /\ DOMAIN <<x>> = {1} /\ <<x>>[1] = x
OBVIOUS

(* A predicate by its kind.                                                *)
LEMMA PredicateParts ==
  ASSUME NEW q \in Predicate
  PROVE  \/ q \in Leaves /\ q.kind = "leaf"
         \/ /\ q = Bool(q.op, q.operands) /\ q.kind = "bool"
            /\ q.op \in String /\ q.operands \in Seq(Predicate)
<1>1. Depth + 2 \in 0 .. Depth + 2 /\ (Depth + 2) + 1 = Depth + 3
  BY DepthAssumption
<1>2. q \in PredicatesTo[(Depth + 2) + 1] /\ PredicatesTo[Depth + 2] \subseteq Predicate
  BY <1>1, PredicateMonotone DEF Predicate
<1>3. CASE q \in Leaves
  BY <1>3 DEF Leaves
<1>4. CASE q \notin Leaves
  <2>1. /\ q = Bool(q.op, q.operands) /\ q.kind = "bool"
        /\ q.op \in String /\ q.operands \in Seq(PredicatesTo[Depth + 2])
    BY <1>1, <1>2, <1>4, PredicateNode
  <2>2. QED BY <1>2, <2>1
<1>5. QED BY <1>3, <1>4

(* Induction over the operands of predicates.                              *)
LEMMA PredicateInduct ==
  ASSUME NEW S,
         \A q \in Predicate :
           (q.kind = "bool" => \A i \in DOMAIN q.operands : q.operands[i] \in S) => q \in S
  PROVE  Predicate \subseteq S
<1> DEFINE H == {h \in 0 .. Depth + 3 : PredicatesTo[h] \subseteq S}
<1>1. 0 \in H
  BY PredicateLevels, DepthAssumption
<1>2. ASSUME NEW h \in H, h < Depth + 3 PROVE h + 1 \in H
  <2>1. h \in 0 .. Depth + 2 /\ h + 1 \in 0 .. Depth + 3 /\ Depth + 3 \in 0 .. Depth + 3
    BY <1>2, DepthAssumption
  <2>2. ASSUME NEW q \in PredicatesTo[h + 1] PROVE q \in S
    <3>1. q \in Predicate
      BY <2>1, PredicateWithin DEF Predicate
    <3>2. q.kind = "bool" => q.operands \in Seq(PredicatesTo[h])
      BY <2>1, PredicateNode DEF Leaves
    <3>3. QED BY <3>1, <3>2
  <2>3. QED BY <2>1, <2>2
<1>3. H = 0 .. Depth + 3
  <2>1. H \in SUBSET (0 .. Depth + 3) /\ Depth + 3 \in Nat
    BY DepthAssumption
  <2> HIDE DEF H
  <2>2. QED BY <1>1, <1>2, <2>1, InductTo
<1>4. Depth + 3 \in H
  <2> HIDE DEF H
  <2>1. QED BY <1>3, DepthAssumption
<1>5. QED BY <1>4 DEF Predicate

(* A node over predicates of a level is of the next one, and a level       *)
(* within every level above it.                                            *)
LEMMA BoolLevel ==
  ASSUME NEW h \in 0 .. Depth + 2, NEW op \in String, NEW operands \in Seq(PredicatesTo[h])
  PROVE  Bool(op, operands) \in PredicatesTo[h + 1]
BY PredicateLevels DEF PredicatesOver, Bool

(* A leaf is at every level.                                               *)
LEMMA LeafLevel ==
  ASSUME NEW h \in 1 .. Depth + 3
  PROVE  Leaves \subseteq PredicatesTo[h]
<1>1. h - 1 \in 0 .. Depth + 2 /\ (h - 1) + 1 = h
  BY DepthAssumption
<1>2. PredicatesTo[(h - 1) + 1] = PredicatesOver(PredicatesTo[h - 1])
  BY <1>1, PredicateLevels
<1>3. QED BY <1>1, <1>2 DEF PredicatesOver

(* A level holds those below it.                                           *)
LEMMA LowerLevels ==
  ASSUME NEW k \in 0 .. Depth + 3, NEW h \in 0 .. k
  PROVE  PredicatesTo[h] \subseteq PredicatesTo[k] /\ PredicatesTo[k] \subseteq Predicate
<1>1. Depth + 3 \in 0 .. Depth + 3 /\ k \in 0 .. Depth + 3 /\ h \in 0 .. k
  BY DepthAssumption
<1>2. QED BY <1>1, PredicateWithin DEF Predicate

(* The matchers of a flat predicate: it holds of what they all accept.     *)
LEMMA ConjunctsHold ==
  ASSUME NEW p \in Predicate
  PROVE  /\ Conjuncts(p) \in Seq(Leaves)
         /\ IsConjunction(p) =>
              \A r : Satisfies(p, r) = \A m \in ToSet(Conjuncts(p)) : Satisfies(m, r)
<1> DEFINE S == {q \in Predicate :
                   /\ Conjuncts(q) \in Seq(Leaves)
                   /\ IsConjunction(q) =>
                        \A r : Satisfies(q, r) = \A m \in ToSet(Conjuncts(q)) : Satisfies(m, r)}
<1>1. ASSUME NEW q \in Predicate,
             q.kind = "bool" => \A i \in DOMAIN q.operands : q.operands[i] \in S
      PROVE  q \in S
  <2>1. CASE q \in Leaves /\ q.kind = "leaf"
    <3>1. Conjuncts(q) = <<q>>
      BY <2>1, ConjunctsUnfold
    <3>2. ToSet(<<q>>) = {q} /\ <<q>> \in Seq(Leaves)
      BY <2>1 DEF ToSet
    <3>3. ASSUME NEW r PROVE Satisfies(q, r) \in BOOLEAN
      BY <2>1, SatisfiesUnfolds DEF Accepts
    <3>4. QED BY <3>1, <3>2, <3>3
  <2>2. CASE q.kind = "bool" /\ q.operands \in Seq(Predicate)
    <3> DEFINE lists == [i \in DOMAIN q.operands |-> Conjuncts(q.operands[i])]
    <3>0. \A i \in DOMAIN q.operands : Conjuncts(q.operands[i]) \in Seq(Leaves)
      BY <1>1, <2>2
    <3>1. lists \in Seq(Seq(Leaves)) /\ DOMAIN lists = DOMAIN q.operands
      <4>1. Len(q.operands) \in Nat /\ DOMAIN q.operands = 1 .. Len(q.operands)
        BY <2>2
      <4>2. lists \in [1 .. Len(q.operands) -> Seq(Leaves)]
        BY <3>0, <4>1
      <4>3. QED BY <4>1, <4>2
    <3>2. Conjuncts(q) = FlattenSeq(lists)
      BY <2>2, ConjunctsUnfold
    <3>3. /\ Conjuncts(q) \in Seq(Leaves)
          /\ ToSet(Conjuncts(q)) = UNION {ToSet(lists[i]) : i \in DOMAIN lists}
      <4> HIDE DEF lists
      <4>1. QED BY <3>1, <3>2, FlattenSeqLists
    <3>4. ASSUME IsConjunction(q), NEW r
          PROVE  Satisfies(q, r) = \A m \in ToSet(Conjuncts(q)) : Satisfies(m, r)
      <4>1. q.op = "AND" /\ \A i \in DOMAIN q.operands : IsConjunction(q.operands[i])
        BY <2>2, <3>4, IsConjunctionUnfolds
      <4>2. Satisfies(q, r) = \A i \in DOMAIN q.operands : Satisfies(q.operands[i], r)
        BY <2>2, <4>1, SatisfiesUnfolds
      <4>3. \A i \in DOMAIN q.operands :
              Satisfies(q.operands[i], r) = \A m \in ToSet(lists[i]) : Satisfies(m, r)
        BY <1>1, <2>2, <4>1
      <4>4. Satisfies(q, r) = \A i \in DOMAIN lists : \A m \in ToSet(lists[i]) : Satisfies(m, r)
        BY <3>1, <4>2, <4>3
      <4>5. QED
        <5> HIDE DEF lists
        <5>1. QED BY <3>3, <4>4
    <3>5. QED BY <3>3, <3>4
  <2>3. QED BY <2>1, <2>2, PredicateParts
<1>2. Predicate \subseteq S
  <2> HIDE DEF S
  <2>1. QED BY <1>1, PredicateInduct
<1>3. QED BY <1>2

(* The query DSL's clause of a predicate finds what the predicate does.    *)
LEMMA ClauseHolds ==
  ASSUME NEW p \in PredicatesTo[Depth + 1]
  PROVE  /\ ESClause(p) \in PredicatesTo[Depth + 2]
         /\ \A r : Hit(ESClause(p), r) = Hit(p, r)
<1> DEFINE P(h, q) == /\ ESClause(q) \in PredicatesTo[h + 1]
                      /\ \A r : Hit(ESClause(q), r) = Hit(q, r)
           H == {h \in 0 .. Depth + 1 : \A q \in PredicatesTo[h] : P(h, q)}
<1>1. 0 \in H
  BY PredicateLevels, DepthAssumption
<1>2. ASSUME NEW h \in H, h < Depth + 1 PROVE h + 1 \in H
  <2>1. /\ h \in 0 .. Depth /\ h + 1 \in 0 .. Depth + 1 /\ h + 1 \in 0 .. Depth + 2
        /\ h \in 0 .. Depth + 2 /\ h + 2 \in 1 .. Depth + 3 /\ (h + 1) + 1 = h + 2
        /\ h + 1 \in 1 .. Depth + 3
        /\ h + 2 \in 0 .. Depth + 3 /\ h + 1 \in 0 .. Depth + 3
        /\ h + 2 \in 0 .. h + 2 /\ h + 1 \in 0 .. h + 1
    BY <1>2, DepthAssumption
  <2>2. PredicatesTo[h + 2] \subseteq Predicate /\ PredicatesTo[h + 1] \subseteq Predicate
    BY <2>1, LowerLevels
  <2>3. ASSUME NEW q \in PredicatesTo[h + 1] PROVE P(h + 1, q)
    <3>1. q \in Predicate
      BY <2>2
    <3>2. CASE q \in Leaves /\ q.kind = "leaf"
      <4>1. CASE Positive(q.op)
        <5>1. ESClause(q) = q
          BY <3>1, <3>2, <4>1, ESClauseUnfolds
        <5>2. QED BY <2>1, <3>2, <5>1, LeafLevel
      <4>2. CASE ~ Positive(q.op)
        <5> DEFINE n == Negation(q)
        <5>1. ESClause(q) = Bool("NOT", <<n>>)
          BY <3>1, <3>2, <4>2, ESClauseUnfolds
        <5>2. n \in Leaves /\ Positive(n.op) /\ n.name = q.name /\ n.value = q.value /\ n.kind = "leaf"
          <6>1. /\ q.name \in String /\ q.value \in SUBSET String
                /\ n.kind = "leaf" /\ n.name = q.name /\ n.value = q.value
                /\ n.op = IF q.op = "!=" THEN "=" ELSE "=~"
                /\ n = [kind |-> "leaf", name |-> n.name, op |-> n.op, value |-> n.value]
            BY <3>2 DEF Negation, Leaf, Leaves
          <6> HIDE DEF n
          <6>2. n.op \in String /\ Positive(n.op)
            BY <6>1, StringAssumption DEF Positive
          <6>3. n \in Leaves
            BY <6>1, <6>2 DEF Leaves
          <6>4. QED BY <6>1, <6>2, <6>3
        <5> HIDE DEF n
        <5>3. n \in PredicatesTo[h + 1] /\ <<n>> \in Seq(PredicatesTo[h + 1])
          <6>1. Leaves \subseteq PredicatesTo[h + 1]
            BY <2>1, LeafLevel
          <6>2. n \in PredicatesTo[h + 1]
            BY <5>2, <6>1, Zenon
          <6>3. QED BY <6>2, ListOfItself, Zenon
        <5>4. Bool("NOT", <<n>>) \in PredicatesTo[(h + 1) + 1]
          <6>1. \A s \in Seq(PredicatesTo[h + 1]) : Bool("NOT", s) \in PredicatesTo[(h + 1) + 1]
            BY <2>1, BoolLevel, StringAssumption
          <6>2. QED BY <5>3, <6>1
        <5>5. ASSUME NEW r PROVE Hit(Bool("NOT", <<n>>), r) = Hit(q, r)
          <6>1. Bool("NOT", <<n>>) \in Predicate /\ n \in Predicate
            BY <2>1, <2>2, <5>3, <5>4
          <6>2. Hit(q, r) = ((q.value \cap Indexed(q.name, r) # {}) = Positive(q.op))
            BY <3>1, <3>2, HitUnfolds
          <6>3. Hit(n, r) = (q.value \cap Indexed(q.name, r) # {})
            BY <5>2, <6>1, HitUnfolds
          <6>4. /\ Bool("NOT", <<n>>).kind = "bool" /\ Bool("NOT", <<n>>).op = "NOT"
                /\ Bool("NOT", <<n>>).operands = <<n>>
            BY DEF Bool
          <6>5. Hit(Bool("NOT", <<n>>), r)
                = \A i \in DOMAIN <<n>> : ~ Hit(<<n>>[i], r)
            BY <6>1, <6>4, HitUnfolds
          <6>6. Hit(Bool("NOT", <<n>>), r) = (~ Hit(n, r))
            <7>1. DOMAIN <<n>> = {1} /\ <<n>>[1] = n
              OBVIOUS
            <7>2. QED BY <6>5, <7>1
          <6>7. Positive(q.op) = FALSE
            BY <4>2 DEF Positive
          <6> DEFINE both == q.value \cap Indexed(q.name, r)
          <6>8. CASE both = {}
            <7>1. Hit(q, r) = TRUE /\ Hit(n, r) = FALSE
              BY <6>2, <6>3, <6>7, <6>8
            <7>2. QED BY <6>6, <7>1
          <6>9. CASE both # {}
            <7>1. Hit(q, r) = FALSE /\ Hit(n, r) = TRUE
              BY <6>2, <6>3, <6>7, <6>9
            <7>2. QED BY <6>6, <7>1
          <6>10. QED BY <6>8, <6>9
        <5>6. QED BY <2>1, <5>1, <5>4, <5>5
      <4>3. QED BY <4>1, <4>2
    <3>3. CASE /\ q = Bool(q.op, q.operands) /\ q.kind = "bool"
               /\ q.op \in String /\ q.operands \in Seq(PredicatesTo[h])
      <4> DEFINE clauses == [i \in DOMAIN q.operands |-> ESClause(q.operands[i])]
      <4>1. ESClause(q) = [q EXCEPT !.operands = clauses]
        BY <3>1, <3>3, ESClauseUnfolds
      <4>2. [q EXCEPT !.operands = clauses] = Bool(q.op, clauses)
        BY <3>3 DEF Bool
      <4>3. \A i \in DOMAIN q.operands : P(h, q.operands[i])
        BY <1>2, <3>3
      <4>4. clauses \in Seq(PredicatesTo[h + 1]) /\ DOMAIN clauses = DOMAIN q.operands
        BY <3>3, <4>3
      <4>5. \A r : \A i \in DOMAIN q.operands : Hit(clauses[i], r) = Hit(q.operands[i], r)
        BY <4>3
      <4> HIDE DEF clauses
      <4>6. Bool(q.op, clauses) \in PredicatesTo[(h + 1) + 1]
        BY <2>1, <3>3, <4>4, BoolLevel
      <4>7. ASSUME NEW r PROVE Hit(Bool(q.op, clauses), r) = Hit(q, r)
        <5>1. Bool(q.op, clauses) \in Predicate
          BY <2>1, <2>2, <4>6
        <5>2. /\ Bool(q.op, clauses).kind = "bool" /\ Bool(q.op, clauses).op = q.op
              /\ Bool(q.op, clauses).operands = clauses
          BY DEF Bool
        <5>3. CASE q.op = "OR"
          <6>1. Hit(q, r) = \E i \in DOMAIN q.operands : Hit(q.operands[i], r)
            BY <3>1, <3>3, <5>3, HitUnfolds
          <6>2. Hit(Bool(q.op, clauses), r) = \E i \in DOMAIN clauses : Hit(clauses[i], r)
            BY <5>1, <5>2, <5>3, HitUnfolds
          <6>3. QED BY <4>4, <4>5, <6>1, <6>2
        <5>4. CASE q.op = "NOT"
          <6>1. Hit(q, r) = \A i \in DOMAIN q.operands : ~ Hit(q.operands[i], r)
            BY <3>1, <3>3, <5>4, HitUnfolds
          <6>2. Hit(Bool(q.op, clauses), r) = \A i \in DOMAIN clauses : ~ Hit(clauses[i], r)
            BY <5>1, <5>2, <5>4, HitUnfolds
          <6>3. QED BY <4>4, <4>5, <6>1, <6>2
        <5>5. CASE q.op \notin {"OR", "NOT"}
          <6>1. Hit(q, r) = \A i \in DOMAIN q.operands : Hit(q.operands[i], r)
            BY <3>1, <3>3, <5>5, HitUnfolds
          <6>2. Hit(Bool(q.op, clauses), r) = \A i \in DOMAIN clauses : Hit(clauses[i], r)
            BY <5>1, <5>2, <5>5, HitUnfolds
          <6>3. QED BY <4>4, <4>5, <6>1, <6>2
        <5>6. QED BY <5>3, <5>4, <5>5
      <4>8. QED BY <2>1, <4>1, <4>2, <4>6, <4>7
    <3>4. QED BY <2>1, <3>2, <3>3, PredicateNode
  <2>4. QED BY <2>1, <2>3
<1>3. H = 0 .. Depth + 1
  <2>1. H \in SUBSET (0 .. Depth + 1) /\ Depth + 1 \in Nat
    BY DepthAssumption
  <2> HIDE DEF H
  <2>2. QED BY <1>1, <1>2, <2>1, InductTo
<1>4. Depth + 1 \in H /\ (Depth + 1) + 1 = Depth + 2
  <2> HIDE DEF H
  <2>1. QED BY <1>3, DepthAssumption
<1>5. QED BY <1>4

--------------------------------------------------------------------------------
(* Plans, and what the rewrite does to them.                               *)

(* A plan, of those over any filters, by its kind; and induction over the  *)
(* inputs of such plans.                                                   *)
LEMMA PlanParts ==
  ASSUME NEW filters, NEW plans, plans = PlansTo(SelectsOf(filters))[Depth], NEW n \in plans
  PROVE  \/ /\ n = Select(n.signal, n.filter, n.lines) /\ n.kind = "select"
            /\ n.signal \in String /\ n.filter \in filters /\ n.lines \in Seq(Line)
         \/ n = Literal /\ n.kind = "literal"
         \/ /\ n = TimeAgg(n.op, n.window, n.input) /\ n.kind = "timeAgg"
            /\ n.op \in String /\ n.window \in Int /\ n.input \in plans
         \/ /\ n = Aggregate(n.op, n.by, n.without, n.param, n.input) /\ n.kind = "aggregate"
            /\ n.op \in String /\ n.by \in SUBSET String /\ n.without \in SUBSET String
            /\ n.param \in Int /\ n.input \in plans
         \/ /\ n = Function(n.name, n.args) /\ n.kind = "function"
            /\ n.name \in String /\ n.args \in Seq(plans)
         \/ /\ n = Binary(n.op, n.lhs, n.rhs, n.matching) /\ n.kind = "binary"
            /\ n.op \in String /\ n.matching \in {Nil} \cup VectorMatching
            /\ n.lhs \in plans /\ n.rhs \in plans
<1> DEFINE levels == PlansTo(SelectsOf(filters))
<1>1. Depth - 1 \in 0 .. Depth - 1 /\ (Depth - 1) + 1 = Depth
  BY DepthAssumption
<1>2. levels[Depth - 1] \subseteq plans /\ levels[(Depth - 1) + 1] = plans
  BY <1>1, PlanMonotone
<1> HIDE DEF levels
<1>3. n \in levels[(Depth - 1) + 1]
  BY <1>2
<1>4. \/ /\ n = Select(n.signal, n.filter, n.lines) /\ n.kind = "select"
         /\ n.signal \in String /\ n.filter \in filters /\ n.lines \in Seq(Line)
      \/ n = Literal /\ n.kind = "literal"
      \/ /\ n = TimeAgg(n.op, n.window, n.input) /\ n.kind = "timeAgg"
         /\ n.op \in String /\ n.window \in Int /\ n.input \in levels[Depth - 1]
      \/ /\ n = Aggregate(n.op, n.by, n.without, n.param, n.input) /\ n.kind = "aggregate"
         /\ n.op \in String /\ n.by \in SUBSET String /\ n.without \in SUBSET String
         /\ n.param \in Int /\ n.input \in levels[Depth - 1]
      \/ /\ n = Function(n.name, n.args) /\ n.kind = "function"
         /\ n.name \in String /\ n.args \in Seq(levels[Depth - 1])
      \/ /\ n = Binary(n.op, n.lhs, n.rhs, n.matching) /\ n.kind = "binary"
         /\ n.op \in String /\ n.matching \in {Nil} \cup VectorMatching
         /\ n.lhs \in levels[Depth - 1] /\ n.rhs \in levels[Depth - 1]
  BY <1>1, <1>3, FilterKinds DEF levels
<1>5. \A s \in Seq(levels[Depth - 1]) : s \in Seq(plans)
  BY <1>2
<1>6. QED BY <1>2, <1>4, <1>5

(* A set with every plan whose inputs it has. *)
HasPlans(plans, S) ==
  \A n \in plans :
    (/\ n.kind \in {"timeAgg", "aggregate"} => n.input \in S
     /\ n.kind = "function" => \A i \in DOMAIN n.args : n.args[i] \in S
     /\ n.kind = "binary" => n.lhs \in S /\ n.rhs \in S) => n \in S

(* Induction over the inputs of plans: a set that holds a plan once it     *)
(* holds its inputs holds them all.                                        *)
LEMMA PlanInduct ==
  ASSUME NEW filters, NEW S, HasPlans(PlansTo(SelectsOf(filters))[Depth], S)
  PROVE  PlansTo(SelectsOf(filters))[Depth] \subseteq S
<1> DEFINE levels == PlansTo(SelectsOf(filters))
           plans == levels[Depth]
           H == {h \in 0 .. Depth : levels[h] \subseteq S}
<1>1. 0 \in H
  BY PlanLevels, DepthAssumption
<1>2. ASSUME NEW h \in H, h < Depth PROVE h + 1 \in H
  <2>1. h \in 0 .. Depth - 1 /\ h + 1 \in 0 .. Depth /\ Depth \in 0 .. Depth
    BY <1>2, DepthAssumption
  <2>2. ASSUME NEW n \in levels[h + 1] PROVE n \in S
    <3>1. n \in plans
      BY <2>1, PlanWithin
    <3> HIDE DEF levels
    <3>2. /\ n.kind \in {"timeAgg", "aggregate"} => n.input \in levels[h]
          /\ n.kind = "function" => n.args \in Seq(levels[h])
          /\ n.kind = "binary" => n.lhs \in levels[h] /\ n.rhs \in levels[h]
      BY <2>1, FilterKinds DEF levels
    <3>3. levels[h] \subseteq S
      OBVIOUS
    <3>4. n.kind = "function" => \A i \in DOMAIN n.args : n.args[i] \in S
      BY <3>2, <3>3
    <3>5. QED BY <3>1, <3>2, <3>3, <3>4 DEF HasPlans, levels
  <2>3. QED BY <2>1, <2>2
<1>3. H = 0 .. Depth
  <2>1. H \in SUBSET (0 .. Depth) /\ Depth \in Nat
    BY DepthAssumption
  <2> HIDE DEF H
  <2>2. QED BY <1>1, <1>2, <2>1, InductTo
<1>4. Depth \in H
  <2> HIDE DEF H
  <2>1. QED BY <1>3, DepthAssumption
<1>5. QED BY <1>4

(* A record satisfies a predicate or does not, and a search finds it or    *)
(* does not.                                                               *)
LEMMA SatisfiesIsBoolean ==
  ASSUME NEW q \in Predicate, NEW r
  PROVE  Satisfies(q, r) \in BOOLEAN /\ Hit(q, r) \in BOOLEAN
<1>1. CASE q.kind = "leaf"
  <2>1. Satisfies(q, r) \in BOOLEAN
    BY <1>1, SatisfiesUnfolds DEF Accepts
  <2>2. QED BY <1>1, <2>1, HitUnfolds
<1>2. CASE q.kind = "bool"
  <2>1. Satisfies(q, r) \in BOOLEAN
    BY <1>2, SatisfiesUnfolds
  <2>2. QED BY <1>2, <2>1, HitUnfolds
<1>3. QED BY <1>1, <1>2, PredicateParts

(* A set meets one that holds at most x.                                   *)
LEMMA SetWithout ==
  ASSUME NEW S, NEW x, NEW e, e \notin S
  PROVE  (S \cap ({x} \ {e}) # {}) = (x \in S)
OBVIOUS

(* A search finds what a predicate holds of, where its matchers are read   *)
(* of a document as they are of labels.                                    *)
LEMMA HitsWhatHolds ==
  ASSUME NEW p \in Predicate, \A m \in Matchers(p) : ~ ReadOtherwise(m), NEW r
  PROVE  Hit(p, r) = Satisfies(p, r)
<1> DEFINE S == {q \in Predicate : (\A m \in Matchers(q) : ~ ReadOtherwise(m)) =>
                                      Hit(q, r) = Satisfies(q, r)}
<1>1. ASSUME NEW q \in Predicate,
             q.kind = "bool" => \A i \in DOMAIN q.operands : q.operands[i] \in S,
             \A m \in Matchers(q) : ~ ReadOtherwise(m)
      PROVE  Hit(q, r) = Satisfies(q, r)
  <2>1. CASE q.kind = "leaf"
    <3>1. Matchers(q) = {q}
      BY <2>1, MatchersUnfold
    <3>2. "" \notin q.value /\ q.name # messageField /\ q.name # phraseField
      BY <1>1, <3>1 DEF ReadOtherwise, OfMessage
    <3>3. Indexed(q.name, r) = {r[q.name]} \ {""}
      BY <3>2 DEF Indexed
    <3>4. (q.value \cap Indexed(q.name, r) # {}) = (r[q.name] \in q.value)
      <4>1. ASSUME NEW e, e \notin q.value
            PROVE  (q.value \cap ({r[q.name]} \ {e}) # {}) = (r[q.name] \in q.value)
        BY <4>1, SetWithout
      <4>2. QED BY <3>2, <3>3, <4>1, Zenon
    <3>5. Hit(q, r) = ((q.value \cap Indexed(q.name, r) # {}) = Positive(q.op))
      BY <2>1, HitUnfolds
    <3>6. Satisfies(q, r) = ((r[q.name] \in q.value) = Positive(q.op))
      BY <2>1, SatisfiesUnfolds DEF Accepts
    <3>7. QED BY <3>4, <3>5, <3>6, Zenon
  <2>2. CASE q.kind = "bool"
    <3>1. Matchers(q) = UNION {Matchers(q.operands[i]) : i \in DOMAIN q.operands}
      BY <2>2, MatchersUnfold
    <3>2. \A i \in DOMAIN q.operands : \A m \in Matchers(q.operands[i]) : ~ ReadOtherwise(m)
      BY <1>1, <3>1
    <3>3. \A i \in DOMAIN q.operands : Hit(q.operands[i], r) = Satisfies(q.operands[i], r)
      BY <1>1, <2>2, <3>2
    <3>4. CASE q.op = "OR"
      <4>1. Hit(q, r) = \E i \in DOMAIN q.operands : Hit(q.operands[i], r)
        BY <2>2, <3>4, HitUnfolds
      <4>2. Satisfies(q, r) = \E i \in DOMAIN q.operands : Satisfies(q.operands[i], r)
        BY <2>2, <3>4, SatisfiesUnfolds
      <4>3. QED BY <3>3, <4>1, <4>2
    <3>5. CASE q.op = "NOT"
      <4>1. Hit(q, r) = \A i \in DOMAIN q.operands : ~ Hit(q.operands[i], r)
        BY <2>2, <3>5, HitUnfolds
      <4>2. Satisfies(q, r) = \A i \in DOMAIN q.operands : ~ Satisfies(q.operands[i], r)
        BY <2>2, <3>5, SatisfiesUnfolds
      <4>3. QED BY <3>3, <4>1, <4>2
    <3>6. CASE q.op \notin {"OR", "NOT"}
      <4>1. Hit(q, r) = \A i \in DOMAIN q.operands : Hit(q.operands[i], r)
        BY <2>2, <3>6, HitUnfolds
      <4>2. Satisfies(q, r) = \A i \in DOMAIN q.operands : Satisfies(q.operands[i], r)
        BY <2>2, <3>6, SatisfiesUnfolds
      <4>3. QED BY <3>3, <4>1, <4>2
    <3>7. QED BY <3>4, <3>5, <3>6
  <2>3. QED BY <2>1, <2>2, PredicateParts
<1>2. Predicate \subseteq S
  <2>1. ASSUME NEW q \in Predicate,
               q.kind = "bool" => \A i \in DOMAIN q.operands : q.operands[i] \in S
        PROVE  q \in S
    BY <1>1, <2>1
  <2> HIDE DEF S
  <2>2. QED BY <2>1, PredicateInduct
<1>3. QED BY <1>2

(* The operands of a predicate under AND: it holds when they all do.       *)
LEMMA AndOperandsHold ==
  ASSUME NEW q \in PredicatesTo[Depth]
  PROVE  /\ AndOperands(q) \in Seq(PredicatesTo[Depth])
         /\ \A r : Satisfies(q, r) = \A p \in ToSet(AndOperands(q)) : Satisfies(p, r)
         /\ \A r : Hit(q, r) = \A p \in ToSet(AndOperands(q)) : Hit(p, r)
<1>1. /\ Depth \in 0 .. Depth + 3 /\ Depth - 1 \in 0 .. Depth + 2 /\ (Depth - 1) + 1 = Depth
      /\ Depth - 1 \in 0 .. Depth /\ Depth \in 0 .. Depth
  BY DepthAssumption
<1>2. PredicatesTo[Depth - 1] \subseteq PredicatesTo[Depth] /\ PredicatesTo[Depth] \subseteq Predicate
  BY <1>1, LowerLevels
<1>3. CASE q.kind = "bool" /\ q.op = "AND"
  <2>1. q \in PredicatesTo[(Depth - 1) + 1]
    BY <1>1
  <2>2. q.operands \in Seq(PredicatesTo[Depth - 1])
    BY <1>1, <1>3, <2>1, PredicateNode DEF Leaves
  <2>3. AndOperands(q) = q.operands
    BY <1>3 DEF AndOperands
  <2>4. q.operands \in Seq(PredicatesTo[Depth])
    BY <1>2, <2>2
  <2>5. ASSUME NEW r
        PROVE  /\ Satisfies(q, r) = \A p \in ToSet(q.operands) : Satisfies(p, r)
               /\ Hit(q, r) = \A p \in ToSet(q.operands) : Hit(p, r)
    <3>1. Satisfies(q, r) = \A i \in DOMAIN q.operands : Satisfies(q.operands[i], r)
      BY <1>2, <1>3, SatisfiesUnfolds
    <3>2. Hit(q, r) = \A i \in DOMAIN q.operands : Hit(q.operands[i], r)
      BY <1>2, <1>3, HitUnfolds
    <3>3. QED BY <3>1, <3>2 DEF ToSet
  <2>6. QED BY <2>3, <2>4, <2>5
<1>4. CASE ~ (q.kind = "bool" /\ q.op = "AND")
  <2>1. AndOperands(q) = <<q>>
    BY <1>4 DEF AndOperands
  <2>2. ToSet(<<q>>) = {q} /\ <<q>> \in Seq(PredicatesTo[Depth])
    BY ListOfItself DEF ToSet
  <2>3. \A r : Satisfies(q, r) \in BOOLEAN /\ Hit(q, r) \in BOOLEAN
    BY <1>2, SatisfiesIsBoolean
  <2>4. QED BY <2>1, <2>2, <2>3
<1>5. QED BY <1>3, <1>4

(* conjoin: what passes, or is found for, the filter and the enforcement.  *)
LEMMA ConjoinHolds ==
  ASSUME NEW filter \in Filters, NEW e \in PredicatesTo[Depth]
  PROVE  /\ Conjoin(filter, e) \in PredicatesTo[Depth + 1]
         /\ Conjoin(filter, e) \in Predicate /\ Conjoin(filter, e) # Nil
         /\ \A r : Passes(Conjoin(filter, e), r) = (Passes(filter, r) /\ Satisfies(e, r))
         /\ \A r : Searched(Conjoin(filter, e), r) = (Searched(filter, r) /\ Hit(e, r))
<1>1. /\ Depth + 1 \in 0 .. Depth + 3 /\ Depth \in 0 .. Depth + 2 /\ Depth \in 0 .. Depth + 1
      /\ Depth + 1 \in 0 .. Depth + 1
  BY DepthAssumption
<1>2. PredicatesTo[Depth] \subseteq PredicatesTo[Depth + 1] /\ PredicatesTo[Depth + 1] \subseteq Predicate
  BY <1>1, LowerLevels
<1>3. \A r : Satisfies(e, r) \in BOOLEAN /\ Hit(e, r) \in BOOLEAN
  BY <1>2, SatisfiesIsBoolean
<1>4. ASSUME NEW p \in PredicatesTo[Depth + 1], p = Conjoin(filter, e),
             \A r : Satisfies(p, r) = (Passes(filter, r) /\ Satisfies(e, r)),
             \A r : Hit(p, r) = (Searched(filter, r) /\ Hit(e, r))
      PROVE  /\ p \in Predicate /\ p # Nil
             /\ \A r : Passes(p, r) = (Passes(filter, r) /\ Satisfies(e, r))
             /\ \A r : Searched(p, r) = (Searched(filter, r) /\ Hit(e, r))
  <2>1. p \in Predicate /\ p # Nil
    BY <1>2, NilAssumption
  <2>2. QED BY <1>4, <2>1 DEF Passes, Searched
<1>5. CASE filter = Nil
  <2>1. Conjoin(filter, e) = e
    BY <1>5 DEF Conjoin
  <2>2. /\ \A r : Satisfies(e, r) = (Passes(filter, r) /\ Satisfies(e, r))
        /\ \A r : Hit(e, r) = (Searched(filter, r) /\ Hit(e, r))
    BY <1>3, <1>5 DEF Passes, Searched
  <2>3. QED BY <1>2, <1>4, <2>1, <2>2
<1>6. CASE filter # Nil
  <2> DEFINE ours == AndOperands(filter)
             theirs == AndOperands(e)
             p == Bool("AND", ours \o theirs)
  <2>1. filter \in PredicatesTo[Depth]
    BY <1>6 DEF Filters
  <2>2. /\ ours \in Seq(PredicatesTo[Depth]) /\ theirs \in Seq(PredicatesTo[Depth])
        /\ \A r : Satisfies(filter, r) = \A q \in ToSet(ours) : Satisfies(q, r)
        /\ \A r : Satisfies(e, r) = \A q \in ToSet(theirs) : Satisfies(q, r)
        /\ \A r : Hit(filter, r) = \A q \in ToSet(ours) : Hit(q, r)
        /\ \A r : Hit(e, r) = \A q \in ToSet(theirs) : Hit(q, r)
    BY <2>1, AndOperandsHold
  <2>3. Conjoin(filter, e) = p
    BY <1>6 DEF Conjoin
  <2> HIDE DEF ours, theirs
  <2>4. /\ ours \o theirs \in Seq(PredicatesTo[Depth])
        /\ ToSet(ours \o theirs) = ToSet(ours) \cup ToSet(theirs)
    BY <2>2, ConcatenatedElements
  <2> DEFINE both == ours \o theirs
  <2>5. p \in PredicatesTo[Depth + 1]
    BY <1>1, <2>4, BoolLevel, StringAssumption
  <2>6. p.kind = "bool" /\ p.op = "AND" /\ p.operands = both
    BY DEF Bool
  <2>7. ASSUME NEW r PROVE Satisfies(p, r) = (Passes(filter, r) /\ Satisfies(e, r))
    <3> HIDE DEF both, p
    <3>1. Satisfies(p, r) = \A i \in DOMAIN p.operands : Satisfies(p.operands[i], r)
      BY <1>2, <2>5, <2>6, SatisfiesUnfolds
    <3>2. Satisfies(p, r) = \A q \in ToSet(both) : Satisfies(q, r)
      BY <2>6, <3>1 DEF ToSet
    <3>3. Passes(filter, r) = Satisfies(filter, r)
      BY <1>6 DEF Passes
    <3>4. ToSet(both) = ToSet(ours) \cup ToSet(theirs)
      BY <2>4 DEF both
    <3>5. QED BY <2>2, <3>2, <3>3, <3>4
  <2>8. ASSUME NEW r PROVE Hit(p, r) = (Searched(filter, r) /\ Hit(e, r))
    <3> HIDE DEF both, p
    <3>1. Hit(p, r) = \A i \in DOMAIN p.operands : Hit(p.operands[i], r)
      BY <1>2, <2>5, <2>6, HitUnfolds
    <3>2. Hit(p, r) = \A q \in ToSet(both) : Hit(q, r)
      BY <2>6, <3>1 DEF ToSet
    <3>3. Searched(filter, r) = Hit(filter, r)
      BY <1>6 DEF Searched
    <3>4. ToSet(both) = ToSet(ours) \cup ToSet(theirs)
      BY <2>4 DEF both
    <3>5. QED BY <2>2, <3>2, <3>3, <3>4
  <2> HIDE DEF p
  <2>9. QED BY <1>4, <2>3, <2>5, <2>7, <2>8
<1>7. QED BY <1>5, <1>6

(* Plans over more plans and more Selects are more plans.                  *)
LEMMA PlansOverGrows ==
  ASSUME NEW below, NEW above, below \subseteq above, NEW few, NEW many, few \subseteq many
  PROVE  PlansOver(below, few) \subseteq PlansOver(above, many)
<1>1. Seq(below) \subseteq Seq(above)
  OBVIOUS
<1>2. ASSUME NEW n \in PlansOver(below, few) PROVE n \in PlansOver(above, many)
  <2>1. CASE n \in few \cup {Literal}
    BY <2>1 DEF PlansOver
  <2>2. CASE n \in [kind : {"timeAgg"}, op : String, window : Int, input : below]
    BY <2>2 DEF PlansOver
  <2>3. CASE n \in [kind : {"aggregate"}, op : String, by : SUBSET String, without : SUBSET String,
                    param : Int, input : below]
    BY <2>3 DEF PlansOver
  <2>4. CASE n \in [kind : {"function"}, name : String, args : Seq(below)]
    BY <1>1, <2>4 DEF PlansOver
  <2>5. CASE n \in [kind : {"binary"}, op : String, lhs : below, rhs : below,
                    matching : {Nil} \cup VectorMatching]
    BY <2>5 DEF PlansOver
  <2>6. QED BY <1>2, <2>1, <2>2, <2>3, <2>4, <2>5, Zenon DEF PlansOver
<1>3. QED BY <1>2

(* The levels of the plans of requests.                                    *)
GivenTo == PlansTo(SelectsOf(Filters))

(* A plan of a request is a plan, with filters of fewer levels.            *)
LEMMA GivenIsPlan == GivenPlan \subseteq Plan
<1> DEFINE H == {h \in 0 .. Depth : GivenTo[h] \subseteq PlanTo[h]}
<1>1. 0 \in H
  BY PlanLevels, DepthAssumption DEF GivenTo
<1>2. SelectsOf(Filters) \subseteq SelectsOf({Nil} \cup Predicate)
  <2>1. Depth \in 0 .. Depth + 3 /\ Depth \in 0 .. Depth
    BY DepthAssumption
  <2>2. Filters \subseteq {Nil} \cup Predicate
    BY <2>1, LowerLevels DEF Filters
  <2>3. QED BY <2>2 DEF SelectsOf
<1>3. ASSUME NEW h \in H, h < Depth PROVE h + 1 \in H
  <2>1. h \in 0 .. Depth - 1 /\ h + 1 \in 0 .. Depth
    BY <1>3, DepthAssumption
  <2>2. /\ GivenTo[h + 1] = PlansOver(GivenTo[h], SelectsOf(Filters))
        /\ PlanTo[h + 1] = PlansOver(PlanTo[h], SelectsOf({Nil} \cup Predicate))
    BY <2>1, PlanLevels DEF GivenTo, PlanTo
  <2>3. GivenTo[h] \subseteq PlanTo[h]
    OBVIOUS
  <2>4. PlansOver(GivenTo[h], SelectsOf(Filters)) \subseteq PlansOver(PlanTo[h], SelectsOf({Nil} \cup Predicate))
    BY <1>2, <2>3, PlansOverGrows
  <2>5. QED BY <2>1, <2>2, <2>4
<1>4. H = 0 .. Depth
  <2>1. H \in SUBSET (0 .. Depth) /\ Depth \in Nat
    BY DepthAssumption
  <2> HIDE DEF H
  <2>2. QED BY <1>1, <1>3, <2>1, InductTo
<1>5. Depth \in H
  <2> HIDE DEF H
  <2>1. QED BY <1>4, DepthAssumption
<1>6. QED BY <1>5 DEF GivenPlan, Plan, GivenTo, PlanTo

(* What is over plans of a level is a plan of the next.                    *)
LEMMA PlanOverPlans ==
  ASSUME NEW filters, NEW levels, levels = PlansTo(SelectsOf(filters)), NEW h \in 0 .. Depth - 1
  PROVE  /\ \A signal \in String, filter \in filters, lines \in Seq(Line) :
              Select(signal, filter, lines) \in levels[h + 1]
         /\ Literal \in levels[h + 1]
         /\ \A op \in String, window \in Int, input \in levels[h] :
              TimeAgg(op, window, input) \in levels[h + 1]
         /\ \A op \in String, by \in SUBSET String, without \in SUBSET String, param \in Int,
               input \in levels[h] : Aggregate(op, by, without, param, input) \in levels[h + 1]
         /\ \A name \in String, args \in Seq(levels[h]) : Function(name, args) \in levels[h + 1]
         /\ \A op \in String, lhs \in levels[h], rhs \in levels[h],
               matching \in {Nil} \cup VectorMatching :
                 Binary(op, lhs, rhs, matching) \in levels[h + 1]
<1>1. levels[h + 1] = PlansOver(levels[h], SelectsOf(filters))
  BY PlanLevels
<1>2. Literal \in levels[h + 1]
  BY <1>1 DEF PlansOver
<1>3. ASSUME NEW signal \in String, NEW filter \in filters, NEW lines \in Seq(Line)
      PROVE  Select(signal, filter, lines) \in levels[h + 1]
  BY <1>1 DEF PlansOver, SelectsOf, Select
<1>4. ASSUME NEW op \in String, NEW window \in Int, NEW input \in levels[h]
      PROVE  TimeAgg(op, window, input) \in levels[h + 1]
  BY <1>1 DEF PlansOver, TimeAgg
<1>5. ASSUME NEW op \in String, NEW by \in SUBSET String, NEW without \in SUBSET String,
             NEW param \in Int, NEW input \in levels[h]
      PROVE  Aggregate(op, by, without, param, input) \in levels[h + 1]
  BY <1>1 DEF PlansOver, Aggregate
<1>6. ASSUME NEW name \in String, NEW args \in Seq(levels[h])
      PROVE  Function(name, args) \in levels[h + 1]
  BY <1>1 DEF PlansOver, Function
<1>7. ASSUME NEW op \in String, NEW lhs \in levels[h], NEW rhs \in levels[h],
             NEW matching \in {Nil} \cup VectorMatching
      PROVE  Binary(op, lhs, rhs, matching) \in levels[h + 1]
  BY <1>1 DEF PlansOver, Binary
<1>8. QED BY <1>2, <1>3, <1>4, <1>5, <1>6, <1>7

(* Composed by kinds: the node itself, over what its inputs become.        *)
LEMMA ComposedNode ==
  ASSUME NEW e, NEW n \in Plan
  PROVE  /\ n = Select(n.signal, n.filter, n.lines) /\ n.kind = "select" =>
              Composed(n, e) = Select(n.signal, Conjoin(n.filter, e), n.lines)
         /\ n.kind = "literal" => Composed(n, e) = n
         /\ n = TimeAgg(n.op, n.window, n.input) /\ n.kind = "timeAgg" =>
              Composed(n, e) = TimeAgg(n.op, n.window, Composed(n.input, e))
         /\ n = Aggregate(n.op, n.by, n.without, n.param, n.input) /\ n.kind = "aggregate" =>
              Composed(n, e) = Aggregate(n.op, n.by, n.without, n.param, Composed(n.input, e))
         /\ n = Function(n.name, n.args) /\ n.kind = "function" =>
              Composed(n, e) = Function(n.name, [i \in DOMAIN n.args |-> Composed(n.args[i], e)])
         /\ n = Binary(n.op, n.lhs, n.rhs, n.matching) /\ n.kind = "binary" =>
              Composed(n, e) = Binary(n.op, Composed(n.lhs, e), Composed(n.rhs, e), n.matching)
<1>1. ASSUME n = Select(n.signal, n.filter, n.lines), n.kind = "select"
      PROVE  Composed(n, e) = Select(n.signal, Conjoin(n.filter, e), n.lines)
  <2>1. Composed(n, e) = [n EXCEPT !.filter = Conjoin(@, e)]
    BY <1>1, ComposedUnfolds
  <2>2. QED BY <1>1, <2>1 DEF Select
<1>2. n.kind = "literal" => Composed(n, e) = n
  BY ComposedUnfolds
<1>3. ASSUME n = TimeAgg(n.op, n.window, n.input), n.kind = "timeAgg"
      PROVE  Composed(n, e) = TimeAgg(n.op, n.window, Composed(n.input, e))
  <2>1. Composed(n, e) = [n EXCEPT !.input = Composed(n.input, e)]
    BY <1>3, ComposedUnfolds
  <2>2. QED BY <1>3, <2>1 DEF TimeAgg
<1>4. ASSUME n = Aggregate(n.op, n.by, n.without, n.param, n.input), n.kind = "aggregate"
      PROVE  Composed(n, e) = Aggregate(n.op, n.by, n.without, n.param, Composed(n.input, e))
  <2>1. Composed(n, e) = [n EXCEPT !.input = Composed(n.input, e)]
    BY <1>4, ComposedUnfolds
  <2>2. QED BY <1>4, <2>1 DEF Aggregate
<1>5. ASSUME n = Function(n.name, n.args), n.kind = "function"
      PROVE  Composed(n, e) = Function(n.name, [i \in DOMAIN n.args |-> Composed(n.args[i], e)])
  <2> DEFINE args == [i \in DOMAIN n.args |-> Composed(n.args[i], e)]
  <2>1. Composed(n, e) = [n EXCEPT !.args = args]
    <3>1. n.kind = "function" /\ n.kind # "select" /\ n.kind \notin {"timeAgg", "aggregate"}
      BY <1>5
    <3>2. Composed(n, e) = [n EXCEPT !.args = [i \in DOMAIN @ |-> Composed(@[i], e)]]
      BY <3>1, ComposedUnfolds, Zenon
    <3>3. QED BY <3>2
  <2> HIDE DEF args
  <2>2. Composed(n, e) = Function(n.name, args)
    BY <1>5, <2>1 DEF Function
  <2>3. QED BY <2>2 DEF args
<1>6. ASSUME n = Binary(n.op, n.lhs, n.rhs, n.matching), n.kind = "binary"
      PROVE  Composed(n, e) = Binary(n.op, Composed(n.lhs, e), Composed(n.rhs, e), n.matching)
  <2> DEFINE lhs == Composed(n.lhs, e)
             rhs == Composed(n.rhs, e)
  <2>1. Composed(n, e) = [n EXCEPT !.lhs = lhs, !.rhs = rhs]
    BY <1>6, ComposedUnfolds
  <2> HIDE DEF lhs, rhs
  <2>2. Composed(n, e) = Binary(n.op, lhs, rhs, n.matching)
    BY <1>6, <2>1 DEF Binary
  <2>3. QED BY <2>2 DEF lhs, rhs
<1>7. QED BY <1>1, <1>2, <1>3, <1>4, <1>5, <1>6

(* composeEnforcement makes a plan of a request's plan.                    *)
LEMMA ComposedIsPlan ==
  ASSUME NEW e \in PredicatesTo[Depth], NEW given \in GivenPlan
  PROVE  Composed(given, e) \in Plan
<1> DEFINE H == {h \in 0 .. Depth : \A n \in GivenTo[h] : Composed(n, e) \in PlanTo[h]}
<1>1. 0 \in H
  BY PlanLevels, DepthAssumption DEF GivenTo
<1>2. ASSUME NEW h \in H, h < Depth PROVE h + 1 \in H
  <2>1. h \in 0 .. Depth - 1 /\ h + 1 \in 0 .. Depth /\ Depth \in 0 .. Depth
    BY <1>2, DepthAssumption
  <2>2. ASSUME NEW n \in GivenTo[h + 1] PROVE Composed(n, e) \in PlanTo[h + 1]
    <3>1. n \in Plan
      BY <2>1, PlanWithin, GivenIsPlan DEF GivenTo, GivenPlan
    <3>2. \A c \in GivenTo[h] : Composed(c, e) \in PlanTo[h]
      OBVIOUS
    <3>3. CASE /\ n = Select(n.signal, n.filter, n.lines) /\ n.kind = "select"
               /\ n.signal \in String /\ n.filter \in Filters /\ n.lines \in Seq(Line)
      <4>1. Composed(n, e) = Select(n.signal, Conjoin(n.filter, e), n.lines)
        BY <3>1, <3>3, ComposedNode
      <4>2. Conjoin(n.filter, e) \in {Nil} \cup Predicate
        BY <3>3, ConjoinHolds
      <4>3. \A signal \in String, filter \in {Nil} \cup Predicate, lines \in Seq(Line) :
              Select(signal, filter, lines) \in PlanTo[h + 1]
        <5>1. PlanTo = PlansTo(SelectsOf({Nil} \cup Predicate))
          BY DEF PlanTo
        <5>2. QED BY <2>1, <5>1, PlanOverPlans
      <4>4. QED BY <3>3, <4>1, <4>2, <4>3
    <3>4. CASE n = Literal /\ n.kind = "literal"
      <4>1. Composed(n, e) = n
        BY <3>1, <3>4, ComposedUnfolds
      <4>2. QED BY <2>1, <3>4, <4>1, PlanOverPlans DEF PlanTo
    <3>5. CASE /\ n = TimeAgg(n.op, n.window, n.input) /\ n.kind = "timeAgg"
               /\ n.op \in String /\ n.window \in Int /\ n.input \in GivenTo[h]
      <4>1. Composed(n, e) = TimeAgg(n.op, n.window, Composed(n.input, e))
        BY <3>1, <3>5, ComposedNode
      <4>2. QED BY <2>1, <3>2, <3>5, <4>1, PlanOverPlans DEF PlanTo
    <3>6. CASE /\ n = Aggregate(n.op, n.by, n.without, n.param, n.input) /\ n.kind = "aggregate"
               /\ n.op \in String /\ n.by \in SUBSET String /\ n.without \in SUBSET String
               /\ n.param \in Int /\ n.input \in GivenTo[h]
      <4>1. Composed(n, e) = Aggregate(n.op, n.by, n.without, n.param, Composed(n.input, e))
        BY <3>1, <3>6, ComposedNode
      <4>2. \A op \in String, by \in SUBSET String, without \in SUBSET String, param \in Int,
               input \in PlanTo[h] : Aggregate(op, by, without, param, input) \in PlanTo[h + 1]
        BY <2>1, PlanOverPlans DEF PlanTo
      <4>3. QED BY <3>2, <3>6, <4>1, <4>2
    <3>7. CASE /\ n = Function(n.name, n.args) /\ n.kind = "function"
               /\ n.name \in String /\ n.args \in Seq(GivenTo[h])
      <4> DEFINE args == [i \in DOMAIN n.args |-> Composed(n.args[i], e)]
      <4>1. Composed(n, e) = Function(n.name, args)
        BY <3>1, <3>7, ComposedNode
      <4>2. args \in Seq(PlanTo[h])
        <5>1. Len(n.args) \in Nat /\ DOMAIN n.args = 1 .. Len(n.args)
          BY <3>7
        <5>2. \A i \in DOMAIN n.args : Composed(n.args[i], e) \in PlanTo[h]
          BY <3>2, <3>7
        <5>3. QED BY <5>1, <5>2
      <4> HIDE DEF args
      <4>3. QED BY <2>1, <3>7, <4>1, <4>2, PlanOverPlans DEF PlanTo
    <3>8. CASE /\ n = Binary(n.op, n.lhs, n.rhs, n.matching) /\ n.kind = "binary"
               /\ n.op \in String /\ n.matching \in {Nil} \cup VectorMatching
               /\ n.lhs \in GivenTo[h] /\ n.rhs \in GivenTo[h]
      <4>1. Composed(n, e) = Binary(n.op, Composed(n.lhs, e), Composed(n.rhs, e), n.matching)
        BY <3>1, <3>8, ComposedNode
      <4>2. QED BY <2>1, <3>2, <3>8, <4>1, PlanOverPlans DEF PlanTo
    <3>9. QED BY <2>1, <3>3, <3>4, <3>5, <3>6, <3>7, <3>8, FilterKinds DEF GivenTo
  <2>3. QED BY <2>1, <2>2
<1>3. H = 0 .. Depth
  <2>1. H \in SUBSET (0 .. Depth) /\ Depth \in Nat
    BY DepthAssumption
  <2> HIDE DEF H
  <2>2. QED BY <1>1, <1>2, <2>1, InductTo
<1>4. Depth \in H
  <2> HIDE DEF H
  <2>1. QED BY <1>3, DepthAssumption
<1>5. QED BY <1>4 DEF GivenPlan, Plan, GivenTo, PlanTo

(* The rewrite narrows: a plan that a predicate is enforced on computes    *)
(* from all records what it computes by itself from those the predicate    *)
(* accepts, whatever the plan.                                             *)
THEOREM EnforcementNarrows ==
  ASSUME NEW e \in PredicatesTo[Depth], NEW plan \in GivenPlan, NEW D
  PROVE  PlanMeaning(Composed(plan, e), D) = PlanMeaning(plan, {r \in D : Satisfies(e, r)})
<1> DEFINE seen == {r \in D : Satisfies(e, r)}
           S == {n \in GivenPlan : PlanMeaning(Composed(n, e), D) = PlanMeaning(n, seen)}
<1>1. ASSUME NEW n \in GivenPlan,
             n.kind \in {"timeAgg", "aggregate"} => n.input \in S,
             n.kind = "function" => \A i \in DOMAIN n.args : n.args[i] \in S,
             n.kind = "binary" => n.lhs \in S /\ n.rhs \in S
      PROVE  n \in S
  <2> HIDE DEF seen
  <2>1. n \in Plan /\ Composed(n, e) \in Plan
    BY GivenIsPlan, ComposedIsPlan
  <2>2. CASE /\ n = Select(n.signal, n.filter, n.lines) /\ n.kind = "select"
             /\ n.signal \in String /\ n.filter \in Filters /\ n.lines \in Seq(Line)
    <3> DEFINE m == Select(n.signal, Conjoin(n.filter, e), n.lines)
    <3>1. Composed(n, e) = m
      BY <2>1, <2>2, ComposedNode
    <3>2. m \in Plan /\ m.kind = "select" /\ m.signal = n.signal /\ m.lines = n.lines
          /\ m.filter = Conjoin(n.filter, e)
      BY <2>1, <3>1 DEF Select
    <3> HIDE DEF m
    <3> DEFINE ours == {r \in D : m.signal = r.signal /\ Passes(m.filter, r) /\ LinesPass(m.lines, r)}
               theirs == {r \in seen : r.signal = n.signal /\ Passes(n.filter, r) /\ LinesPass(n.lines, r)}
    <3>3. PlanMeaning(m, D)
          = Rows({r \in D : r.signal = m.signal /\ Passes(m.filter, r) /\ LinesPass(m.lines, r)})
      BY <3>2, PlanMeaningUnfolds
    <3>4. PlanMeaning(n, seen)
          = Rows({r \in seen : r.signal = n.signal /\ Passes(n.filter, r) /\ LinesPass(n.lines, r)})
      BY <2>1, <2>2, PlanMeaningUnfolds
    <3>5. \A r : Passes(m.filter, r) = (Passes(n.filter, r) /\ Satisfies(e, r))
      BY <2>2, <3>2, ConjoinHolds
    <3>6. {r \in D : r.signal = m.signal /\ Passes(m.filter, r) /\ LinesPass(m.lines, r)}
          = {r \in seen : r.signal = n.signal /\ Passes(n.filter, r) /\ LinesPass(n.lines, r)}
      BY <3>2, <3>5 DEF seen
    <3>7. QED BY <3>1, <3>3, <3>4, <3>6
  <2>3. CASE n = Literal /\ n.kind = "literal"
    <3>1. Composed(n, e) = n
      BY <2>1, <2>3, ComposedUnfolds
    <3>2. PlanMeaning(n, D) = Scalar /\ PlanMeaning(n, seen) = Scalar
      BY <2>1, <2>3, PlanMeaningUnfolds
    <3>3. QED BY <3>1, <3>2
  <2>4. CASE n = TimeAgg(n.op, n.window, n.input) /\ n.kind = "timeAgg"
    <3> DEFINE m == TimeAgg(n.op, n.window, Composed(n.input, e))
    <3>1. Composed(n, e) = m
      BY <2>1, <2>4, ComposedNode
    <3>2. /\ m \in Plan /\ m.kind = "timeAgg" /\ m.op = n.op /\ m.window = n.window
          /\ m.input = Composed(n.input, e)
      BY <2>1, <3>1 DEF TimeAgg
    <3> HIDE DEF m
    <3>3. PlanMeaning(m, D) = Mapped(n.op, n.window, PlanMeaning(m.input, D))
      BY <3>2, PlanMeaningUnfolds
    <3>4. PlanMeaning(n, seen) = Mapped(n.op, n.window, PlanMeaning(n.input, seen))
      BY <2>1, <2>4, PlanMeaningUnfolds
    <3>5. QED BY <1>1, <2>4, <3>1, <3>2, <3>3, <3>4
  <2>5. CASE n = Aggregate(n.op, n.by, n.without, n.param, n.input) /\ n.kind = "aggregate"
    <3> DEFINE m == Aggregate(n.op, n.by, n.without, n.param, Composed(n.input, e))
    <3>1. Composed(n, e) = m
      BY <2>1, <2>5, ComposedNode
    <3>2. /\ m \in Plan /\ m.kind = "aggregate" /\ m.op = n.op /\ m.by = n.by
          /\ m.without = n.without /\ m.param = n.param /\ m.input = Composed(n.input, e)
      BY <2>1, <3>1 DEF Aggregate
    <3> HIDE DEF m
    <3>3. Grouping(m) = Grouping(n) /\ GroupLabels(m) = GroupLabels(n)
      BY <3>2 DEF Grouping, GroupLabels
    <3>4. PlanMeaning(m, D)
          = Reduced(PlanMeaning(m.input, D), m.op, Grouping(m), GroupLabels(m), <<m.param>>)
      BY <3>2, PlanMeaningUnfolds
    <3>5. PlanMeaning(n, seen)
          = Reduced(PlanMeaning(n.input, seen), n.op, Grouping(n), GroupLabels(n), <<n.param>>)
      BY <2>1, <2>5, PlanMeaningUnfolds
    <3>6. QED BY <1>1, <2>5, <3>1, <3>2, <3>3, <3>4, <3>5
  <2>6. CASE /\ n = Function(n.name, n.args) /\ n.kind = "function"
             /\ n.args \in Seq(GivenPlan)
    <3> DEFINE args == [i \in DOMAIN n.args |-> Composed(n.args[i], e)]
               m == Function(n.name, args)
    <3>1. Composed(n, e) = m
      BY <2>1, <2>6, ComposedNode
    <3>2. m \in Plan /\ m.kind = "function" /\ m.name = n.name /\ m.args = args
      BY <2>1, <3>1 DEF Function
    <3>3. Len(m.args) = Len(n.args) /\ (Len(n.args) = 1 => m.args[1] = Composed(n.args[1], e))
      <4>1. Len(n.args) \in Nat /\ DOMAIN n.args = 1 .. Len(n.args)
        BY <2>6
      <4>2. Len(args) = Len(n.args) /\ (Len(n.args) = 1 => args[1] = Composed(n.args[1], e))
        BY <4>1
      <4>3. QED BY <3>2, <4>2
    <3>4. Len(n.args) = 1 => n.args[1] \in S
      BY <1>1, <2>6
    <3> HIDE DEF m, args
    <3>5. PlanMeaning(m, D)
          = IF Len(m.args) = 1 THEN Mapped(m.name, 0, PlanMeaning(m.args[1], D)) ELSE Error
      BY <3>2, PlanMeaningUnfolds
    <3>6. PlanMeaning(n, seen)
          = IF Len(n.args) = 1 THEN Mapped(n.name, 0, PlanMeaning(n.args[1], seen)) ELSE Error
      BY <2>1, <2>6, PlanMeaningUnfolds
    <3>7. QED BY <3>1, <3>2, <3>3, <3>4, <3>5, <3>6
  <2>7. CASE n = Binary(n.op, n.lhs, n.rhs, n.matching) /\ n.kind = "binary"
    <3> DEFINE m == Binary(n.op, Composed(n.lhs, e), Composed(n.rhs, e), n.matching)
    <3>1. Composed(n, e) = m
      BY <2>1, <2>7, ComposedNode
    <3>2. /\ m \in Plan /\ m.kind = "binary" /\ m.op = n.op /\ m.matching = n.matching
          /\ m.lhs = Composed(n.lhs, e) /\ m.rhs = Composed(n.rhs, e)
      BY <2>1, <3>1 DEF Binary
    <3> HIDE DEF m
    <3>3. PlanMeaning(m, D)
          = Paired(m.op, MatchingClause(m.matching), PlanMeaning(m.lhs, D), PlanMeaning(m.rhs, D))
      BY <3>2, PlanMeaningUnfolds
    <3>4. PlanMeaning(n, seen)
          = Paired(n.op, MatchingClause(n.matching), PlanMeaning(n.lhs, seen), PlanMeaning(n.rhs, seen))
      BY <2>1, <2>7, PlanMeaningUnfolds
    <3>5. QED BY <1>1, <2>7, <3>1, <3>2, <3>3, <3>4
  <2>8. QED
    BY <2>2, <2>3, <2>4, <2>5, <2>6, <2>7, PlanParts DEF GivenPlan
<1>2. GivenPlan \subseteq S
  <2> HIDE DEF S
  <2>1. HasPlans(GivenPlan, S)
    BY <1>1 DEF HasPlans
  <2>2. QED BY <2>1, PlanInduct DEF GivenPlan
<1>3. QED BY <1>2

--------------------------------------------------------------------------------
(* What the Prometheus acceptor makes a plan of.                           *)

(* A list of matchers as a filter.                                         *)
LEMMA FilterOfMatchers ==
  ASSUME NEW matchers \in Seq(Leaves)
  PROVE  /\ Filter(matchers) \in Filters /\ Filter(matchers) # Nil
         /\ \A r : Passes(Filter(matchers), r) = \A i \in DOMAIN matchers : Satisfies(matchers[i], r)
<1>1. /\ Depth \in 0 .. Depth + 3 /\ Depth \in 1 .. Depth + 3 /\ 2 \in 0 .. Depth /\ 1 \in 1 .. Depth + 3
      /\ 1 \in 0 .. Depth + 2 /\ Depth \in 0 .. Depth /\ 1 + 1 = 2
  BY DepthAssumption
<1>2. /\ Leaves \subseteq PredicatesTo[1] /\ Leaves \subseteq PredicatesTo[Depth]
      /\ PredicatesTo[2] \subseteq PredicatesTo[Depth] /\ PredicatesTo[Depth] \subseteq Predicate
  BY <1>1, LeafLevel, LowerLevels
<1>3. \A p \in PredicatesTo[Depth] : p \in Filters /\ p # Nil /\ \A r : Passes(p, r) = Satisfies(p, r)
  BY <1>2, NilAssumption DEF Filters, Passes
<1>4. CASE Len(matchers) = 1
  <2>1. Filter(matchers) = matchers[1] /\ matchers[1] \in Leaves /\ DOMAIN matchers = {1}
    BY <1>4 DEF Filter
  <2>2. \A r : Satisfies(matchers[1], r) \in BOOLEAN
    BY <1>2, <2>1, SatisfiesIsBoolean
  <2>3. QED BY <1>2, <1>3, <2>1, <2>2
<1>5. CASE Len(matchers) # 1
  <2> DEFINE p == Bool("AND", matchers)
  <2>1. Filter(matchers) = p
    BY <1>5 DEF Filter
  <2>2. matchers \in Seq(PredicatesTo[1])
    BY <1>2
  <2>3. p \in PredicatesTo[1 + 1]
    BY <1>1, <2>2, BoolLevel, StringAssumption
  <2>4. p \in PredicatesTo[Depth]
    BY <1>1, <1>2, <2>3
  <2>5. p.kind = "bool" /\ p.op = "AND" /\ p.operands = matchers
    BY DEF Bool
  <2> HIDE DEF p
  <2>6. ASSUME NEW r PROVE Satisfies(p, r) = \A i \in DOMAIN matchers : Satisfies(matchers[i], r)
    BY <1>2, <2>4, <2>5, SatisfiesUnfolds
  <2>7. QED BY <1>3, <2>1, <2>4, <2>6
<1>6. QED BY <1>4, <1>5

(* convert makes a request's plan of every tree.                           *)
LEMMA ConvertedIsGiven ==
  ASSUME NEW tree \in Tree
  PROVE  Converted(tree) \in GivenPlan
<1> DEFINE H == {h \in 0 .. Depth : \A t \in TreesTo[h] : Converted(t) \in GivenTo[h]}
<1>1. 0 \in H
  BY TreeLevels, DepthAssumption
<1>2. ASSUME NEW h \in H, h < Depth PROVE h + 1 \in H
  <2>1. h \in 0 .. Depth - 1 /\ h + 1 \in 0 .. Depth /\ Depth \in 0 .. Depth
    BY <1>2, DepthAssumption
  <2>2. ASSUME NEW t \in TreesTo[h + 1] PROVE Converted(t) \in GivenTo[h + 1]
    <3>1. t \in Tree
      BY <2>1, TreeWithin DEF Tree
    <3>2. \A c \in TreesTo[h] : Converted(c) \in GivenTo[h]
      OBVIOUS
    <3>3. CASE t.kind = "selector" /\ t.matchers \in Seq(Leaves)
      <4>1. Converted(t) = Select("metrics", Filter(t.matchers), <<>>)
        BY <3>1, <3>3, ConvertedUnfolds
      <4>2. Filter(t.matchers) \in Filters
        BY <3>3, FilterOfMatchers
      <4>3. "metrics" \in String
        BY StringAssumption
      <4>4. <<>> \in Seq(Line)
        OBVIOUS
      <4>5. \A signal \in String, filter \in Filters, lines \in Seq(Line) :
              Select(signal, filter, lines) \in GivenTo[h + 1]
        <5>1. GivenTo = PlansTo(SelectsOf(Filters))
          BY DEF GivenTo
        <5>2. QED BY <2>1, <5>1, PlanOverPlans
      <4>6. QED BY <4>1, <4>2, <4>3, <4>4, <4>5
    <3>4. CASE t.kind \in {"documents", "number", "other", "refused"}
      <4>1. Converted(t) = Literal
        BY <3>1, <3>4, ConvertedUnfolds
      <4>2. QED BY <2>1, <4>1, PlanOverPlans DEF GivenTo
    <3>5. CASE t.kind = "range" /\ t.func \in String /\ t.window \in Int /\ t.input \in TreesTo[h]
      <4>1. Converted(t) = TimeAgg(t.func, t.window, Converted(t.input))
        BY <3>1, <3>5, ConvertedUnfolds
      <4>2. QED BY <2>1, <3>2, <3>5, <4>1, PlanOverPlans DEF GivenTo
    <3>6. CASE /\ t.kind = "agg" /\ t.func \in String /\ t.labels \in SUBSET String
               /\ t.params \in Seq(Int) /\ t.input \in TreesTo[h]
      <4> DEFINE by == IF t.clause = "by" THEN t.labels ELSE {}
                 without == IF t.clause = "without" THEN t.labels ELSE {}
                 param == IF t.params = <<>> THEN 0 ELSE t.params[1]
      <4>1. Converted(t) = Aggregate(t.func, by, without, param, Converted(t.input))
        BY <3>1, <3>6, ConvertedUnfolds
      <4>2. by \in SUBSET String /\ without \in SUBSET String
        BY <3>6
      <4>3. param \in Int
        BY <3>6
      <4> HIDE DEF by, without, param
      <4>4. QED BY <2>1, <3>2, <3>6, <4>1, <4>2, <4>3, PlanOverPlans DEF GivenTo
    <3>7. CASE t.kind = "call" /\ t.func \in String /\ t.args \in Seq(TreesTo[h])
      <4> DEFINE args == [i \in DOMAIN t.args |-> Converted(t.args[i])]
      <4>1. Converted(t) = Function(t.func, args)
        BY <3>1, <3>7, ConvertedUnfolds
      <4>2. args \in Seq(GivenTo[h])
        <5>1. Len(t.args) \in Nat /\ DOMAIN t.args = 1 .. Len(t.args)
          BY <3>7
        <5>2. \A i \in DOMAIN t.args : Converted(t.args[i]) \in GivenTo[h]
          BY <3>2, <3>7
        <5>3. QED BY <5>1, <5>2
      <4> HIDE DEF args
      <4>3. QED BY <2>1, <3>7, <4>1, <4>2, PlanOverPlans DEF GivenTo
    <3>8. CASE /\ t.kind = "bin" /\ t.op \in String /\ t.mod \in VectorModifier
               /\ t.lhs \in TreesTo[h] /\ t.rhs \in TreesTo[h]
      <4>1. Converted(t) = Binary(t.op, Converted(t.lhs), Converted(t.rhs), Matching(t.mod))
        BY <3>1, <3>8, ConvertedUnfolds
      <4>2. Matching(t.mod) \in VectorMatching
        BY <3>8 DEF Matching, VectorModifier, VectorMatching
      <4>3. QED BY <2>1, <3>2, <3>8, <4>1, <4>2, PlanOverPlans DEF GivenTo
    <3>9. CASE t.kind = "neg" /\ t.input \in TreesTo[h]
      <4>1. Converted(t) = Binary("-", Literal, Converted(t.input), Nil)
        BY <3>1, <3>9, ConvertedUnfolds
      <4>2. h - 1 \in 0 .. Depth - 1 /\ (h - 1) + 1 = h
        BY <2>1, <3>9, TreeLevels, DepthAssumption
      <4>3. Literal \in GivenTo[(h - 1) + 1]
        BY <4>2, PlanOverPlans DEF GivenTo
      <4>4. Literal \in GivenTo[h] /\ "-" \in String
        BY <4>2, <4>3, StringAssumption
      <4>5. QED BY <2>1, <3>2, <3>9, <4>1, <4>4, PlanOverPlans DEF GivenTo
    <3>10. QED BY <2>1, <3>3, <3>4, <3>5, <3>6, <3>7, <3>8, <3>9, TreeKinds
  <2>3. QED BY <2>1, <2>2
<1>3. H = 0 .. Depth
  <2>1. H \in SUBSET (0 .. Depth) /\ Depth \in Nat
    BY DepthAssumption
  <2> HIDE DEF H
  <2>2. QED BY <1>1, <1>2, <2>1, InductTo
<1>4. Depth \in H
  <2> HIDE DEF H
  <2>1. QED BY <1>3, DepthAssumption
<1>5. QED BY <1>4 DEF GivenPlan, Tree, GivenTo

--------------------------------------------------------------------------------
(* Values: what groups, pairs and reads alike.                             *)

(* Two groupings that keep the same labels reduce alike.                   *)
LEMMA ReducedAlike ==
  ASSUME NEW v, NEW func, NEW c1, NEW n1, NEW p1, NEW c2, NEW n2, NEW p2,
         \A labels : Kept(labels, c1, n1) = Kept(labels, c2, n2),
         func \in TakesParam => p1[1] = p2[1]
  PROVE  Reduced(v, func, c1, n1, p1) = Reduced(v, func, c2, n2, p2)
<1>1. (func = "topk" /\ p1[1] = 0) = (func = "topk" /\ p2[1] = 0)
  BY DEF TakesParam
<1>2. Param(func, p1) = Param(func, p2)
  BY DEF Param
<1> DEFINE G1(s) == IF func = "topk" THEN s.labels ELSE Kept(s.labels, c1, n1)
           G2(s) == IF func = "topk" THEN s.labels ELSE Kept(s.labels, c2, n2)
           F1(g) == UNION {s.from : s \in {s \in v.series : G1(s) = g}}
           F2(g) == UNION {s.from : s \in {s \in v.series : G2(s) = g}}
           S1 == {[labels |-> g, from |-> F1(g)] : g \in {G1(s) : s \in v.series}}
           S2 == {[labels |-> g, from |-> F2(g)] : g \in {G2(s) : s \in v.series}}
<1>3. \A s : G1(s) = G2(s)
  OBVIOUS
<1>4. {G1(s) : s \in v.series} = {G2(s) : s \in v.series}
  <2> HIDE DEF G1, G2
  <2>1. QED BY <1>3
<1>5. ASSUME NEW g PROVE F1(g) = F2(g)
  <2> HIDE DEF G1, G2
  <2>1. {s \in v.series : G1(s) = g} = {s \in v.series : G2(s) = g}
    BY <1>3
  <2>2. QED BY <2>1
<1>6. S1 = S2
  <2> HIDE DEF F1, F2, G1, G2
  <2>1. QED BY <1>4, <1>5
<1>7. Reduced(v, func, c1, n1, p1)
      = IF func = "topk" /\ p1[1] = 0 THEN Value({}) ELSE Mapped(func, Param(func, p1), Value(S1))
  BY Zenon DEF Reduced
<1>8. Reduced(v, func, c2, n2, p2)
      = IF func = "topk" /\ p2[1] = 0 THEN Value({}) ELSE Mapped(func, Param(func, p2), Value(S2))
  BY Zenon DEF Reduced
<1> HIDE DEF S1, S2
<1>9. QED BY <1>1, <1>2, <1>6, <1>7, <1>8

(* Two modifiers that pair the same series, and copy the same labels, pair *)
(* alike.                                                                  *)
LEMMA PairedAlike ==
  ASSUME NEW op, NEW m1, NEW m2, NEW left, NEW right,
         \A labels : Signature(labels, m1) = Signature(labels, m2),
         m1.group = m2.group, m1.group \in {"left", "right"} => m1.include = m2.include
  PROVE  Paired(op, m1, left, right) = Paired(op, m2, left, right)
<1> DEFINE l == Mapped(op, 1, left)
           r == Mapped(op, 2, right)
           P1 == {p \in l.series \X r.series : Signature(p[1].labels, m1) = Signature(p[2].labels, m1)}
           P2 == {p \in l.series \X r.series : Signature(p[1].labels, m2) = Signature(p[2].labels, m2)}
           R1(p) == IF op = "and" THEN p[1].labels
                    ELSE CASE m1.group = "left"  -> Copied(p[1].labels, p[2].labels, m1.include)
                           [] m1.group = "right" -> Copied(p[2].labels, p[1].labels, m1.include)
                           [] OTHER -> Signature(p[1].labels, m1)
           R2(p) == IF op = "and" THEN p[1].labels
                    ELSE CASE m2.group = "left"  -> Copied(p[1].labels, p[2].labels, m2.include)
                           [] m2.group = "right" -> Copied(p[2].labels, p[1].labels, m2.include)
                           [] OTHER -> Signature(p[1].labels, m2)
           S1 == {[labels |-> R1(p), from |-> p[1].from \cup p[2].from] : p \in P1}
           S2 == {[labels |-> R2(p), from |-> p[1].from \cup p[2].from] : p \in P2}
<1>1. P1 = P2
  <2> HIDE DEF l, r
  <2>1. QED OBVIOUS
<1>2. ASSUME NEW p PROVE R1(p) = R2(p)
  OBVIOUS
<1>3. S1 = S2
  <2> HIDE DEF P1, P2, R1, R2
  <2>1. QED BY <1>1, <1>2
<1>4. Paired(op, m1, left, right)
      = IF l.scalar THEN r ELSE IF r.scalar THEN l
        ELSE IF op = "unless" THEN Value(l.series \ {p[1] : p \in P1}) ELSE Value(S1)
  BY Zenon DEF Paired
<1>5. Paired(op, m2, left, right)
      = IF l.scalar THEN r ELSE IF r.scalar THEN l
        ELSE IF op = "unless" THEN Value(l.series \ {p[1] : p \in P2}) ELSE Value(S2)
  BY Zenon DEF Paired
<1> HIDE DEF l, r, P1, P2, S1, S2
<1>6. QED BY <1>1, <1>3, <1>4, <1>5

(* Nothing read, nothing computed: the values without series.              *)
Silent(v) == v = [ok |-> v.ok, scalar |-> v.scalar, series |-> {}]

(* An operator leaves a value without series alone.                        *)
LEMMA SilentMapped ==
  ASSUME NEW op, NEW number, NEW v, Silent(v)
  PROVE  Mapped(op, number, v) = v
<1>1. v.series = {}
  BY DEF Silent
<1>2. v = [v EXCEPT !.series = {}]
  BY DEF Silent
<1>3. {[s EXCEPT !.from = Applied(op, number, @)] : s \in v.series} = {}
  BY <1>1
<1>4. QED BY <1>2, <1>3 DEF Mapped

(* It has no groups.                                                       *)
LEMMA SilentReduced ==
  ASSUME NEW v, Silent(v), NEW func, NEW clause, NEW names, NEW params
  PROVE  Reduced(v, func, clause, names, params) = Value({})
<1> DEFINE G(s) == IF func = "topk" THEN s.labels ELSE Kept(s.labels, clause, names)
           F(g) == UNION {s.from : s \in {s \in v.series : G(s) = g}}
           S == {[labels |-> g, from |-> F(g)] : g \in {G(s) : s \in v.series}}
<1>1. S = {}
  BY DEF Silent
<1>2. Reduced(v, func, clause, names, params)
      = IF func = "topk" /\ params[1] = 0 THEN Value({}) ELSE Mapped(func, Param(func, params), Value(S))
  BY Zenon DEF Reduced
<1>3. Silent(Value({}))
  BY DEF Silent, Value
<1> HIDE DEF S
<1>4. QED BY <1>1, <1>2, <1>3, SilentMapped

(* And nothing pairs.                                                      *)
LEMMA SilentPaired ==
  ASSUME NEW left, NEW right, Silent(left), Silent(right), NEW op, NEW mod
  PROVE  Paired(op, mod, left, right)
         = IF left.scalar THEN right ELSE IF right.scalar THEN left ELSE Value({})
<1> DEFINE l == Mapped(op, 1, left)
           r == Mapped(op, 2, right)
           P == {p \in l.series \X r.series : Signature(p[1].labels, mod) = Signature(p[2].labels, mod)}
           R(p) == IF op = "and" THEN p[1].labels
                   ELSE CASE mod.group = "left"  -> Copied(p[1].labels, p[2].labels, mod.include)
                          [] mod.group = "right" -> Copied(p[2].labels, p[1].labels, mod.include)
                          [] OTHER -> Signature(p[1].labels, mod)
           S == {[labels |-> R(p), from |-> p[1].from \cup p[2].from] : p \in P}
<1>1. Paired(op, mod, left, right)
      = IF l.scalar THEN r ELSE IF r.scalar THEN l
        ELSE IF op = "unless" THEN Value(l.series \ {p[1] : p \in P}) ELSE Value(S)
  BY Zenon DEF Paired
<1>2. l = left /\ r = right
  BY SilentMapped
<1> HIDE DEF l, r
<1>3. l.series = {} /\ r.series = {}
  BY <1>2 DEF Silent
<1>4. P = {}
  BY <1>3
<1> HIDE DEF P
<1>5. S = {}
  BY <1>4
<1> HIDE DEF S
<1>6. l.series \ {p[1] : p \in P} = {}
  BY <1>3
<1>7. QED BY <1>1, <1>2, <1>5, <1>6

(* A plan that selects nothing computes nothing.                           *)
LEMMA SilentPlan ==
  ASSUME NEW D, NEW plan \in Plan, PlanSignals(plan) = {}
  PROVE  Silent(PlanMeaning(plan, D))
<1> DEFINE S == {n \in Plan : PlanSignals(n) = {} => Silent(PlanMeaning(n, D))}
<1>0. Silent(Scalar) /\ Silent(Error) /\ Silent(Value({}))
  BY DEF Silent, Scalar, Error, Value
<1>1. ASSUME NEW n \in Plan,
             n.kind \in {"timeAgg", "aggregate"} => n.input \in S,
             n.kind = "function" => \A i \in DOMAIN n.args : n.args[i] \in S,
             n.kind = "binary" => n.lhs \in S /\ n.rhs \in S
      PROVE  n \in S
  <2> SUFFICES ASSUME PlanSignals(n) = {} PROVE Silent(PlanMeaning(n, D))
    OBVIOUS
  <2>1. CASE n.kind = "select"
    BY <2>1, PlanSignalsUnfolds
  <2>2. CASE n.kind = "timeAgg"
    <3>1. Silent(PlanMeaning(n.input, D))
      BY <1>1, <2>2, PlanSignalsUnfolds
    <3>2. PlanMeaning(n, D) = Mapped(n.op, n.window, PlanMeaning(n.input, D))
      BY <2>2, PlanMeaningUnfolds
    <3>3. QED BY <3>1, <3>2, SilentMapped
  <2>3. CASE n.kind = "aggregate"
    <3>1. Silent(PlanMeaning(n.input, D))
      BY <1>1, <2>3, PlanSignalsUnfolds
    <3>2. PlanMeaning(n, D)
          = Reduced(PlanMeaning(n.input, D), n.op, Grouping(n), GroupLabels(n), <<n.param>>)
      BY <2>3, PlanMeaningUnfolds
    <3>3. QED BY <1>0, <3>1, <3>2, SilentReduced
  <2>4. CASE n.kind = "function" /\ n.args \in Seq(Plan)
    <3>1. PlanSignals(n) = UNION {PlanSignals(n.args[i]) : i \in DOMAIN n.args}
      BY <2>4, PlanSignalsUnfolds
    <3>2. Len(n.args) = 1 => 1 \in DOMAIN n.args
      BY <2>4
    <3>3. Len(n.args) = 1 => PlanSignals(n.args[1]) = {}
      BY <3>1, <3>2
    <3>4. Len(n.args) = 1 => Silent(PlanMeaning(n.args[1], D))
      BY <1>1, <2>4, <3>2, <3>3
    <3>5. PlanMeaning(n, D)
          = IF Len(n.args) = 1 THEN Mapped(n.name, 0, PlanMeaning(n.args[1], D)) ELSE Error
      BY <2>4, PlanMeaningUnfolds
    <3>6. QED BY <1>0, <3>4, <3>5, SilentMapped
  <2>5. CASE n.kind = "binary"
    <3>1. PlanSignals(n) = PlanSignals(n.lhs) \cup PlanSignals(n.rhs)
      BY <2>5, PlanSignalsUnfolds
    <3>2. Silent(PlanMeaning(n.lhs, D)) /\ Silent(PlanMeaning(n.rhs, D))
      BY <1>1, <2>5, <3>1
    <3>3. PlanMeaning(n, D)
          = Paired(n.op, MatchingClause(n.matching), PlanMeaning(n.lhs, D), PlanMeaning(n.rhs, D))
      BY <2>5, PlanMeaningUnfolds
    <3> DEFINE l == PlanMeaning(n.lhs, D)
               r == PlanMeaning(n.rhs, D)
    <3> HIDE DEF l, r
    <3>4. Paired(n.op, MatchingClause(n.matching), l, r)
          = IF l.scalar THEN r ELSE IF r.scalar THEN l ELSE Value({})
      BY <3>2, SilentPaired DEF l, r
    <3>5. QED BY <1>0, <3>2, <3>3, <3>4 DEF l, r
  <2>6. CASE n.kind = "literal"
    BY <1>0, <2>6, PlanMeaningUnfolds
  <2>7. QED BY <2>1, <2>2, <2>3, <2>4, <2>5, <2>6, PlanParts DEF Plan
<1>2. Plan \subseteq S
  <2> HIDE DEF S
  <2>1. HasPlans(Plan, S)
    BY <1>1 DEF HasPlans
  <2>2. QED BY <2>1, PlanInduct DEF Plan
<1>3. QED BY <1>2

--------------------------------------------------------------------------------
(* What a plan keeps on its way.                                           *)

(* The literal is a plan, of a request too.                                *)
LEMMA LiteralIsPlan == Literal \in GivenPlan /\ Literal \in Plan /\ Literal.kind = "literal"
<1>1. Depth - 1 \in 0 .. Depth - 1 /\ (Depth - 1) + 1 = Depth
  BY DepthAssumption
<1>2. GivenTo = PlansTo(SelectsOf(Filters)) /\ GivenPlan = GivenTo[(Depth - 1) + 1]
  BY <1>1 DEF GivenTo, GivenPlan
<1>3. Literal \in GivenPlan
  BY <1>1, <1>2, PlanOverPlans
<1>4. QED BY <1>3, GivenIsPlan DEF Literal

(* A tree by its kind, and induction over its parts.                       *)
LEMMA TreeParts ==
  ASSUME NEW t \in Tree
  PROVE  \/ /\ t = Selector(t.matchers, t.lines) /\ t.kind = "selector"
            /\ t.matchers \in Seq(Leaves) /\ t.lines \in Seq(Line)
         \/ /\ t = Documents(t.pred) /\ t.kind = "documents"
            /\ t.pred \in {Nil} \cup Predicate
         \/ t \in {Number, Other, Refused} /\ t.kind \in {"number", "other", "refused"}
         \/ /\ t = RangeCall(t.func, t.window, t.input) /\ t.kind = "range"
            /\ t.func \in String /\ t.window \in Int /\ t.input \in Tree
         \/ /\ t = Agg(t.func, t.clause, t.labels, t.params, t.input) /\ t.kind = "agg"
            /\ t.func \in String /\ t.clause \in {"none", "by", "without"}
            /\ t.labels \in SUBSET String /\ t.params \in Seq(Int) /\ t.input \in Tree
         \/ /\ t = Call(t.func, t.args) /\ t.kind = "call"
            /\ t.func \in String /\ t.args \in Seq(Tree)
         \/ /\ t = Bin(t.op, t.mod, t.lhs, t.rhs) /\ t.kind = "bin"
            /\ t.op \in String /\ t.mod \in VectorModifier
            /\ t.lhs \in Tree /\ t.rhs \in Tree
         \/ t = Neg(t.input) /\ t.kind = "neg" /\ t.input \in Tree
<1> DEFINE h == Depth - 1
<1>1. h \in 0 .. Depth - 1 /\ h + 1 = Depth
  BY DepthAssumption
<1>2. TreesTo[h] \subseteq Tree /\ TreesTo[h + 1] = Tree
  BY <1>1, TreeMonotone DEF Tree
<1> HIDE DEF h
<1>3. t \in TreesTo[h + 1]
  BY <1>2
<1>4. \A s \in Seq(TreesTo[h]) : s \in Seq(Tree)
  BY <1>2
<1>5. \/ /\ t = Selector(t.matchers, t.lines) /\ t.kind = "selector"
         /\ t.matchers \in Seq(Leaves) /\ t.lines \in Seq(Line)
      \/ /\ t = Documents(t.pred) /\ t.kind = "documents"
         /\ t.pred \in {Nil} \cup Predicate
      \/ t \in {Number, Other, Refused} /\ t.kind \in {"number", "other", "refused"}
      \/ /\ t = RangeCall(t.func, t.window, t.input) /\ t.kind = "range"
         /\ t.func \in String /\ t.window \in Int /\ t.input \in TreesTo[h]
      \/ /\ t = Agg(t.func, t.clause, t.labels, t.params, t.input) /\ t.kind = "agg"
         /\ t.func \in String /\ t.clause \in {"none", "by", "without"}
         /\ t.labels \in SUBSET String /\ t.params \in Seq(Int) /\ t.input \in TreesTo[h]
      \/ /\ t = Call(t.func, t.args) /\ t.kind = "call"
         /\ t.func \in String /\ t.args \in Seq(TreesTo[h])
      \/ /\ t = Bin(t.op, t.mod, t.lhs, t.rhs) /\ t.kind = "bin"
         /\ t.op \in String /\ t.mod \in VectorModifier
         /\ t.lhs \in TreesTo[h] /\ t.rhs \in TreesTo[h]
      \/ t = Neg(t.input) /\ t.kind = "neg" /\ t.input \in TreesTo[h]
  BY <1>1, <1>3, TreeKinds
<1>6. QED BY <1>2, <1>4, <1>5

(* A set that holds a tree once it holds its inputs.                       *)
HasTrees(S) ==
  \A t \in Tree :
    (/\ t.kind \in {"range", "agg", "neg"} => t.input \in S
     /\ t.kind = "call" => \A i \in DOMAIN t.args : t.args[i] \in S
     /\ t.kind = "bin" => t.lhs \in S /\ t.rhs \in S) => t \in S

(* Induction over the inputs of trees: a set that holds a tree once it     *)
(* holds its inputs holds them all.                                        *)
LEMMA TreeInduct ==
  ASSUME NEW S, HasTrees(S)
  PROVE  Tree \subseteq S
<1> DEFINE H == {h \in 0 .. Depth : TreesTo[h] \subseteq S}
<1>1. 0 \in H
  BY TreeLevels, DepthAssumption
<1>2. ASSUME NEW h \in H, h < Depth PROVE h + 1 \in H
  <2>1. h \in 0 .. Depth - 1 /\ h + 1 \in 0 .. Depth /\ Depth \in 0 .. Depth
    BY <1>2, DepthAssumption
  <2>2. ASSUME NEW t \in TreesTo[h + 1] PROVE t \in S
    <3>1. t \in Tree
      BY <2>1, TreeWithin DEF Tree
    <3>2. /\ t.kind \in {"range", "agg", "neg"} => t.input \in TreesTo[h]
          /\ t.kind = "call" => t.args \in Seq(TreesTo[h])
          /\ t.kind = "bin" => t.lhs \in TreesTo[h] /\ t.rhs \in TreesTo[h]
      BY <2>1, TreeKinds
    <3>3. TreesTo[h] \subseteq S
      OBVIOUS
    <3>4. t.kind = "call" => \A i \in DOMAIN t.args : t.args[i] \in S
      BY <3>2, <3>3
    <3>5. QED BY <3>1, <3>2, <3>3, <3>4 DEF HasTrees
  <2>3. QED BY <2>1, <2>2
<1>3. H = 0 .. Depth
  <2>1. H \in SUBSET (0 .. Depth) /\ Depth \in Nat
    BY DepthAssumption
  <2> HIDE DEF H
  <2>2. QED BY <1>1, <1>2, <2>1, InductTo
<1>4. Depth \in H
  <2> HIDE DEF H
  <2>1. QED BY <1>3, DepthAssumption
<1>5. QED BY <1>4 DEF Tree

(* No window of a node, or below, has a half millisecond; and when plain,  *)
(* no binary node a vector matching.                                       *)
KeepsNode(plain, n) ==
  /\ ~ SubMillisecond(n)
  /\ plain /\ n.kind = "binary" => MatchingClause(n.matching) = NoModifier
Keeps(plain, node) == \A n \in Nodes(node) : KeepsNode(plain, n)

(* A tree or a plan keeps them when its root does and what is below it.    *)
LEMMA KeepsUnfolds ==
  ASSUME NEW plain, NEW n \in Plan \cup Tree
  PROVE  Keeps(plain, n) =
           /\ KeepsNode(plain, n)
           /\ n.kind \in {"timeAgg", "aggregate", "range", "agg", "neg"} => Keeps(plain, n.input)
           /\ n.kind \in {"function", "call"} => \A i \in DOMAIN n.args : Keeps(plain, n.args[i])
           /\ n.kind \in {"binary", "bin"} => Keeps(plain, n.lhs) /\ Keeps(plain, n.rhs)
<1>1. CASE n.kind \in {"timeAgg", "aggregate", "range", "agg", "neg"}
  <2>1. Nodes(n) = {n} \cup Nodes(n.input)
    BY <1>1, NodesUnfold
  <2>2. QED BY <1>1, <2>1 DEF Keeps
<1>2. CASE n.kind \in {"function", "call"}
  <2>1. Nodes(n) = {n} \cup UNION {Nodes(n.args[i]) : i \in DOMAIN n.args}
    BY <1>2, NodesUnfold
  <2>2. Keeps(plain, n) =
          (KeepsNode(plain, n) /\ \A i \in DOMAIN n.args : \A m \in Nodes(n.args[i]) : KeepsNode(plain, m))
    BY <2>1 DEF Keeps
  <2>3. QED BY <1>2, <2>2 DEF Keeps
<1>3. CASE n.kind \in {"binary", "bin"}
  <2>1. Nodes(n) = {n} \cup (Nodes(n.lhs) \cup Nodes(n.rhs))
    BY <1>3, NodesUnfold
  <2>2. QED BY <1>3, <2>1 DEF Keeps
<1>4. CASE n.kind \notin {"timeAgg", "aggregate", "range", "agg", "neg", "function", "call", "binary", "bin"}
  <2>1. Nodes(n) = {n}
    BY <1>4, NodesUnfold
  <2>2. QED BY <1>4, <2>1 DEF Keeps
<1>5. QED BY <1>1, <1>2, <1>3, <1>4

(* The rewrite keeps windows, matchings and signals.                       *)
LEMMA ComposedKeeps ==
  ASSUME NEW e \in PredicatesTo[Depth], NEW given \in GivenPlan
  PROVE  /\ PlanSignals(Composed(given, e)) = PlanSignals(given)
         /\ \A plain : Keeps(plain, given) => Keeps(plain, Composed(given, e))
<1> DEFINE S == {n \in GivenPlan :
                   /\ PlanSignals(Composed(n, e)) = PlanSignals(n)
                   /\ \A plain : Keeps(plain, n) => Keeps(plain, Composed(n, e))}
<1>1. ASSUME NEW n \in GivenPlan,
             n.kind \in {"timeAgg", "aggregate"} => n.input \in S,
             n.kind = "function" => \A i \in DOMAIN n.args : n.args[i] \in S,
             n.kind = "binary" => n.lhs \in S /\ n.rhs \in S
      PROVE  n \in S
  <2>1. n \in Plan /\ Composed(n, e) \in Plan
    BY GivenIsPlan, ComposedIsPlan
  <2> SUFFICES ASSUME NEW plain
               PROVE  /\ PlanSignals(Composed(n, e)) = PlanSignals(n)
                      /\ Keeps(plain, n) => Keeps(plain, Composed(n, e))
    OBVIOUS
  <2>2. CASE n = Select(n.signal, n.filter, n.lines) /\ n.kind = "select"
    <3> DEFINE m == Select(n.signal, Conjoin(n.filter, e), n.lines)
    <3>1. Composed(n, e) = m
      BY <2>1, <2>2, ComposedNode
    <3>2. m \in Plan /\ m.kind = "select" /\ m.signal = n.signal
      BY <2>1, <3>1 DEF Select
    <3> HIDE DEF m
    <3>3. PlanSignals(m) = PlanSignals(n)
      BY <2>1, <2>2, <3>2, PlanSignalsUnfolds
    <3>4. KeepsNode(plain, m)
      BY <3>2 DEF KeepsNode, SubMillisecond
    <3>5. QED BY <3>1, <3>2, <3>3, <3>4, KeepsUnfolds
  <2>3. CASE n.kind = "literal"
    BY <2>1, <2>3, ComposedNode
  <2>4. CASE n = TimeAgg(n.op, n.window, n.input) /\ n.kind = "timeAgg"
    <3> DEFINE m == TimeAgg(n.op, n.window, Composed(n.input, e))
    <3>1. Composed(n, e) = m
      BY <2>1, <2>4, ComposedNode
    <3>2. m \in Plan /\ m.kind = "timeAgg" /\ m.window = n.window /\ m.input = Composed(n.input, e)
      BY <2>1, <3>1 DEF TimeAgg
    <3> HIDE DEF m
    <3>3. PlanSignals(m) = PlanSignals(m.input) /\ PlanSignals(n) = PlanSignals(n.input)
      BY <2>1, <2>4, <3>2, PlanSignalsUnfolds
    <3>4. KeepsNode(plain, n) => KeepsNode(plain, m)
      BY <2>4, <3>2 DEF KeepsNode, SubMillisecond
    <3>5. /\ Keeps(plain, n) = (KeepsNode(plain, n) /\ Keeps(plain, n.input))
          /\ Keeps(plain, m) = (KeepsNode(plain, m) /\ Keeps(plain, m.input))
      BY <2>1, <2>4, <3>2, KeepsUnfolds
    <3>6. QED BY <1>1, <2>4, <3>1, <3>2, <3>3, <3>4, <3>5
  <2>5. CASE n = Aggregate(n.op, n.by, n.without, n.param, n.input) /\ n.kind = "aggregate"
    <3> DEFINE m == Aggregate(n.op, n.by, n.without, n.param, Composed(n.input, e))
    <3>1. Composed(n, e) = m
      BY <2>1, <2>5, ComposedNode
    <3>2. m \in Plan /\ m.kind = "aggregate" /\ m.input = Composed(n.input, e)
      BY <2>1, <3>1 DEF Aggregate
    <3> HIDE DEF m
    <3>3. PlanSignals(m) = PlanSignals(m.input) /\ PlanSignals(n) = PlanSignals(n.input)
      BY <2>1, <2>5, <3>2, PlanSignalsUnfolds
    <3>4. KeepsNode(plain, m)
      BY <3>2 DEF KeepsNode, SubMillisecond
    <3>5. /\ Keeps(plain, n) = (KeepsNode(plain, n) /\ Keeps(plain, n.input))
          /\ Keeps(plain, m) = (KeepsNode(plain, m) /\ Keeps(plain, m.input))
      BY <2>1, <2>5, <3>2, KeepsUnfolds
    <3>6. QED BY <1>1, <2>5, <3>1, <3>2, <3>3, <3>4, <3>5
  <2>6. CASE n = Function(n.name, n.args) /\ n.kind = "function"
    <3> DEFINE args == [i \in DOMAIN n.args |-> Composed(n.args[i], e)]
               m == Function(n.name, args)
    <3>1. Composed(n, e) = m
      BY <2>1, <2>6, ComposedNode
    <3>2. m \in Plan /\ m.kind = "function" /\ m.args = args
      BY <2>1, <3>1 DEF Function
    <3>3. DOMAIN args = DOMAIN n.args /\ \A i \in DOMAIN n.args : args[i] = Composed(n.args[i], e)
      OBVIOUS
    <3> HIDE DEF m, args
    <3>4. /\ PlanSignals(m) = UNION {PlanSignals(args[i]) : i \in DOMAIN args}
          /\ PlanSignals(n) = UNION {PlanSignals(n.args[i]) : i \in DOMAIN n.args}
      BY <2>1, <2>6, <3>2, PlanSignalsUnfolds
    <3>5. \A i \in DOMAIN n.args : PlanSignals(args[i]) = PlanSignals(n.args[i])
      BY <1>1, <2>6, <3>3
    <3>6. PlanSignals(m) = PlanSignals(n)
      BY <3>3, <3>4, <3>5
    <3>7. KeepsNode(plain, m)
      BY <3>2 DEF KeepsNode, SubMillisecond
    <3>8. /\ Keeps(plain, n) => \A i \in DOMAIN n.args : Keeps(plain, n.args[i])
          /\ Keeps(plain, m) = (KeepsNode(plain, m) /\ \A i \in DOMAIN args : Keeps(plain, args[i]))
      BY <2>1, <2>6, <3>2, KeepsUnfolds
    <3>9. QED BY <1>1, <2>6, <3>1, <3>3, <3>6, <3>7, <3>8
  <2>7. CASE n = Binary(n.op, n.lhs, n.rhs, n.matching) /\ n.kind = "binary"
    <3> DEFINE m == Binary(n.op, Composed(n.lhs, e), Composed(n.rhs, e), n.matching)
    <3>1. Composed(n, e) = m
      BY <2>1, <2>7, ComposedNode
    <3>2. /\ m \in Plan /\ m.kind = "binary" /\ m.matching = n.matching
          /\ m.lhs = Composed(n.lhs, e) /\ m.rhs = Composed(n.rhs, e)
      BY <2>1, <3>1 DEF Binary
    <3> HIDE DEF m
    <3>3. /\ PlanSignals(m) = PlanSignals(m.lhs) \cup PlanSignals(m.rhs)
          /\ PlanSignals(n) = PlanSignals(n.lhs) \cup PlanSignals(n.rhs)
      BY <2>1, <2>7, <3>2, PlanSignalsUnfolds
    <3>4. KeepsNode(plain, n) => KeepsNode(plain, m)
      BY <2>7, <3>2 DEF KeepsNode, SubMillisecond
    <3>5. /\ Keeps(plain, n) = (KeepsNode(plain, n) /\ Keeps(plain, n.lhs) /\ Keeps(plain, n.rhs))
          /\ Keeps(plain, m) = (KeepsNode(plain, m) /\ Keeps(plain, m.lhs) /\ Keeps(plain, m.rhs))
      BY <2>1, <2>7, <3>2, KeepsUnfolds
    <3>6. QED BY <1>1, <2>7, <3>1, <3>2, <3>3, <3>4, <3>5
  <2>8. QED BY <2>2, <2>3, <2>4, <2>5, <2>6, <2>7, PlanParts DEF GivenPlan
<1>2. GivenPlan \subseteq S
  <2> HIDE DEF S
  <2>1. HasPlans(GivenPlan, S)
    BY <1>1 DEF HasPlans
  <2>2. QED BY <2>1, PlanInduct DEF GivenPlan
<1>3. QED BY <1>2

(* What renders selects the signal of its language alone.                  *)
LEMMA RenderedSignals ==
  ASSUME NEW lang, NEW plan \in Plan, Renders(lang, plan)
  PROVE  PlanSignals(plan) \subseteq {SignalOf[lang]}
<1> DEFINE S == {n \in Plan : Renders(lang, n) => PlanSignals(n) \subseteq {SignalOf[lang]}}
<1>1. ASSUME NEW n \in Plan,
             n.kind \in {"timeAgg", "aggregate"} => n.input \in S,
             n.kind = "function" => \A i \in DOMAIN n.args : n.args[i] \in S,
             n.kind = "binary" => n.lhs \in S /\ n.rhs \in S
      PROVE  n \in S
  <2> SUFFICES ASSUME Renders(lang, n) PROVE PlanSignals(n) \subseteq {SignalOf[lang]}
    OBVIOUS
  <2>1. CASE n.kind = "select"
    <3>1. n.signal = SignalOf[lang]
      BY <2>1, RendersUnfolds
    <3>2. PlanSignals(n) = {n.signal}
      BY <2>1, PlanSignalsUnfolds
    <3>3. QED BY <3>1, <3>2
  <2>2. CASE n.kind \in {"timeAgg", "aggregate"}
    <3>1. Renders(lang, n.input)
      BY <2>2, RendersUnfolds
    <3>2. PlanSignals(n) = PlanSignals(n.input)
      BY <2>2, PlanSignalsUnfolds
    <3>3. QED BY <1>1, <2>2, <3>1, <3>2
  <2>3. CASE n.kind = "function"
    <3>1. \A i \in DOMAIN n.args : Renders(lang, n.args[i])
      BY <2>3, RendersUnfolds
    <3>2. PlanSignals(n) = UNION {PlanSignals(n.args[i]) : i \in DOMAIN n.args}
      BY <2>3, PlanSignalsUnfolds
    <3>3. QED BY <1>1, <2>3, <3>1, <3>2
  <2>4. CASE n.kind = "binary"
    <3>1. Renders(lang, n.lhs) /\ Renders(lang, n.rhs)
      BY <2>4, RendersUnfolds
    <3>2. PlanSignals(n) = PlanSignals(n.lhs) \cup PlanSignals(n.rhs)
      BY <2>4, PlanSignalsUnfolds
    <3>3. QED BY <1>1, <2>4, <3>1, <3>2
  <2>5. CASE n.kind = "literal"
    BY <2>5, PlanSignalsUnfolds
  <2>6. QED BY <2>1, <2>2, <2>3, <2>4, <2>5, PlanParts DEF Plan
<1>2. Plan \subseteq S
  <2> HIDE DEF S
  <2>1. HasPlans(Plan, S)
    BY <1>1 DEF HasPlans
  <2>2. QED BY <2>1, PlanInduct DEF Plan
<1>3. QED BY <1>2

(* convert keeps the windows, and selects metrics alone.                   *)
LEMMA ConvertedKeeps ==
  ASSUME NEW tree \in Tree
  PROVE  /\ PlanSignals(Converted(tree)) \subseteq {"metrics"}
         /\ Keeps(FALSE, tree) => Keeps(FALSE, Converted(tree))
<1> DEFINE S == {t \in Tree : /\ PlanSignals(Converted(t)) \subseteq {"metrics"}
                              /\ Keeps(FALSE, t) => Keeps(FALSE, Converted(t))}
<1>1. ASSUME NEW t \in Tree,
             t.kind \in {"range", "agg", "neg"} => t.input \in S,
             t.kind = "call" => \A i \in DOMAIN t.args : t.args[i] \in S,
             t.kind = "bin" => t.lhs \in S /\ t.rhs \in S
      PROVE  t \in S
  <2> DEFINE n == Converted(t)
  <2>1. n \in Plan
    BY ConvertedIsGiven, GivenIsPlan
  <2>2. CASE t.kind = "selector"
    <3>1. n = Select("metrics", Filter(t.matchers), <<>>)
      BY <2>2, ConvertedUnfolds
    <3> HIDE DEF n
    <3>2. n.kind = "select" /\ n.signal = "metrics"
      BY <3>1 DEF Select
    <3>3. PlanSignals(n) \subseteq {"metrics"}
      BY <2>1, <3>2, PlanSignalsUnfolds
    <3>4. KeepsNode(FALSE, n)
      BY <3>2 DEF KeepsNode, SubMillisecond
    <3>5. Keeps(FALSE, n)
      BY <2>1, <3>2, <3>4, KeepsUnfolds
    <3>6. QED BY <3>3, <3>5 DEF n
  <2>3. CASE t.kind \in {"documents", "number", "other", "refused"}
    <3>1. n = Literal
      BY <2>3, ConvertedUnfolds
    <3> HIDE DEF n
    <3>2. n.kind = "literal"
      BY <3>1, LiteralIsPlan
    <3>3. PlanSignals(n) \subseteq {"metrics"}
      BY <2>1, <3>2, PlanSignalsUnfolds
    <3>4. KeepsNode(FALSE, n)
      BY <3>2 DEF KeepsNode, SubMillisecond
    <3>5. Keeps(FALSE, n)
      BY <2>1, <3>2, <3>4, KeepsUnfolds
    <3>6. QED BY <3>3, <3>5 DEF n
  <2>4. CASE t.kind = "range"
    <3>1. n = TimeAgg(t.func, t.window, Converted(t.input))
      BY <2>4, ConvertedUnfolds
    <3> HIDE DEF n
    <3>2. n.kind = "timeAgg" /\ n.window = t.window /\ n.input = Converted(t.input)
      BY <3>1 DEF TimeAgg
    <3>3. PlanSignals(n) = PlanSignals(n.input)
      BY <2>1, <3>2, PlanSignalsUnfolds
    <3>4. KeepsNode(FALSE, t) => KeepsNode(FALSE, n)
      BY <2>4, <3>2 DEF KeepsNode, SubMillisecond
    <3>5. Keeps(FALSE, t) = (KeepsNode(FALSE, t) /\ Keeps(FALSE, t.input))
      BY <2>4, KeepsUnfolds
    <3>6. Keeps(FALSE, n) = (KeepsNode(FALSE, n) /\ Keeps(FALSE, n.input))
      BY <2>1, <3>2, KeepsUnfolds
    <3>7. QED BY <1>1, <2>4, <3>2, <3>3, <3>4, <3>5, <3>6 DEF n
  <2>5. CASE t.kind = "agg"
    <3> DEFINE by == IF t.clause = "by" THEN t.labels ELSE {}
               without == IF t.clause = "without" THEN t.labels ELSE {}
               param == IF t.params = <<>> THEN 0 ELSE t.params[1]
    <3>1. n = Aggregate(t.func, by, without, param, Converted(t.input))
      BY <2>5, ConvertedUnfolds
    <3> HIDE DEF n, by, without, param
    <3>2. n.kind = "aggregate" /\ n.input = Converted(t.input)
      BY <3>1 DEF Aggregate
    <3>3. PlanSignals(n) = PlanSignals(n.input)
      BY <2>1, <3>2, PlanSignalsUnfolds
    <3>4. KeepsNode(FALSE, n)
      BY <3>2 DEF KeepsNode, SubMillisecond
    <3>5. Keeps(FALSE, t) = (KeepsNode(FALSE, t) /\ Keeps(FALSE, t.input))
      BY <2>5, KeepsUnfolds
    <3>6. Keeps(FALSE, n) = (KeepsNode(FALSE, n) /\ Keeps(FALSE, n.input))
      BY <2>1, <3>2, KeepsUnfolds
    <3>7. QED BY <1>1, <2>5, <3>2, <3>3, <3>4, <3>5, <3>6 DEF n
  <2>6. CASE t.kind = "call"
    <3> DEFINE args == [i \in DOMAIN t.args |-> Converted(t.args[i])]
    <3>1. n = Function(t.func, args)
      BY <2>6, ConvertedUnfolds
    <3>2. DOMAIN args = DOMAIN t.args /\ \A i \in DOMAIN t.args : args[i] = Converted(t.args[i])
      OBVIOUS
    <3> HIDE DEF n, args
    <3>3. n.kind = "function" /\ n.args = args
      BY <3>1 DEF Function
    <3>4. PlanSignals(n) = UNION {PlanSignals(args[i]) : i \in DOMAIN args}
      BY <2>1, <3>3, PlanSignalsUnfolds
    <3>5. KeepsNode(FALSE, n)
      BY <3>3 DEF KeepsNode, SubMillisecond
    <3>6. Keeps(FALSE, t) => \A i \in DOMAIN t.args : Keeps(FALSE, t.args[i])
      BY <2>6, KeepsUnfolds
    <3>7. Keeps(FALSE, n) = (KeepsNode(FALSE, n) /\ \A i \in DOMAIN args : Keeps(FALSE, args[i]))
      BY <2>1, <3>3, KeepsUnfolds
    <3>8. Keeps(FALSE, t) => Keeps(FALSE, n)
      BY <1>1, <2>6, <3>2, <3>5, <3>6, <3>7
    <3>9. PlanSignals(n) \subseteq {"metrics"}
      <4>1. ASSUME NEW i \in DOMAIN args PROVE PlanSignals(args[i]) \subseteq {"metrics"}
        BY <1>1, <2>6, <3>2
      <4>2. QED BY <3>4, <4>1
    <3>10. QED BY <3>8, <3>9 DEF n
  <2>7. CASE t.kind = "bin"
    <3>1. n = Binary(t.op, Converted(t.lhs), Converted(t.rhs), Matching(t.mod))
      BY <2>7, ConvertedUnfolds
    <3> HIDE DEF n
    <3>2. n.kind = "binary" /\ n.lhs = Converted(t.lhs) /\ n.rhs = Converted(t.rhs)
      BY <3>1 DEF Binary
    <3>3. PlanSignals(n) = PlanSignals(n.lhs) \cup PlanSignals(n.rhs)
      BY <2>1, <3>2, PlanSignalsUnfolds
    <3>4. KeepsNode(FALSE, n)
      BY <3>2 DEF KeepsNode, SubMillisecond
    <3>5. Keeps(FALSE, t) = (KeepsNode(FALSE, t) /\ Keeps(FALSE, t.lhs) /\ Keeps(FALSE, t.rhs))
      BY <2>7, KeepsUnfolds
    <3>6. Keeps(FALSE, n) = (KeepsNode(FALSE, n) /\ Keeps(FALSE, n.lhs) /\ Keeps(FALSE, n.rhs))
      BY <2>1, <3>2, KeepsUnfolds
    <3>7. QED BY <1>1, <2>7, <3>2, <3>3, <3>4, <3>5, <3>6 DEF n
  <2>8. CASE t.kind = "neg"
    <3>1. n = Binary("-", Literal, Converted(t.input), Nil)
      BY <2>8, ConvertedUnfolds
    <3> HIDE DEF n
    <3>2. n.kind = "binary" /\ n.lhs = Literal /\ n.rhs = Converted(t.input)
      BY <3>1 DEF Binary
    <3>3. PlanSignals(n) = PlanSignals(n.lhs) \cup PlanSignals(n.rhs) /\ PlanSignals(n.lhs) = {}
      BY <2>1, <3>2, PlanSignalsUnfolds, LiteralIsPlan
    <3>4. KeepsNode(FALSE, n)
      BY <3>2 DEF KeepsNode, SubMillisecond
    <3>5. Keeps(FALSE, t) = (KeepsNode(FALSE, t) /\ Keeps(FALSE, t.input))
      BY <2>8, KeepsUnfolds
    <3>6. Keeps(FALSE, n) = (KeepsNode(FALSE, n) /\ Keeps(FALSE, n.lhs) /\ Keeps(FALSE, n.rhs))
      BY <2>1, <3>2, KeepsUnfolds
    <3>7. KeepsNode(FALSE, Literal)
      BY LiteralIsPlan DEF KeepsNode, SubMillisecond
    <3>8. Keeps(FALSE, Literal)
      BY <3>7, LiteralIsPlan, KeepsUnfolds
    <3>9. QED BY <1>1, <2>8, <3>2, <3>3, <3>4, <3>5, <3>6, <3>8 DEF n
  <2> HIDE DEF n
  <2>9. QED BY <2>2, <2>3, <2>4, <2>5, <2>6, <2>7, <2>8, TreeParts
<1>2. Tree \subseteq S
  <2> HIDE DEF S
  <2>1. HasTrees(S)
    BY <1>1 DEF HasTrees
  <2>2. QED BY <2>1, TreeInduct
<1>3. QED BY <1>2

--------------------------------------------------------------------------------
(* The renderers.                                                          *)

(* What is over trees of a level is a tree of the next.                    *)
LEMMA TreeOverTrees ==
  ASSUME NEW h \in 0 .. Depth - 1
  PROVE  /\ \A matchers \in Seq(Leaves), lines \in Seq(Line) :
              Selector(matchers, lines) \in TreesTo[h + 1]
         /\ \A pred \in {Nil} \cup Predicate : Documents(pred) \in TreesTo[h + 1]
         /\ Number \in TreesTo[h + 1]
         /\ \A func \in String, window \in Int, input \in TreesTo[h] :
              RangeCall(func, window, input) \in TreesTo[h + 1]
         /\ \A func \in String, clause \in {"none", "by", "without"}, labels \in SUBSET String,
               params \in Seq(Int), input \in TreesTo[h] :
                 Agg(func, clause, labels, params, input) \in TreesTo[h + 1]
         /\ \A func \in String, args \in Seq(TreesTo[h]) : Call(func, args) \in TreesTo[h + 1]
         /\ \A op \in String, mod \in VectorModifier, lhs \in TreesTo[h], rhs \in TreesTo[h] :
              Bin(op, mod, lhs, rhs) \in TreesTo[h + 1]
<1>1. TreesTo[h + 1] = TreesOver(TreesTo[h])
  BY TreeLevels
<1>2. ASSUME NEW matchers \in Seq(Leaves), NEW lines \in Seq(Line)
      PROVE  Selector(matchers, lines) \in TreesTo[h + 1]
  BY <1>1 DEF TreesOver, Selector
<1>3. ASSUME NEW pred \in {Nil} \cup Predicate PROVE Documents(pred) \in TreesTo[h + 1]
  BY <1>1 DEF TreesOver, Documents
<1>4. Number \in TreesTo[h + 1]
  BY <1>1 DEF TreesOver
<1>5. ASSUME NEW func \in String, NEW window \in Int, NEW input \in TreesTo[h]
      PROVE  RangeCall(func, window, input) \in TreesTo[h + 1]
  BY <1>1 DEF TreesOver, RangeCall
<1>6. ASSUME NEW func \in String, NEW clause \in {"none", "by", "without"},
             NEW labels \in SUBSET String, NEW params \in Seq(Int), NEW input \in TreesTo[h]
      PROVE  Agg(func, clause, labels, params, input) \in TreesTo[h + 1]
  BY <1>1 DEF TreesOver, Agg
<1>7. ASSUME NEW func \in String, NEW args \in Seq(TreesTo[h])
      PROVE  Call(func, args) \in TreesTo[h + 1]
  BY <1>1 DEF TreesOver, Call
<1>8. ASSUME NEW op \in String, NEW mod \in VectorModifier, NEW lhs \in TreesTo[h],
             NEW rhs \in TreesTo[h]
      PROVE  Bin(op, mod, lhs, rhs) \in TreesTo[h + 1]
  BY <1>1 DEF TreesOver, Bin
<1>9. QED BY <1>2, <1>3, <1>4, <1>5, <1>6, <1>7, <1>8

(* What a plan renders to is a tree.                                       *)
LEMMA TextIsTree ==
  ASSUME NEW lang, NEW plan \in Plan, Renders(lang, plan)
  PROVE  Text(lang, plan) \in Tree
<1> DEFINE H == {h \in 0 .. Depth :
                   \A n \in PlanTo[h] : Renders(lang, n) => Text(lang, n) \in TreesTo[h]}
<1>1. 0 \in H
  BY PlanToLevels, DepthAssumption
<1>2. ASSUME NEW h \in H, h < Depth PROVE h + 1 \in H
  <2>1. h \in 0 .. Depth - 1 /\ h + 1 \in 0 .. Depth /\ Depth \in 0 .. Depth
    BY <1>2, DepthAssumption
  <2>2. ASSUME NEW n \in PlanTo[h + 1], Renders(lang, n) PROVE Text(lang, n) \in TreesTo[h + 1]
    <3>1. n \in Plan
      BY <2>1, PlanToLevels
    <3>2. \A c \in PlanTo[h] : Renders(lang, c) => Text(lang, c) \in TreesTo[h]
      OBVIOUS
    <3>3. CASE /\ n.kind = "select" /\ n.filter \in {Nil} \cup Predicate /\ n.lines \in Seq(Line)
      <4>1. Text(lang, n) = Selector(Conjuncts(n.filter), n.lines)
        BY <3>1, <3>3, TextUnfolds
      <4>2. n.filter # Nil
        BY <2>2, <3>1, <3>3, RendersUnfolds DEF Flat
      <4>3. Conjuncts(n.filter) \in Seq(Leaves)
        BY <3>3, <4>2, ConjunctsHold
      <4>4. QED BY <2>1, <3>3, <4>1, <4>3, TreeOverTrees
    <3>4. CASE n.kind = "literal"
      <4>1. Text(lang, n) = Number
        BY <3>1, <3>4, TextUnfolds
      <4>2. QED BY <2>1, <4>1, TreeOverTrees
    <3>5. CASE /\ n.kind = "timeAgg" /\ n.op \in String /\ n.window \in Int
               /\ n.input \in PlanTo[h]
      <4>1. Text(lang, n) = RangeCall(n.op, Duration(n.window), Text(lang, n.input))
        BY <3>1, <3>5, TextUnfolds
      <4>2. Duration(n.window) \in Int
        BY <3>5 DEF Duration
      <4>3. Text(lang, n.input) \in TreesTo[h]
        BY <2>2, <3>1, <3>2, <3>5, RendersUnfolds
      <4>4. QED BY <2>1, <3>5, <4>1, <4>2, <4>3, TreeOverTrees
    <3>6. CASE /\ n.kind = "aggregate" /\ n.op \in String /\ n.by \in SUBSET String
               /\ n.without \in SUBSET String /\ n.param \in Int /\ n.input \in PlanTo[h]
      <4> DEFINE params == IF n.op \in TakesParam THEN <<n.param>> ELSE <<>>
      <4>1. Text(lang, n) = Agg(n.op, Grouping(n), GroupLabels(n), params, Text(lang, n.input))
        BY <3>1, <3>6, TextUnfolds
      <4>2. params \in Seq(Int)
        BY <3>6
      <4> HIDE DEF params
      <4>3. Grouping(n) \in {"none", "by", "without"} /\ GroupLabels(n) \in SUBSET String
        BY <3>6 DEF Grouping, GroupLabels
      <4>4. Text(lang, n.input) \in TreesTo[h]
        BY <2>2, <3>1, <3>2, <3>6, RendersUnfolds
      <4>5. \A func \in String, clause \in {"none", "by", "without"}, labels \in SUBSET String,
               ps \in Seq(Int), input \in TreesTo[h] :
                 Agg(func, clause, labels, ps, input) \in TreesTo[h + 1]
        BY <2>1, TreeOverTrees
      <4>6. QED BY <3>6, <4>1, <4>2, <4>3, <4>4, <4>5
    <3>7. CASE n.kind = "function" /\ n.name \in String /\ n.args \in Seq(PlanTo[h])
      <4> DEFINE args == [i \in DOMAIN n.args |-> Text(lang, n.args[i])]
      <4>1. Text(lang, n) = Call(n.name, args)
        BY <3>1, <3>7, TextUnfolds
      <4>2. \A i \in DOMAIN n.args : Renders(lang, n.args[i])
        BY <2>2, <3>1, <3>7, RendersUnfolds
      <4>3. args \in Seq(TreesTo[h])
        <5>1. Len(n.args) \in Nat /\ DOMAIN n.args = 1 .. Len(n.args)
          BY <3>7
        <5>2. \A i \in DOMAIN n.args : Text(lang, n.args[i]) \in TreesTo[h]
          BY <3>2, <3>7, <4>2
        <5>3. QED BY <5>1, <5>2
      <4> HIDE DEF args
      <4>4. QED BY <2>1, <3>7, <4>1, <4>3, TreeOverTrees
    <3>8. CASE /\ n.kind = "binary" /\ n.op \in String /\ n.matching \in {Nil} \cup VectorMatching
               /\ n.lhs \in PlanTo[h] /\ n.rhs \in PlanTo[h]
      <4> DEFINE mod == IF lang = "promql" THEN MatchingClause(n.matching) ELSE NoModifier
      <4>1. Text(lang, n) = Bin(n.op, mod, Text(lang, n.lhs), Text(lang, n.rhs))
        BY <3>1, <3>8, TextUnfolds
      <4>2. NoModifier \in VectorModifier
        BY DEF NoModifier, Modifier, VectorModifier
      <4>3. MatchingClause(n.matching) \in VectorModifier
        <5>1. CASE n.matching = Nil
          BY <4>2, <5>1 DEF MatchingClause
        <5>2. CASE n.matching \in VectorMatching /\ n.matching # Nil
          <6> DEFINE m == n.matching
          <6>1. /\ m.on \in SUBSET String /\ m.ignoring \in SUBSET String
                /\ m.group \in {"none", "left", "right"} /\ m.include \in SUBSET String
            BY <5>2 DEF VectorMatching
          <6>2. QED BY <5>2, <6>1 DEF MatchingClause, Modifier, VectorModifier
        <5>3. QED BY <3>8, <5>1, <5>2
      <4>4. mod \in VectorModifier
        BY <4>2, <4>3
      <4> HIDE DEF mod
      <4>5. Text(lang, n.lhs) \in TreesTo[h] /\ Text(lang, n.rhs) \in TreesTo[h]
        BY <2>2, <3>1, <3>2, <3>8, RendersUnfolds
      <4>6. QED BY <2>1, <3>8, <4>1, <4>4, <4>5, TreeOverTrees
    <3>9. QED BY <2>1, <3>3, <3>4, <3>5, <3>6, <3>7, <3>8, PlanKinds
  <2>3. QED BY <2>1, <2>2
<1>3. H = 0 .. Depth
  <2>1. H \in SUBSET (0 .. Depth) /\ Depth \in Nat
    BY DepthAssumption
  <2> HIDE DEF H
  <2>2. QED BY <1>1, <1>2, <2>1, InductTo
<1>4. Depth \in H
  <2> HIDE DEF H
  <2>1. QED BY <1>3, DepthAssumption
<1>5. QED BY <1>4, PlanToLevels DEF Tree

(* The renderers: in its language, the text of a plan computes what the    *)
(* plan does, when no window has a half millisecond and no vector matching *)
(* is left out.                                                            *)
THEOREM RenderingComputes ==
  ASSUME NEW lang, NEW D, NEW plan \in Plan, Renders(lang, plan), Keeps(FALSE, plan),
         lang = "promql" \/ Keeps(TRUE, plan) \/ PlanSignals(plan) = {}
  PROVE  Computed(lang, Text(lang, plan), D) = PlanMeaning(plan, D)
<1> DEFINE Fits(n) == /\ Renders(lang, n) /\ Keeps(FALSE, n)
                      /\ lang = "promql" \/ Keeps(TRUE, n) \/ PlanSignals(n) = {}
           S == {n \in Plan : Fits(n) => Computed(lang, Text(lang, n), D) = PlanMeaning(n, D)}
<1>1. ASSUME NEW n \in Plan,
             n.kind \in {"timeAgg", "aggregate"} => n.input \in S,
             n.kind = "function" => \A i \in DOMAIN n.args : n.args[i] \in S,
             n.kind = "binary" => n.lhs \in S /\ n.rhs \in S
      PROVE  n \in S
  <2> SUFFICES ASSUME Fits(n) PROVE Computed(lang, Text(lang, n), D) = PlanMeaning(n, D)
    OBVIOUS
  <2> DEFINE t == Text(lang, n)
  <2>1. t \in Tree
    BY TextIsTree
  <2>2. CASE n.kind = "select" /\ n.filter \in {Nil} \cup Predicate
    <3> DEFINE ms == Conjuncts(n.filter)
    <3>1. t = Selector(ms, n.lines)
      BY <2>2, TextUnfolds
    <3> HIDE DEF t
    <3>2. t.kind = "selector" /\ t.matchers = ms /\ t.lines = n.lines
      BY <3>1 DEF Selector
    <3>3. n.signal = SignalOf[lang] /\ n.filter # Nil /\ IsConjunction(n.filter)
      BY <2>2, RendersUnfolds DEF Flat
    <3>4. \A r : Satisfies(n.filter, r) = \A m \in ToSet(ms) : Satisfies(m, r)
      BY <2>2, <3>3, ConjunctsHold
    <3> HIDE DEF ms
    <3>5. \A r : Passes(n.filter, r) = \A i \in DOMAIN ms : Satisfies(ms[i], r)
      BY <3>3, <3>4 DEF Passes, ToSet
    <3>6. Computed(lang, t, D) = Rows({r \in D : /\ r.signal = SignalOf[lang]
                                                 /\ \A i \in DOMAIN t.matchers : Satisfies(t.matchers[i], r)
                                                 /\ LinesPass(t.lines, r)})
      BY <2>1, <3>2, ComputedUnfolds
    <3>7. PlanMeaning(n, D) = Rows({r \in D : /\ r.signal = n.signal /\ Passes(n.filter, r)
                                              /\ LinesPass(n.lines, r)})
      BY <2>2, PlanMeaningUnfolds
    <3>8. {r \in D : /\ r.signal = SignalOf[lang]
                     /\ \A i \in DOMAIN t.matchers : Satisfies(t.matchers[i], r)
                     /\ LinesPass(t.lines, r)}
          = {r \in D : /\ r.signal = n.signal /\ Passes(n.filter, r)
                       /\ LinesPass(n.lines, r)}
      BY <3>2, <3>3, <3>5
    <3>9. QED BY <3>6, <3>7, <3>8 DEF t
  <2>3. CASE n.kind = "literal"
    <3>1. t = Number
      BY <2>3, TextUnfolds
    <3> HIDE DEF t
    <3>2. Computed(lang, t, D) = Scalar
      <4>1. t.kind = "number"
        BY <3>1 DEF Number
      <4>2. QED BY <2>1, <4>1, ComputedUnfolds
    <3>3. PlanMeaning(n, D) = Scalar
      BY <2>3, PlanMeaningUnfolds
    <3>4. QED BY <3>2, <3>3 DEF t
  <2>4. CASE n.kind = "timeAgg" /\ n.window \in Int
    <3>1. t = RangeCall(n.op, Duration(n.window), Text(lang, n.input))
      BY <2>4, TextUnfolds
    <3> HIDE DEF t
    <3>2. t.kind = "range" /\ t.func = n.op /\ t.window = Duration(n.window) /\ t.input = Text(lang, n.input)
      BY <3>1 DEF RangeCall
    <3>3. Duration(n.window) = n.window
      <4>1. n.window % 2 = 0
        BY <2>4, KeepsUnfolds DEF KeepsNode, SubMillisecond
      <4>2. QED BY <2>4, <4>1 DEF Duration
    <3>4. Fits(n.input)
      BY <2>4, RendersUnfolds, KeepsUnfolds, PlanSignalsUnfolds
    <3>5. Computed(lang, t.input, D) = PlanMeaning(n.input, D)
      BY <1>1, <2>4, <3>2, <3>4
    <3>6. Computed(lang, t, D) = Mapped(t.func, t.window, Computed(lang, t.input, D))
      BY <2>1, <3>2, ComputedUnfolds
    <3>7. PlanMeaning(n, D) = Mapped(n.op, n.window, PlanMeaning(n.input, D))
      BY <2>4, PlanMeaningUnfolds
    <3>8. QED BY <3>2, <3>3, <3>5, <3>6, <3>7 DEF t
  <2>5. CASE n.kind = "aggregate"
    <3> DEFINE params == IF n.op \in TakesParam THEN <<n.param>> ELSE <<>>
    <3>1. t = Agg(n.op, Grouping(n), GroupLabels(n), params, Text(lang, n.input))
      BY <2>5, TextUnfolds
    <3>2. n.op \in TakesParam => params[1] = <<n.param>>[1]
      OBVIOUS
    <3> HIDE DEF t, params
    <3>3. /\ t.kind = "agg" /\ t.func = n.op /\ t.clause = Grouping(n) /\ t.labels = GroupLabels(n)
          /\ t.params = params /\ t.input = Text(lang, n.input)
      BY <3>1 DEF Agg
    <3>4. Fits(n.input)
      BY <2>5, RendersUnfolds, KeepsUnfolds, PlanSignalsUnfolds
    <3>5. Computed(lang, t.input, D) = PlanMeaning(n.input, D)
      BY <1>1, <2>5, <3>3, <3>4
    <3>6. Computed(lang, t, D) = Reduced(Computed(lang, t.input, D), t.func, t.clause, t.labels, t.params)
      BY <2>1, <3>3, ComputedUnfolds
    <3>7. PlanMeaning(n, D)
          = Reduced(PlanMeaning(n.input, D), n.op, Grouping(n), GroupLabels(n), <<n.param>>)
      BY <2>5, PlanMeaningUnfolds
    <3>8. \A v : Reduced(v, n.op, Grouping(n), GroupLabels(n), params)
                 = Reduced(v, n.op, Grouping(n), GroupLabels(n), <<n.param>>)
      BY <3>2, ReducedAlike
    <3>9. QED BY <3>3, <3>5, <3>6, <3>7, <3>8 DEF t
  <2>6. CASE n.kind = "function" /\ n.args \in Seq(Plan)
    <3> DEFINE args == [i \in DOMAIN n.args |-> Text(lang, n.args[i])]
    <3>1. t = Call(n.name, args)
      BY <2>6, TextUnfolds
    <3>2. /\ Len(args) = Len(n.args)
          /\ Len(n.args) = 1 => 1 \in DOMAIN n.args /\ args[1] = Text(lang, n.args[1])
      <4>1. Len(n.args) \in Nat /\ DOMAIN n.args = 1 .. Len(n.args)
        BY <2>6
      <4>2. Len(args) = Len(n.args)
        BY <4>1
      <4>3. Len(n.args) = 1 => 1 \in DOMAIN n.args
        BY <4>1
      <4>4. Len(n.args) = 1 => args[1] = Text(lang, n.args[1])
        BY <4>3
      <4>5. QED BY <4>2, <4>3, <4>4
    <3> HIDE DEF t, args
    <3>3. t.kind = "call" /\ t.func = n.name /\ t.args = args
      BY <3>1 DEF Call
    <3>4. Len(n.args) = 1 => Fits(n.args[1])
      <4> SUFFICES ASSUME Len(n.args) = 1 PROVE Fits(n.args[1])
        OBVIOUS
      <4>1. 1 \in DOMAIN n.args
        BY <3>2
      <4>2. Renders(lang, n.args[1])
        BY <2>6, <4>1, RendersUnfolds
      <4>3. Keeps(FALSE, n.args[1]) /\ (Keeps(TRUE, n) => Keeps(TRUE, n.args[1]))
        BY <2>6, <4>1, KeepsUnfolds
      <4>4. PlanSignals(n) = UNION {PlanSignals(n.args[i]) : i \in DOMAIN n.args}
        BY <2>6, PlanSignalsUnfolds
      <4>5. PlanSignals(n) = {} => PlanSignals(n.args[1]) = {}
        BY <4>1, <4>4
      <4>6. QED BY <4>2, <4>3, <4>5
    <3>5. Len(n.args) = 1 => Computed(lang, t.args[1], D) = PlanMeaning(n.args[1], D)
      BY <1>1, <2>6, <3>2, <3>3, <3>4
    <3>6. Computed(lang, t, D)
          = IF Len(t.args) = 1 THEN Mapped(t.func, 0, Computed(lang, t.args[1], D)) ELSE Error
      BY <2>1, <3>3, ComputedUnfolds
    <3>7. PlanMeaning(n, D)
          = IF Len(n.args) = 1 THEN Mapped(n.name, 0, PlanMeaning(n.args[1], D)) ELSE Error
      BY <2>6, PlanMeaningUnfolds
    <3>8. QED BY <3>2, <3>3, <3>5, <3>6, <3>7 DEF t
  <2>7. CASE n.kind = "binary"
    <3> DEFINE mod == IF lang = "promql" THEN MatchingClause(n.matching) ELSE NoModifier
    <3>1. t = Bin(n.op, mod, Text(lang, n.lhs), Text(lang, n.rhs))
      BY <2>7, TextUnfolds
    <3>2. mod = MatchingClause(n.matching) \/ PlanSignals(n) = {}
      BY <2>7, KeepsUnfolds DEF KeepsNode
    <3> HIDE DEF t, mod
    <3>3. /\ t.kind = "bin" /\ t.op = n.op /\ t.mod = mod
          /\ t.lhs = Text(lang, n.lhs) /\ t.rhs = Text(lang, n.rhs)
      BY <3>1 DEF Bin
    <3>4. PlanSignals(n) = PlanSignals(n.lhs) \cup PlanSignals(n.rhs)
      BY <2>7, PlanSignalsUnfolds
    <3>5. Fits(n.lhs) /\ Fits(n.rhs)
      BY <2>7, <3>4, RendersUnfolds, KeepsUnfolds
    <3> DEFINE l == PlanMeaning(n.lhs, D)
               r == PlanMeaning(n.rhs, D)
    <3>6. Computed(lang, t.lhs, D) = l /\ Computed(lang, t.rhs, D) = r
      BY <1>1, <2>7, <3>3, <3>5
    <3>7. Computed(lang, t, D) = Paired(t.op, t.mod, Computed(lang, t.lhs, D), Computed(lang, t.rhs, D))
      BY <2>1, <3>3, ComputedUnfolds
    <3>8. PlanMeaning(n, D) = Paired(n.op, MatchingClause(n.matching), l, r)
      BY <2>7, PlanMeaningUnfolds
    <3>9. CASE PlanSignals(n) = {}
      <4>1. PlanSignals(n.lhs) = {} /\ PlanSignals(n.rhs) = {} /\ n.lhs \in Plan /\ n.rhs \in Plan
        BY <2>7, <3>4, <3>9, <1>1
      <4>2. Silent(l) /\ Silent(r)
        BY <4>1, SilentPlan
      <4> HIDE DEF l, r
      <4>3. Paired(n.op, mod, l, r) = Paired(n.op, MatchingClause(n.matching), l, r)
        BY <4>2, SilentPaired
      <4>4. QED BY <3>3, <3>6, <3>7, <3>8, <4>3 DEF t
    <3>10. QED BY <3>2, <3>3, <3>6, <3>7, <3>8, <3>9 DEF t
  <2> HIDE DEF t, Fits
  <2>8. QED BY <2>2, <2>3, <2>4, <2>5, <2>6, <2>7, PlanParts DEF Plan
<1>2. Plan \subseteq S
  <2> HIDE DEF S
  <2>1. HasPlans(Plan, S)
    BY <1>1 DEF HasPlans
  <2>2. QED BY <2>1, PlanInduct DEF Plan
<1>3. QED BY <1>2

--------------------------------------------------------------------------------
(* The parser of the Prometheus acceptor.                                  *)

(* An empty "by" groups as no clause at all.                               *)
LEMMA ConvertedGrouping ==
  ASSUME NEW func, NEW clause \in {"none", "by", "without"}, NEW names,
         ~ (clause = "without" /\ names = {}), NEW param, NEW input, NEW n,
         n = Aggregate(func, IF clause = "by" THEN names ELSE {},
                       IF clause = "without" THEN names ELSE {}, param, input)
  PROVE  \A labels : Kept(labels, clause, names) = Kept(labels, Grouping(n), GroupLabels(n))
<1>1. /\ n.by = IF clause = "by" THEN names ELSE {}
      /\ n.without = IF clause = "without" THEN names ELSE {}
  BY DEF Aggregate
<1> SUFFICES ASSUME NEW labels
             PROVE  Kept(labels, clause, names) = Kept(labels, Grouping(n), GroupLabels(n))
  OBVIOUS
<1>2. CASE clause = "by" /\ names # {}
  BY <1>1, <1>2 DEF Grouping, GroupLabels
<1>3. CASE clause = "by" /\ names = {}
  <2>1. Grouping(n) = "none"
    BY <1>1, <1>3 DEF Grouping
  <2>2. Kept(labels, "none", GroupLabels(n)) = Restrict(labels, {})
    BY DEF Kept
  <2>3. Kept(labels, "by", names) = Restrict(labels, DOMAIN labels \cap names)
    BY DEF Kept
  <2>4. DOMAIN labels \cap names = {}
    BY <1>3
  <2>5. QED BY <1>3, <2>1, <2>2, <2>3, <2>4
<1>4. CASE clause = "without"
  BY <1>1, <1>4 DEF Grouping, GroupLabels
<1>5. CASE clause = "none"
  <2>1. Grouping(n) = "none"
    BY <1>1, <1>5 DEF Grouping
  <2>2. Kept(labels, "none", GroupLabels(n)) = Restrict(labels, {})
        /\ Kept(labels, "none", names) = Restrict(labels, {})
    BY DEF Kept
  <2>3. QED BY <1>5, <2>1, <2>2
<1>6. QED BY <1>2, <1>3, <1>4, <1>5

(* An empty "ignoring" pairs as no clause at all.                          *)
LEMMA ConvertedMatching ==
  ASSUME NEW mod \in VectorModifier, ~ (mod.clause = "on" /\ mod.labels = {}), NEW m,
         m = MatchingClause(Matching(mod))
  PROVE  /\ \A labels : Signature(labels, mod) = Signature(labels, m)
         /\ mod.group = m.group /\ (mod.group \in {"left", "right"} => mod.include = m.include)
<1>1. /\ mod.clause \in {"none", "on", "ignoring"} /\ mod.labels \in SUBSET String
      /\ mod.group \in {"none", "left", "right"} /\ mod.include \in SUBSET String
  BY DEF VectorModifier
<1> DEFINE v == Matching(mod)
<1>2. /\ v.on = (IF mod.clause = "on" THEN mod.labels ELSE {})
      /\ v.ignoring = (IF mod.clause = "ignoring" THEN mod.labels ELSE {})
      /\ v.group = mod.group /\ v.include = mod.include
  BY DEF Matching
<1>3. v # Nil
  <2>1. v \in VectorMatching
    BY <1>1 DEF Matching, VectorMatching
  <2>2. QED BY <2>1, NilMatchingAssumption
<1> HIDE DEF v
<1>4. m = Modifier(IF v.on # {} THEN "on" ELSE IF v.ignoring # {} THEN "ignoring" ELSE "none",
                   IF v.on # {} THEN v.on ELSE v.ignoring,
                   v.group, IF v.group = "none" THEN {} ELSE v.include)
  BY <1>3 DEF MatchingClause, v
<1>5. /\ m.clause = (IF v.on # {} THEN "on" ELSE IF v.ignoring # {} THEN "ignoring" ELSE "none")
      /\ m.labels = (IF v.on # {} THEN v.on ELSE v.ignoring)
      /\ m.group = v.group /\ m.include = (IF v.group = "none" THEN {} ELSE v.include)
  BY <1>4 DEF Modifier
<1>6. (IF m.clause = "on" THEN "by" ELSE "without") = IF mod.clause = "on" THEN "by" ELSE "without"
  BY <1>1, <1>2, <1>5
<1>7. (IF m.clause = "none" THEN {} ELSE m.labels) = IF mod.clause = "none" THEN {} ELSE mod.labels
  BY <1>1, <1>2, <1>5
<1>8. \A labels : Signature(labels, mod) = Signature(labels, m)
  BY <1>6, <1>7 DEF Signature
<1>9. QED BY <1>2, <1>5, <1>8

(* parsePromQL: the plan of a text computes what the text does.            *)
THEOREM ParsingComputes ==
  ASSUME NEW D, NEW tree \in Tree, WellFormed("promql", tree), ConvertsPromQL(tree)
  PROVE  Computed("promql", tree, D) = PlanMeaning(Converted(tree), D)
<1> DEFINE Fits(t) == WellFormed("promql", t) /\ ConvertsPromQL(t)
           S == {t \in Tree : Fits(t) => Computed("promql", t, D) = PlanMeaning(Converted(t), D)}
<1>1. ASSUME NEW t \in Tree,
             t.kind \in {"range", "agg", "neg"} => t.input \in S,
             t.kind = "call" => \A i \in DOMAIN t.args : t.args[i] \in S,
             t.kind = "bin" => t.lhs \in S /\ t.rhs \in S
      PROVE  t \in S
  <2> SUFFICES ASSUME Fits(t) PROVE Computed("promql", t, D) = PlanMeaning(Converted(t), D)
    OBVIOUS
  <2> DEFINE n == Converted(t)
  <2>1. n \in Plan
    BY ConvertedIsGiven, GivenIsPlan
  <2>2. CASE t.kind = "selector" /\ t.matchers \in Seq(Leaves)
    <3>1. n = Select("metrics", Filter(t.matchers), <<>>)
      BY <2>2, ConvertedUnfolds
    <3> HIDE DEF n
    <3>2. n.kind = "select" /\ n.signal = "metrics" /\ n.filter = Filter(t.matchers) /\ n.lines = <<>>
      BY <3>1 DEF Select
    <3>3. \A r : Passes(n.filter, r) = \A i \in DOMAIN t.matchers : Satisfies(t.matchers[i], r)
      BY <2>2, <3>2, FilterOfMatchers
    <3>4. t.lines = <<>>
      BY <2>2, WellFormedUnfolds
    <3>5. Computed("promql", t, D)
          = Rows({r \in D : /\ r.signal = SignalOf["promql"]
                            /\ \A i \in DOMAIN t.matchers : Satisfies(t.matchers[i], r)
                            /\ LinesPass(t.lines, r)})
      BY <2>2, ComputedUnfolds
    <3>6. PlanMeaning(n, D) = Rows({r \in D : /\ r.signal = n.signal /\ Passes(n.filter, r)
                                              /\ LinesPass(n.lines, r)})
      BY <2>1, <3>2, PlanMeaningUnfolds
    <3>7. SignalOf["promql"] = n.signal
      BY <3>2 DEF SignalOf
    <3>8. {r \in D : /\ r.signal = SignalOf["promql"]
                     /\ \A i \in DOMAIN t.matchers : Satisfies(t.matchers[i], r)
                     /\ LinesPass(t.lines, r)}
          = {r \in D : /\ r.signal = n.signal /\ Passes(n.filter, r)
                       /\ LinesPass(n.lines, r)}
      BY <3>2, <3>3, <3>4, <3>7
    <3>9. QED BY <3>5, <3>6, <3>8 DEF n
  <2>3. CASE t.kind \in {"documents", "other", "refused"}
    BY <2>3, ConvertsUnfolds
  <2>4. CASE t.kind = "number"
    <3>1. n = Literal
      BY <2>4, ConvertedUnfolds
    <3> HIDE DEF n
    <3>2. PlanMeaning(n, D) = Scalar
      BY <2>1, <3>1, LiteralIsPlan, PlanMeaningUnfolds
    <3>3. Computed("promql", t, D) = Scalar
      BY <2>4, ComputedUnfolds
    <3>4. QED BY <3>2, <3>3 DEF n
  <2>5. CASE t.kind = "range"
    <3>1. n = TimeAgg(t.func, t.window, Converted(t.input))
      BY <2>5, ConvertedUnfolds
    <3> HIDE DEF n
    <3>2. n.kind = "timeAgg" /\ n.op = t.func /\ n.window = t.window /\ n.input = Converted(t.input)
      BY <3>1 DEF TimeAgg
    <3>3. Fits(t.input)
      BY <2>5, WellFormedUnfolds, ConvertsUnfolds
    <3>4. Computed("promql", t.input, D) = PlanMeaning(n.input, D)
      BY <1>1, <2>5, <3>2, <3>3
    <3>5. Computed("promql", t, D) = Mapped(t.func, t.window, Computed("promql", t.input, D))
      BY <2>5, ComputedUnfolds
    <3>6. PlanMeaning(n, D) = Mapped(n.op, n.window, PlanMeaning(n.input, D))
      BY <2>1, <3>2, PlanMeaningUnfolds
    <3>7. QED BY <3>2, <3>4, <3>5, <3>6 DEF n
  <2>6. CASE t.kind = "agg" /\ t.clause \in {"none", "by", "without"} /\ t.params \in Seq(Int)
    <3> DEFINE by == IF t.clause = "by" THEN t.labels ELSE {}
               without == IF t.clause = "without" THEN t.labels ELSE {}
               param == IF t.params = <<>> THEN 0 ELSE t.params[1]
    <3>1. n = Aggregate(t.func, by, without, param, Converted(t.input))
      BY <2>6, ConvertedUnfolds
    <3>2. t.func \in TakesParam => t.params[1] = param
      <4>1. t.func \in TakesParam => Len(t.params) = 1
        BY <2>6, WellFormedUnfolds
      <4>2. \A params \in Seq(Int) : Len(params) = 1 => params # <<>>
        OBVIOUS
      <4>3. QED BY <2>6, <4>1, <4>2
    <3> HIDE DEF n, param
    <3>3. ~ (t.clause = "without" /\ t.labels = {})
      BY <2>6, ConvertsUnfolds
    <3>4. \A labels : Kept(labels, t.clause, t.labels) = Kept(labels, Grouping(n), GroupLabels(n))
      BY <2>6, <3>1, <3>3, ConvertedGrouping
    <3> HIDE DEF by, without
    <3>5. /\ n.kind = "aggregate" /\ n.op = t.func /\ n.param = param
          /\ n.input = Converted(t.input)
      BY <3>1 DEF Aggregate
    <3>6. t.func \in TakesParam => t.params[1] = <<n.param>>[1]
      BY <3>2, <3>5
    <3>7. Fits(t.input)
      BY <2>6, WellFormedUnfolds, ConvertsUnfolds
    <3>8. Computed("promql", t.input, D) = PlanMeaning(n.input, D)
      BY <1>1, <2>6, <3>5, <3>7
    <3>9. Computed("promql", t, D)
          = Reduced(Computed("promql", t.input, D), t.func, t.clause, t.labels, t.params)
      BY <2>6, ComputedUnfolds
    <3>10. PlanMeaning(n, D)
           = Reduced(PlanMeaning(n.input, D), n.op, Grouping(n), GroupLabels(n), <<n.param>>)
      BY <2>1, <3>5, PlanMeaningUnfolds
    <3>11. \A v : Reduced(v, t.func, t.clause, t.labels, t.params)
                  = Reduced(v, t.func, Grouping(n), GroupLabels(n), <<n.param>>)
      BY <3>4, <3>6, ReducedAlike
    <3>12. QED BY <3>5, <3>8, <3>9, <3>10, <3>11 DEF n
  <2>7. CASE t.kind = "call" /\ t.args \in Seq(Tree)
    <3> DEFINE args == [i \in DOMAIN t.args |-> Converted(t.args[i])]
    <3>1. n = Function(t.func, args)
      BY <2>7, ConvertedUnfolds
    <3>2. Len(t.args) = 1 /\ 1 \in DOMAIN t.args /\ DOMAIN t.args = 1 .. Len(t.args)
      <4>1. Len(t.args) = 1
        BY <2>7, WellFormedUnfolds
      <4>2. QED BY <2>7, <4>1
    <3>3. Len(args) = 1
      BY <3>2
    <3>4. args[1] = Converted(t.args[1])
      BY <3>2
    <3> HIDE DEF n, args
    <3>5. n.kind = "function" /\ n.name = t.func /\ n.args = args
      BY <3>1 DEF Function
    <3>6. Fits(t.args[1])
      BY <2>7, <3>2, WellFormedUnfolds, ConvertsUnfolds
    <3>7. Computed("promql", t.args[1], D) = PlanMeaning(n.args[1], D)
      BY <1>1, <2>7, <3>2, <3>4, <3>5, <3>6
    <3>8. Computed("promql", t, D)
          = IF Len(t.args) = 1 THEN Mapped(t.func, 0, Computed("promql", t.args[1], D)) ELSE Error
      BY <2>7, ComputedUnfolds
    <3>9. PlanMeaning(n, D)
          = IF Len(n.args) = 1 THEN Mapped(n.name, 0, PlanMeaning(n.args[1], D)) ELSE Error
      BY <2>1, <3>5, PlanMeaningUnfolds
    <3>10. QED BY <3>2, <3>3, <3>5, <3>7, <3>8, <3>9 DEF n
  <2>8. CASE t.kind = "bin" /\ t.mod \in VectorModifier
    <3>1. n = Binary(t.op, Converted(t.lhs), Converted(t.rhs), Matching(t.mod))
      BY <2>8, ConvertedUnfolds
    <3> HIDE DEF n
    <3>2. /\ n.kind = "binary" /\ n.op = t.op /\ n.matching = Matching(t.mod)
          /\ n.lhs = Converted(t.lhs) /\ n.rhs = Converted(t.rhs)
      BY <3>1 DEF Binary
    <3>3. ~ (t.mod.clause = "on" /\ t.mod.labels = {})
      BY <2>8, ConvertsUnfolds
    <3> DEFINE m == MatchingClause(n.matching)
    <3>4. /\ \A labels : Signature(labels, t.mod) = Signature(labels, m)
          /\ t.mod.group = m.group
          /\ t.mod.group \in {"left", "right"} => t.mod.include = m.include
      BY <2>8, <3>2, <3>3, ConvertedMatching
    <3> HIDE DEF m
    <3>5. \A l, r : Paired(t.op, t.mod, l, r) = Paired(t.op, m, l, r)
      BY <3>4, PairedAlike
    <3>6. Fits(t.lhs) /\ Fits(t.rhs)
      BY <2>8, WellFormedUnfolds, ConvertsUnfolds
    <3>7. /\ Computed("promql", t.lhs, D) = PlanMeaning(n.lhs, D)
          /\ Computed("promql", t.rhs, D) = PlanMeaning(n.rhs, D)
      BY <1>1, <2>8, <3>2, <3>6
    <3>8. Computed("promql", t, D)
          = Paired(t.op, t.mod, Computed("promql", t.lhs, D), Computed("promql", t.rhs, D))
      BY <2>8, ComputedUnfolds
    <3>9. PlanMeaning(n, D) = Paired(n.op, m, PlanMeaning(n.lhs, D), PlanMeaning(n.rhs, D))
      BY <2>1, <3>2, PlanMeaningUnfolds DEF m
    <3>10. QED BY <3>2, <3>5, <3>7, <3>8, <3>9 DEF n
  <2>9. CASE t.kind = "neg"
    <3>1. n = Binary("-", Literal, Converted(t.input), Nil)
      BY <2>9, ConvertedUnfolds
    <3> HIDE DEF n
    <3>2. /\ n.kind = "binary" /\ n.op = "-" /\ n.matching = Nil
          /\ n.lhs = Literal /\ n.rhs = Converted(t.input)
      BY <3>1 DEF Binary
    <3>3. Fits(t.input)
      BY <2>9, WellFormedUnfolds, ConvertsUnfolds
    <3>4. Computed("promql", t.input, D) = PlanMeaning(n.rhs, D)
      BY <1>1, <2>9, <3>2, <3>3
    <3>5. PlanMeaning(n.lhs, D) = Scalar
      BY <3>2, LiteralIsPlan, PlanMeaningUnfolds
    <3>6. Computed("promql", t, D) = Paired("-", NoModifier, Scalar, Computed("promql", t.input, D))
      BY <2>9, ComputedUnfolds
    <3>7. PlanMeaning(n, D)
          = Paired(n.op, MatchingClause(n.matching), PlanMeaning(n.lhs, D), PlanMeaning(n.rhs, D))
      BY <2>1, <3>2, PlanMeaningUnfolds
    <3>8. MatchingClause(n.matching) = NoModifier
      BY <3>2 DEF MatchingClause
    <3>9. QED BY <3>2, <3>4, <3>5, <3>6, <3>7, <3>8 DEF n
  <2> HIDE DEF n, Fits
  <2>10. QED BY <2>2, <2>3, <2>4, <2>5, <2>6, <2>7, <2>8, <2>9, TreeParts
<1>2. Tree \subseteq S
  <2> HIDE DEF S
  <2>1. HasTrees(S)
    BY <1>1 DEF HasTrees
  <2>2. QED BY <2>1, TreeInduct
<1>3. QED BY <1>2

--------------------------------------------------------------------------------
(* The rendering of a search.                                              *)

(* The query DSL's clause for a line filter. *)
LEMMA LineClauseLevel ==
  ASSUME NEW line \in Line
  PROVE  LineClause(line) \in PredicatesTo[Depth + 2]
<1> DEFINE found == Leaf(IF line.op \in {"=", "!="} THEN phraseField ELSE messageField,
                         IF line.op \in {"=", "!="} THEN "=" ELSE "=~", line.value)
<1>1. Depth + 1 \in 1 .. Depth + 3 /\ Depth + 2 \in 1 .. Depth + 3 /\ (Depth + 1) + 1 = Depth + 2
      /\ Depth + 1 \in 0 .. Depth + 2
  BY DepthAssumption
<1>2. found \in Leaves
  BY StringAssumption DEF Leaf, Line, Leaves, phraseField, messageField
<1>3. LineClause(line) = found \/ LineClause(line) = Bool("NOT", <<found>>)
  BY DEF LineClause
<1> HIDE DEF found
<1>4. found \in PredicatesTo[Depth + 1] /\ found \in PredicatesTo[Depth + 2]
  BY <1>1, <1>2, LeafLevel
<1>5. Bool("NOT", <<found>>) \in PredicatesTo[(Depth + 1) + 1]
  <2>1. \A s \in Seq(PredicatesTo[Depth + 1]) : Bool("NOT", s) \in PredicatesTo[(Depth + 1) + 1]
    BY <1>1, BoolLevel, StringAssumption
  <2>2. <<found>> \in Seq(PredicatesTo[Depth + 1])
    BY <1>4, ListOfItself, Zenon
  <2>3. QED BY <2>1, <2>2
<1>6. QED BY <1>1, <1>3, <1>4, <1>5

(* A search computes the rows of the documents it finds.                   *)
LEMMA DocumentsCompute ==
  ASSUME NEW D, NEW pred \in {Nil} \cup Predicate, NEW lang \in {"lucene", "esql"}
  PROVE  Meaning(lang, Documents(pred), D) = Rows({r \in D : r.signal = "logs" /\ Searched(pred, r)})
<1> DEFINE d == Documents(pred)
<1>1. d \in Tree
  <2>1. Depth - 1 \in 0 .. Depth - 1 /\ (Depth - 1) + 1 = Depth
    BY DepthAssumption
  <2>2. Documents(pred) \in TreesTo[(Depth - 1) + 1]
    BY <2>1, TreeOverTrees
  <2>3. QED BY <2>1, <2>2 DEF Tree
<1>2. d.kind = "documents" /\ d.pred = pred /\ d # Refused
  BY DEF Documents, Refused
<1> HIDE DEF d
<1>3. Computed(lang, d, D) = Rows({r \in D : r.signal = SignalOf[lang] /\ Searched(d.pred, r)})
  BY <1>1, <1>2, ComputedUnfolds
<1>4. SignalOf[lang] = "logs"
  BY DEF SignalOf
<1>5. Computed(lang, d, D) = Rows({r \in D : r.signal = "logs" /\ Searched(pred, r)})
  BY <1>2, <1>3, <1>4
<1>6. Meaning(lang, d, D) = Computed(lang, d, D)
  BY <1>2 DEF Meaning
<1>7. QED BY <1>5, <1>6 DEF d

(* planToESQuery: the bool query of a search finds, of the documents of a  *)
(* storage, those that its filter as it is written and the clauses of its  *)
(* line filters find: must, should and must_not nest as the filter does.   *)
THEOREM SearchComputes ==
  ASSUME NEW D, NEW n \in Plan, n.kind = "select", n.signal = "logs",
         n.filter \in {Nil} \cup PredicatesTo[Depth + 1], n.lines \in Seq(Line)
  PROVE  Meaning("esql", ESQuery(n), D) =
           Rows({r \in D : /\ r.signal = "logs" /\ Searched(n.filter, r)
                           /\ \A i \in DOMAIN n.lines : Hit(LineClause(n.lines[i]), r)})
<1> DEFINE filter == IF n.filter = Nil THEN <<>> ELSE <<ESClause(n.filter)>>
           lines == [i \in DOMAIN n.lines |-> LineClause(n.lines[i])]
           both == filter \o lines
           p == Bool("AND", both)
<1>1. lines \in Seq(PredicatesTo[Depth + 2]) /\ DOMAIN lines = DOMAIN n.lines
  <2>1. Len(n.lines) \in Nat /\ DOMAIN n.lines = 1 .. Len(n.lines)
    OBVIOUS
  <2>2. \A i \in DOMAIN n.lines : LineClause(n.lines[i]) \in PredicatesTo[Depth + 2]
    BY LineClauseLevel
  <2>3. QED BY <2>1, <2>2, SMTT(20)
<1>2. Depth + 1 \in 0 .. Depth + 1 /\ Depth + 1 \in 0 .. Depth + 3
      /\ Depth + 2 \in 0 .. Depth + 2 /\ (Depth + 2) + 1 = Depth + 3
      /\ Depth + 3 \in 0 .. Depth + 3
  BY DepthAssumption
<1>3. /\ filter \in Seq(PredicatesTo[Depth + 2])
      /\ \A r : Searched(n.filter, r) = \A q \in ToSet(filter) : Hit(q, r)
  <2>1. CASE n.filter = Nil
    <3>1. ToSet(<<>>) = {} /\ <<>> \in Seq(PredicatesTo[Depth + 2])
      BY DEF ToSet
    <3>2. QED BY <2>1, <3>1 DEF Searched
  <2>2. CASE n.filter # Nil
    <3> DEFINE c == ESClause(n.filter)
    <3>1. c \in PredicatesTo[Depth + 2] /\ \A r : Hit(c, r) = Hit(n.filter, r)
      BY <2>2, ClauseHolds
    <3>2. PredicatesTo[Depth + 1] \subseteq Predicate
      BY <1>2, LowerLevels
    <3>3. \A r : Hit(n.filter, r) \in BOOLEAN
      BY <2>2, <3>2, SatisfiesIsBoolean
    <3> HIDE DEF c
    <3>4. <<c>> \in Seq(PredicatesTo[Depth + 2])
      BY <3>1, ListOfItself, Zenon
    <3>5. ToSet(<<c>>) = {c}
      BY DEF ToSet
    <3>6. filter = <<c>>
      BY <2>2 DEF c
    <3> HIDE DEF filter
    <3>7. QED BY <2>2, <3>1, <3>3, <3>4, <3>5, <3>6 DEF Searched
  <2>3. QED BY <2>1, <2>2
<1>4. ESQuery(n) = Documents(p)
  BY DEF ESQuery
<1>5. \A r : (\A q \in ToSet(lines) : Hit(q, r)) =
               \A i \in DOMAIN n.lines : Hit(LineClause(n.lines[i]), r)
  <2>1. \A i \in DOMAIN n.lines : lines[i] = LineClause(n.lines[i])
    OBVIOUS
  <2> HIDE DEF lines
  <2>2. ToSet(lines) = {lines[i] : i \in DOMAIN n.lines}
    BY <1>1 DEF ToSet
  <2>3. QED BY <2>1, <2>2
<1> HIDE DEF filter, lines
<1>6. both \in Seq(PredicatesTo[Depth + 2]) /\ ToSet(both) = ToSet(filter) \cup ToSet(lines)
  BY <1>1, <1>3, ConcatenatedElements
<1> HIDE DEF both
<1>7. p \in Predicate
  <2>1. \A s \in Seq(PredicatesTo[Depth + 2]) : Bool("AND", s) \in PredicatesTo[(Depth + 2) + 1]
    BY <1>2, BoolLevel, StringAssumption
  <2>2. QED BY <1>2, <1>6, <2>1 DEF Predicate
<1>8. p.kind = "bool" /\ p.op = "AND" /\ p.operands = both
  BY DEF Bool
<1> HIDE DEF p
<1>9. ASSUME NEW r
      PROVE  Searched(p, r) = (/\ Searched(n.filter, r)
                               /\ \A i \in DOMAIN n.lines : Hit(LineClause(n.lines[i]), r))
  <2>1. Hit(p, r) = \A i \in DOMAIN both : Hit(both[i], r)
    BY <1>7, <1>8, HitUnfolds
  <2>2. Hit(p, r) = \A q \in ToSet(both) : Hit(q, r)
    BY <2>1 DEF ToSet
  <2>3. Searched(p, r) = Hit(p, r)
    BY <1>7, NilAssumption DEF Searched
  <2>4. Hit(p, r) = ((\A q \in ToSet(filter) : Hit(q, r)) /\ \A q \in ToSet(lines) : Hit(q, r))
    BY <1>6, <2>2
  <2>5. QED BY <1>3, <1>5, <2>3, <2>4
<1>10. Meaning("esql", Documents(p), D) = Rows({r \in D : r.signal = "logs" /\ Searched(p, r)})
  BY <1>7, DocumentsCompute
<1>11. {r \in D : r.signal = "logs" /\ Searched(p, r)}
       = {r \in D : /\ r.signal = "logs" /\ Searched(n.filter, r)
                    /\ \A i \in DOMAIN n.lines : Hit(LineClause(n.lines[i]), r)}
  BY <1>9
<1>12. QED BY <1>4, <1>10, <1>11

--------------------------------------------------------------------------------
(* From a request to what is shipped for it.                               *)

(* What the rewrite makes of a plan: of the same kind and signal, and it   *)
(* computes from all records what the plan does from the visible ones.     *)
LEMMA EnforcedPlan ==
  ASSUME NEW a \in Asks, NEW plan \in GivenPlan
  PROVE  /\ Enforced(a, plan) \in Plan
         /\ Enforced(a, plan).kind = plan.kind
         /\ plan.kind = "select" => Enforced(a, plan).signal = plan.signal
         /\ PlanMeaning(Enforced(a, plan), Storage) = PlanMeaning(plan, Visible(a))
<1>1. a.enforced \in Filters /\ plan \in Plan
  BY AsksAssumption, GivenIsPlan
<1>2. CASE a.enforced = Nil
  <2>1. Enforced(a, plan) = plan
    BY <1>2 DEF Enforced
  <2>2. Visible(a) = Storage
    BY <1>2 DEF Visible, Passes
  <2>3. QED BY <1>1, <2>1, <2>2
<1>3. CASE a.enforced # Nil
  <2> DEFINE e == a.enforced
             n == Composed(plan, e)
  <2>1. e \in PredicatesTo[Depth] /\ Enforced(a, plan) = n
    BY <1>1, <1>3 DEF Filters, Enforced
  <2>2. Visible(a) = {r \in Storage : Satisfies(e, r)}
    BY <1>3 DEF Visible, Passes
  <2>3. n.kind = plan.kind /\ (plan.kind = "select" => n.signal = plan.signal)
    <3> HIDE DEF e
    <3>1. CASE plan = Select(plan.signal, plan.filter, plan.lines) /\ plan.kind = "select"
      <4>1. n = Select(plan.signal, Conjoin(plan.filter, e), plan.lines)
        BY <1>1, <3>1, ComposedNode
      <4>2. QED BY <3>1, <4>1 DEF Select
    <3>2. CASE plan.kind = "literal"
      BY <1>1, <3>2, ComposedNode
    <3>3. CASE plan = TimeAgg(plan.op, plan.window, plan.input) /\ plan.kind = "timeAgg"
      <4>1. n = TimeAgg(plan.op, plan.window, Composed(plan.input, e))
        BY <1>1, <3>3, ComposedNode
      <4>2. QED BY <3>3, <4>1 DEF TimeAgg
    <3>4. CASE /\ plan = Aggregate(plan.op, plan.by, plan.without, plan.param, plan.input)
               /\ plan.kind = "aggregate"
      <4>1. n = Aggregate(plan.op, plan.by, plan.without, plan.param, Composed(plan.input, e))
        BY <1>1, <3>4, ComposedNode
      <4>2. QED BY <3>4, <4>1 DEF Aggregate
    <3>5. CASE plan = Function(plan.name, plan.args) /\ plan.kind = "function"
      <4>1. n = Function(plan.name, [i \in DOMAIN plan.args |-> Composed(plan.args[i], e)])
        BY <1>1, <3>5, ComposedNode
      <4>2. QED BY <3>5, <4>1 DEF Function
    <3>6. CASE plan = Binary(plan.op, plan.lhs, plan.rhs, plan.matching) /\ plan.kind = "binary"
      <4>1. n = Binary(plan.op, Composed(plan.lhs, e), Composed(plan.rhs, e), plan.matching)
        BY <1>1, <3>6, ComposedNode
      <4>2. QED BY <3>6, <4>1 DEF Binary
    <3>7. QED BY <3>1, <3>2, <3>3, <3>4, <3>5, <3>6, PlanParts DEF GivenPlan
  <2>4. n \in Plan /\ PlanMeaning(n, Storage) = PlanMeaning(plan, {r \in Storage : Satisfies(e, r)})
    BY <2>1, ComposedIsPlan, EnforcementNarrows
  <2>5. QED BY <2>1, <2>2, <2>3, <2>4
<1>4. QED BY <1>2, <1>3

(* What an acceptor makes of a text is a request's plan.                   *)
LEMMA PlansForGiven ==
  ASSUME NEW a \in Asks, ~ Carries(a), NEW plan \in PlansFor(a)
  PROVE  /\ plan \in GivenPlan
         /\ a.door \in {"prometheus", "loki"} => a.text \notin {None, Bad} /\ TreeOf(a.text) \in Tree
         /\ a.door = "prometheus" =>
              /\ plan = Converted(TreeOf(a.text))
              /\ WellFormed("promql", TreeOf(a.text)) /\ ConvertsPromQL(TreeOf(a.text))
         /\ a.door = "loki" => plan \in LogQLPlans(a.text.lexemes)
         /\ a.door = "elasticsearch" =>
              /\ plan.kind = "select" /\ plan.signal = "logs" /\ plan.lines = <<>>
              /\ a.text = None => plan = Select("logs", Nil, <<>>)
<1>1. /\ a.door \in {"prometheus", "loki", "elasticsearch"}
      /\ a.text \notin {None, Bad} => TreeOf(a.text) \in Tree
      /\ a.text # Bad
  BY AsksAssumption DEF TextLanguage
<1>2. CASE a.door = "prometheus"
  <2>1. PlansFor(a) = IF a.text # None THEN PromQLPlans(TreeOf(a.text)) ELSE {}
    BY <1>2 DEF PlansFor
  <2>2. /\ a.text # None /\ plan = Converted(TreeOf(a.text))
        /\ WellFormed("promql", TreeOf(a.text)) /\ ConvertsPromQL(TreeOf(a.text))
    BY <2>1 DEF PromQLPlans
  <2>3. QED BY <1>1, <1>2, <2>2, ConvertedIsGiven
<1>3. CASE a.door = "loki"
  <2>1. PlansFor(a) = IF a.text # None THEN LogQLPlans(a.text.lexemes) ELSE {}
    BY <1>3 DEF PlansFor
  <2>2. a.text \notin {None, Bad} /\ plan \in LogQLPlans(a.text.lexemes)
    BY <1>1, <2>1
  <2>3. plan \in GivenPlan
    BY <1>3, <2>2, ParsersAssumption
  <2>4. QED BY <1>1, <1>3, <2>2, <2>3
<1>4. CASE a.door = "elasticsearch"
  <2> DEFINE preds == IF a.text = None THEN {Nil} ELSE LucenePredicates(a.text.lexemes)
  <2>1. PlansFor(a) = {Select("logs", p, <<>>) : p \in preds}
    BY <1>4 DEF PlansFor
  <2>2. PICK p \in preds : plan = Select("logs", p, <<>>)
    BY <2>1
  <2>3. a.text = None => p = Nil
    BY <2>2
  <2>4. a.text = None => plan \in GivenPlan
    <3>1. Depth - 1 \in 0 .. Depth - 1 /\ (Depth - 1) + 1 = Depth
      BY DepthAssumption
    <3>2. GivenTo = PlansTo(SelectsOf(Filters)) /\ GivenPlan = GivenTo[(Depth - 1) + 1]
      BY <3>1 DEF GivenTo, GivenPlan
    <3>3. \A signal \in String, filter \in Filters, lines \in Seq(Line) :
            Select(signal, filter, lines) \in GivenPlan
      BY <3>1, <3>2, PlanOverPlans
    <3>4. "logs" \in String
      BY StringAssumption
    <3>5. Nil \in Filters /\ <<>> \in Seq(Line)
      BY DEF Filters
    <3>6. QED BY <2>2, <2>3, <3>3, <3>4, <3>5
  <2>5. a.text # None => plan \in GivenPlan
    BY <1>1, <1>4, ParsersAssumption
  <2>6. plan.kind = "select" /\ plan.signal = "logs" /\ plan.lines = <<>>
    BY <2>2 DEF Select
  <2>7. QED BY <1>4, <2>2, <2>3, <2>4, <2>5, <2>6
<1>5. QED BY <1>1, <1>2, <1>3, <1>4

(* The text of a Select, and of nothing else, is a selector.               *)
LEMMA SelectorText ==
  ASSUME NEW lang, NEW n \in Plan
  PROVE  (Text(lang, n).kind = "selector") = (n.kind = "select")
<1>1. CASE n.kind = "select"
  <2>1. Text(lang, n) = Selector(Conjuncts(n.filter), n.lines)
    BY <1>1, TextUnfolds
  <2>2. Text(lang, n).kind # "selector" <=> n.kind # "select"
    BY <1>1, <2>1 DEF Selector
  <2>3. QED BY <2>2
<1>2. CASE n.kind = "timeAgg"
  <2>1. Text(lang, n) = RangeCall(n.op, Duration(n.window), Text(lang, n.input))
    BY <1>2, TextUnfolds
  <2>2. Text(lang, n).kind # "selector" <=> n.kind # "select"
    BY <1>2, <2>1 DEF RangeCall
  <2>3. QED BY <2>2
<1>3. CASE n.kind = "aggregate"
  <2>1. Text(lang, n) = Agg(n.op, Grouping(n), GroupLabels(n),
                        IF n.op \in TakesParam THEN <<n.param>> ELSE <<>>, Text(lang, n.input))
    BY <1>3, TextUnfolds
  <2>2. Text(lang, n).kind # "selector" <=> n.kind # "select"
    BY <1>3, <2>1 DEF Agg
  <2>3. QED BY <2>2
<1>4. CASE n.kind = "function"
  <2>1. Text(lang, n) = Call(n.name, [i \in DOMAIN n.args |-> Text(lang, n.args[i])])
    BY <1>4, TextUnfolds
  <2>2. Text(lang, n).kind # "selector" <=> n.kind # "select"
    BY <1>4, <2>1 DEF Call
  <2>3. QED BY <2>2
<1>5. CASE n.kind = "binary"
  <2>1. Text(lang, n) = Bin(n.op, IF lang = "promql" THEN MatchingClause(n.matching) ELSE NoModifier,
                        Text(lang, n.lhs), Text(lang, n.rhs))
    BY <1>5, TextUnfolds
  <2>2. Text(lang, n).kind # "selector" <=> n.kind # "select"
    BY <1>5, <2>1 DEF Bin
  <2>3. QED BY <2>2
<1>6. CASE n.kind \notin {"select", "timeAgg", "aggregate", "function", "binary"}
  <2>1. Text(lang, n) = Number
    BY <1>6, TextUnfolds
  <2>2. QED BY <1>6, <2>1 DEF Number
<1>7. QED BY <1>1, <1>2, <1>3, <1>4, <1>5, <1>6

(* The renderers keep the signals of the doors apart: what a query of the  *)
(* Prometheus door ships selects no logs, and what the search door ships   *)
(* selects nothing else.                                                   *)
LEMMA SignalsKept ==
  ASSUME NEW a \in Asks, ~ Carries(a), NEW plan \in PlansFor(a), Shipped(a, plan) # Refused
  PROVE  /\ a.door = "prometheus" =>
              \/ a.backend = "prometheus"
              \/ a.backend = "loki" /\ Shipped(a, plan).kind # "selector"
         /\ a.door = "elasticsearch" =>
              \/ a.backend = "elasticsearch"
              \/ a.backend = "loki" /\ Shipped(a, plan).kind = "selector"
<1> DEFINE n == Enforced(a, plan)
           lang == Language[a.backend]
<1>1. plan \in GivenPlan /\ a.backend \in {"prometheus", "loki", "elasticsearch"}
  BY PlansForGiven, AsksAssumption DEF Language
<1>2. /\ n \in Plan /\ n.kind = plan.kind
      /\ plan.kind = "select" => n.signal = plan.signal
  BY <1>1, EnforcedPlan
<1>3. a.door = "elasticsearch" => n.kind = "select" /\ n.signal = "logs"
  BY <1>2, PlansForGiven
<1>4. a.door = "prometheus" /\ n.kind = "select" => n.signal = "metrics"
  <2> SUFFICES ASSUME a.door = "prometheus", plan.kind = "select" PROVE plan.signal = "metrics"
    BY <1>2
  <2> DEFINE t == TreeOf(a.text)
  <2>1. plan = Converted(t) /\ t \in Tree
    BY PlansForGiven
  <2> HIDE DEF t
  <2>2. CASE t.kind = "selector"
    <3>1. plan = Select("metrics", Filter(t.matchers), <<>>)
      BY <2>1, <2>2, ConvertedUnfolds
    <3>2. QED BY <3>1 DEF Select
  <2>3. CASE t.kind = "range"
    <3>1. plan = TimeAgg(t.func, t.window, Converted(t.input))
      BY <2>1, <2>3, ConvertedUnfolds
    <3>2. QED BY <3>1 DEF TimeAgg
  <2>4. CASE t.kind = "agg"
    <3> DEFINE by == IF t.clause = "by" THEN t.labels ELSE {}
               without == IF t.clause = "without" THEN t.labels ELSE {}
               param == IF t.params = <<>> THEN 0 ELSE t.params[1]
    <3>1. plan = Aggregate(t.func, by, without, param, Converted(t.input))
      BY <2>1, <2>4, ConvertedUnfolds
    <3> HIDE DEF by, without, param
    <3>2. QED BY <3>1 DEF Aggregate
  <2>5. CASE t.kind = "call"
    <3>1. plan = Function(t.func, [i \in DOMAIN t.args |-> Converted(t.args[i])])
      BY <2>1, <2>5, ConvertedUnfolds
    <3>2. QED BY <3>1 DEF Function
  <2>6. CASE t.kind = "bin"
    <3>1. plan = Binary(t.op, Converted(t.lhs), Converted(t.rhs), Matching(t.mod))
      BY <2>1, <2>6, ConvertedUnfolds
    <3>2. QED BY <3>1 DEF Binary
  <2>7. CASE t.kind = "neg"
    <3>1. plan = Binary("-", Literal, Converted(t.input), Nil)
      BY <2>1, <2>7, ConvertedUnfolds
    <3>2. QED BY <3>1 DEF Binary
  <2>8. CASE t.kind \notin {"selector", "range", "agg", "call", "bin", "neg"}
    <3>1. plan = Literal
      BY <2>1, <2>8, ConvertedUnfolds
    <3>2. QED BY <3>1 DEF Literal
  <2>9. QED BY <2>2, <2>3, <2>4, <2>5, <2>6, <2>7, <2>8
<1>5. Shipped(a, plan) = Rendered(lang, n)
  BY DEF Shipped
<1> HIDE DEF n
<1>6. CASE a.backend = "elasticsearch"
  <2>1. n.kind = "select" /\ n.signal = "logs"
    BY <1>5, <1>6 DEF Rendered, Language
  <2>2. QED BY <1>4, <1>6, <2>1
<1>7. CASE a.backend = "loki"
  <2>1. Renders("logql", n) /\ Shipped(a, plan) = Text("logql", n)
    BY <1>5, <1>7 DEF Rendered, Language
  <2>2. n.kind = "select" => n.signal = "logs"
    BY <1>2, <2>1, RendersUnfolds DEF SignalOf
  <2>3. QED BY <1>2, <1>3, <1>4, <1>7, <2>1, <2>2, SelectorText
<1>8. CASE a.backend = "prometheus"
  <2>1. Renders("promql", n)
    BY <1>5, <1>8 DEF Rendered, Language
  <2>2. n.kind = "select" => n.signal = "metrics"
    BY <1>2, <2>1, RendersUnfolds DEF SignalOf
  <2>3. QED BY <1>3, <1>8, <2>2
<1>9. QED BY <1>1, <1>6, <1>7, <1>8

(* A request that loses nothing keeps its windows, and to Loki its         *)
(* vector matchings.                                                       *)
LEMMA LosslessKeeps ==
  ASSUME NEW a, NEW node, ~ Loses(a, node)
  PROVE  Keeps(FALSE, node) /\ (a.backend = "loki" => Keeps(TRUE, node))
<1>1. ASSUME NEW n \in Nodes(node)
      PROVE  KeepsNode(FALSE, n) /\ (a.backend = "loki" => KeepsNode(TRUE, n))
  BY Zenon DEF Loses, DropsMatching, KeepsNode
<1>2. QED BY <1>1, Zenon DEF Keeps

(* The rewrite keeps the windows, the vector matchings and the signals of  *)
(* a plan and the lines of a Select, and adds one level to its filter: a   *)
(* search finds what is found for both.                                    *)
LEMMA EnforcedKeeps ==
  ASSUME NEW a \in Asks, NEW plan \in GivenPlan
  PROVE  /\ PlanSignals(Enforced(a, plan)) = PlanSignals(plan)
         /\ \A plain : Keeps(plain, plan) => Keeps(plain, Enforced(a, plan))
         /\ plan.kind = "select" =>
              /\ Enforced(a, plan).filter \in {Nil} \cup PredicatesTo[Depth + 1]
              /\ Enforced(a, plan).lines \in Seq(Line) /\ Enforced(a, plan).lines = plan.lines
              /\ \A r : Searched(Enforced(a, plan).filter, r)
                       = (Searched(plan.filter, r) /\ Searched(a.enforced, r))
<1>1. a.enforced \in {Nil} \cup PredicatesTo[Depth]
  BY AsksAssumption DEF Filters
<1>2. Depth \in 0 .. Depth + 1 /\ Depth + 1 \in 0 .. Depth + 3
  BY DepthAssumption
<1>3. plan.kind = "select" => /\ plan = Select(plan.signal, plan.filter, plan.lines)
                              /\ plan.filter \in Filters /\ plan.lines \in Seq(Line)
  BY PlanParts DEF GivenPlan
<1>4. PredicatesTo[Depth] \subseteq PredicatesTo[Depth + 1]
  BY <1>2, LowerLevels
<1>5. CASE a.enforced = Nil
  <2>1. Enforced(a, plan) = plan
    BY <1>5 DEF Enforced
  <2>2. plan.kind = "select" => \A r : Searched(plan.filter, r) \in BOOLEAN
    <3>1. plan.kind = "select" /\ plan.filter # Nil => plan.filter \in Predicate
      BY <1>2, <1>3, LowerLevels DEF Filters
    <3>2. QED BY <3>1, SatisfiesIsBoolean DEF Searched
  <2>3. \A r : Searched(a.enforced, r) = TRUE
    BY <1>5 DEF Searched
  <2>4. QED BY <1>3, <1>4, <2>1, <2>2, <2>3 DEF Filters
<1>6. CASE a.enforced # Nil
  <2>1. Enforced(a, plan) = Composed(plan, a.enforced) /\ a.enforced \in PredicatesTo[Depth]
    BY <1>1, <1>6 DEF Enforced
  <2>2. ASSUME plan.kind = "select"
        PROVE  /\ Enforced(a, plan).filter \in PredicatesTo[Depth + 1]
               /\ Enforced(a, plan).lines \in Seq(Line) /\ Enforced(a, plan).lines = plan.lines
               /\ \A r : Searched(Enforced(a, plan).filter, r)
                        = (Searched(plan.filter, r) /\ Searched(a.enforced, r))
    <3>1. plan \in Plan
      BY GivenIsPlan
    <3>2. Enforced(a, plan) = Select(plan.signal, Conjoin(plan.filter, a.enforced), plan.lines)
      BY <1>3, <2>1, <2>2, <3>1, ComposedNode
    <3>3. /\ Conjoin(plan.filter, a.enforced) \in PredicatesTo[Depth + 1]
          /\ \A r : Searched(Conjoin(plan.filter, a.enforced), r)
                   = (Searched(plan.filter, r) /\ Hit(a.enforced, r))
      BY <1>3, <2>1, <2>2, ConjoinHolds
    <3>6. \A r : Searched(a.enforced, r) = Hit(a.enforced, r)
      BY <1>6 DEF Searched
    <3> DEFINE both == Conjoin(plan.filter, a.enforced)
    <3> HIDE DEF both
    <3>4. Enforced(a, plan).filter = both /\ Enforced(a, plan).lines = plan.lines
      BY <3>2 DEF Select, both
    <3>5. QED BY <1>3, <2>2, <3>3, <3>4, <3>6 DEF both
  <2>3. /\ PlanSignals(Composed(plan, a.enforced)) = PlanSignals(plan)
        /\ \A plain : Keeps(plain, plan) => Keeps(plain, Composed(plan, a.enforced))
    BY <2>1, ComposedKeeps
  <2>4. QED BY <2>1, <2>2, <2>3
<1>7. QED BY <1>5, <1>6

(* What a plan keeps where labels and documents tell its filters apart:    *)
(* nothing that a search reads otherwise is in it.                         *)
ReadsAlike(p) == p = Nil \/ \A m \in Matchers(p) : ~ ReadOtherwise(m)
SearchKeeps(a, plan) ==
  plan.kind = "select" /\ plan.signal = "logs" =>
    /\ a.backend = "elasticsearch" => plan.lines = <<>>
    /\ Crosses(a) => ReadsAlike(plan.filter)

(* What is read alike finds what passes. *)
LEMMA SearchedPasses ==
  ASSUME NEW p \in {Nil} \cup Predicate, ReadsAlike(p), NEW r
  PROVE  Searched(p, r) = Passes(p, r)
<1>1. CASE p = Nil
  BY <1>1 DEF Searched, Passes
<1>2. CASE p # Nil
  BY <1>2, HitsWhatHolds DEF ReadsAlike, Searched, Passes
<1>3. QED BY <1>1, <1>2

(* A request that loses nothing keeps it. *)
LEMMA LosslessSearches ==
  ASSUME NEW a, NEW plan \in Plan, ~ Loses(a, plan)
  PROVE  SearchKeeps(a, plan)
<1>1. plan \in Nodes(plan)
  BY NodesUnfold
<1>2. ~ FiltersLines(a, plan) /\ ~ ChangesReading(a, plan)
  BY <1>1 DEF Loses
<1>3. CASE plan.kind = "select"
  <2>1. a.backend = "elasticsearch" => plan.lines = <<>>
    BY <1>2, <1>3 DEF FiltersLines
  <2>2. plan.filter # Nil => MatchersAt(plan) = Matchers(plan.filter)
    BY <1>3 DEF MatchersAt
  <2>3. Crosses(a) => ReadsAlike(plan.filter)
    BY <1>2, <2>2, Zenon DEF ChangesReading, ReadsAlike
  <2>4. QED BY <2>1, <2>3 DEF SearchKeeps
<1>4. QED BY <1>3 DEF SearchKeeps

(* A search through another door asks what its plan means; one for another *)
(* backend as well, when nothing in it is read otherwise there.            *)
LEMMA PlanAskedMeans ==
  ASSUME NEW a \in Asks, NEW plan \in GivenPlan, SearchKeeps(a, plan),
         a.door = "elasticsearch" =>
           /\ a.backend # "elasticsearch"
           /\ plan.kind = "select" /\ plan.signal = "logs" /\ plan.lines = <<>>
  PROVE  PlanAsks(a, plan) = PlanMeaning(plan, Visible(a))
<1>1. CASE a.door # "elasticsearch"
  BY <1>1 DEF PlanAsks
<1>2. CASE a.door = "elasticsearch"
  <2>1. ReadsAlike(plan.filter)
    BY <1>2 DEF SearchKeeps, Crosses
  <2>2. plan \in Plan /\ plan.filter \in {Nil} \cup Predicate
    <3>1. Depth \in 0 .. Depth + 3 /\ Depth \in 0 .. Depth
      BY DepthAssumption
    <3>2. plan.filter \in {Nil} \cup PredicatesTo[Depth]
      BY <1>2, PlanParts DEF GivenPlan, Filters
    <3>3. QED BY <3>1, <3>2, LowerLevels, GivenIsPlan
  <2>3. \A r : Searched(plan.filter, r) = Passes(plan.filter, r)
    BY <2>1, <2>2, SearchedPasses
  <2>4. PlanAsks(a, plan) = Rows({r \in Visible(a) : r.signal = "logs" /\ Searched(plan.filter, r)})
    BY <1>2, <2>2, DocumentsCompute DEF PlanAsks
  <2>5. \A r : LinesPass(plan.lines, r)
    BY <1>2 DEF LinesPass
  <2>6. PlanMeaning(plan, Visible(a)) =
          Rows({r \in Visible(a) : /\ r.signal = plan.signal /\ Passes(plan.filter, r)
                                   /\ LinesPass(plan.lines, r)})
    BY <1>2, <2>2, PlanMeaningUnfolds
  <2>7. {r \in Visible(a) : r.signal = "logs" /\ Searched(plan.filter, r)}
        = {r \in Visible(a) : /\ r.signal = plan.signal /\ Passes(plan.filter, r)
                              /\ LinesPass(plan.lines, r)}
    BY <1>2, <2>3, <2>5
  <2>8. QED BY <2>4, <2>6, <2>7
<1>3. QED BY <1>1, <1>2

(* A search that is shipped to Elasticsearch finds what its plan asks.     *)
LEMMA SearchShipped ==
  ASSUME NEW a \in Asks, NEW plan \in GivenPlan, a.backend = "elasticsearch",
         Shipped(a, plan) # Refused, SearchKeeps(a, plan), ~ EnforcesOtherwise(a),
         a.door = "elasticsearch" => plan.lines = <<>>
  PROVE  Meaning("esql", Shipped(a, plan), Storage) = PlanAsks(a, plan)
<1> DEFINE n == Enforced(a, plan)
           text == Shipped(a, plan)
<1>1. n.kind = "select" /\ n.signal = "logs" /\ text = ESQuery(n)
  BY DEF Shipped, Rendered, Language
<1>2. n \in Plan /\ plan.kind = "select" /\ plan.signal = "logs"
  BY <1>1, EnforcedPlan
<1>3. /\ n.filter \in {Nil} \cup PredicatesTo[Depth + 1]
      /\ n.lines \in Seq(Line) /\ n.lines = plan.lines
      /\ \A r : Searched(n.filter, r) = (Searched(plan.filter, r) /\ Searched(a.enforced, r))
  BY <1>2, EnforcedKeeps
<1> HIDE DEF n, text
<1>4. plan.lines = <<>> /\ (a.door # "elasticsearch" => ReadsAlike(plan.filter))
  BY <1>2 DEF SearchKeeps, Crosses
<1>5. plan \in Plan /\ plan.filter \in {Nil} \cup Predicate /\ a.enforced \in {Nil} \cup Predicate
  <2>1. Depth \in 0 .. Depth + 3 /\ Depth \in 0 .. Depth
    BY DepthAssumption
  <2>2. plan.filter \in {Nil} \cup PredicatesTo[Depth] /\ a.enforced \in {Nil} \cup PredicatesTo[Depth]
    BY <1>2, PlanParts, AsksAssumption DEF GivenPlan, Filters
  <2>3. QED BY <2>1, <2>2, LowerLevels, GivenIsPlan
<1>6. \A r : Searched(a.enforced, r) = Passes(a.enforced, r)
  <2>1. ReadsAlike(a.enforced)
    BY Zenon DEF EnforcesOtherwise, ReadsAlike
  <2>2. QED BY <1>5, <2>1, SearchedPasses
<1>7. Meaning("esql", text, Storage) =
        Rows({r \in Storage : /\ r.signal = "logs" /\ Searched(n.filter, r)
                              /\ \A i \in DOMAIN n.lines : Hit(LineClause(n.lines[i]), r)})
  BY <1>1, <1>2, <1>3, SearchComputes
<1>8. {r \in Storage : /\ r.signal = "logs" /\ Searched(n.filter, r)
                       /\ \A i \in DOMAIN n.lines : Hit(LineClause(n.lines[i]), r)}
      = {r \in Visible(a) : r.signal = "logs" /\ Searched(plan.filter, r)}
  <2>1. DOMAIN n.lines = {}
    BY <1>3, <1>4
  <2>2. Visible(a) = {r \in Storage : Passes(a.enforced, r)}
    BY DEF Visible
  <2>3. QED BY <1>3, <1>6, <2>1, <2>2
<1>9. CASE a.door = "elasticsearch"
  <2>1. PlanAsks(a, plan) = Rows({r \in Visible(a) : r.signal = "logs" /\ Searched(plan.filter, r)})
    BY <1>5, <1>9, DocumentsCompute DEF PlanAsks
  <2>2. QED BY <1>7, <1>8, <2>1 DEF text
<1>10. CASE a.door # "elasticsearch"
  <2>1. PlanAsks(a, plan) =
          Rows({r \in Visible(a) : /\ r.signal = plan.signal /\ Passes(plan.filter, r)
                                   /\ LinesPass(plan.lines, r)})
    BY <1>2, <1>5, <1>10, PlanMeaningUnfolds DEF PlanAsks
  <2>2. \A r : LinesPass(plan.lines, r)
    BY <1>4 DEF LinesPass
  <2>3. \A r : Searched(plan.filter, r) = Passes(plan.filter, r)
    BY <1>4, <1>5, <1>10, SearchedPasses
  <2>4. {r \in Visible(a) : r.signal = "logs" /\ Searched(plan.filter, r)}
        = {r \in Visible(a) : /\ r.signal = plan.signal /\ Passes(plan.filter, r)
                              /\ LinesPass(plan.lines, r)}
    BY <1>2, <2>2, <2>3
  <2>5. QED BY <1>7, <1>8, <2>1, <2>4 DEF text
<1>11. QED BY <1>9, <1>10

(* A text that a dispatcher ships for a plan: its backend refuses it, or   *)
(* computes from all it holds what the plan asks of what the enforcement   *)
(* lets through.                                                           *)
LEMMA ShippedComputes ==
  ASSUME NEW a \in Asks, NEW plan \in GivenPlan, Shipped(a, plan) # Refused, Keeps(FALSE, plan),
         a.backend = "loki" => Keeps(TRUE, plan) \/ PlanSignals(plan) \subseteq {"metrics"},
         SearchKeeps(a, plan), ~ EnforcesOtherwise(a),
         a.door = "elasticsearch" =>
           plan.kind = "select" /\ plan.signal = "logs" /\ plan.lines = <<>>
  PROVE  Meaning(Language[a.backend], Shipped(a, plan), Storage) \in {Error, PlanAsks(a, plan)}
<1> DEFINE n == Enforced(a, plan)
           lang == Language[a.backend]
           text == Shipped(a, plan)
<1>1. a.backend \in {"prometheus", "loki", "elasticsearch"}
  BY AsksAssumption DEF Language
<1>2. n \in Plan /\ n.kind = plan.kind /\ PlanMeaning(n, Storage) = PlanMeaning(plan, Visible(a))
  BY EnforcedPlan
<1>3. /\ PlanSignals(n) = PlanSignals(plan)
      /\ \A plain : Keeps(plain, plan) => Keeps(plain, n)
  BY EnforcedKeeps
<1>4. text = Rendered(lang, n) /\ text # Refused
  BY DEF Shipped
<1>5. CASE a.backend = "elasticsearch"
  <2>1. lang = "esql"
    BY <1>5 DEF Language
  <2>2. QED BY <1>5, <2>1, SearchShipped
<1> HIDE DEF n, text
<1>6. CASE a.backend \in {"prometheus", "loki"}
  <2>1. lang = IF a.backend = "prometheus" THEN "promql" ELSE "logql"
    BY <1>6 DEF Language
  <2>2. Renders(lang, n) /\ text = Text(lang, n)
    BY <1>4, <2>1 DEF Rendered
  <2>3. lang = "promql" \/ Keeps(TRUE, n) \/ PlanSignals(n) = {}
    <3>1. CASE a.backend = "loki" /\ PlanSignals(plan) \subseteq {"metrics"}
      <4>1. PlanSignals(n) \subseteq {SignalOf[lang]}
        BY <1>2, <2>2, RenderedSignals
      <4>2. SignalOf[lang] = "logs"
        BY <2>1, <3>1 DEF SignalOf
      <4>3. QED BY <1>3, <3>1, <4>1, <4>2
    <3>2. QED BY <1>3, <1>6, <2>1, <3>1
  <2>4. Keeps(FALSE, n)
    BY <1>3
  <2> HIDE DEF lang
  <2>5. Computed(lang, text, Storage) = PlanMeaning(n, Storage)
    BY <1>2, <2>2, <2>3, <2>4, RenderingComputes
  <2>6. Meaning(lang, text, Storage) \in {Error, Computed(lang, text, Storage)}
    BY DEF Meaning
  <2>7. PlanAsks(a, plan) = PlanMeaning(plan, Visible(a))
    BY <1>6, PlanAskedMeans
  <2>8. QED BY <1>2, <2>5, <2>6, <2>7 DEF lang, text
<1>7. QED BY <1>1, <1>5, <1>6

(* The plan that the acceptor of a request makes of its text is what the   *)
(* client asked, and what the request keeps, its plan keeps.               *)
LEMMA AskedIsPlanned ==
  ASSUME NEW a \in Asks, ~ Lossy(a), a.text # Bad, NEW plan, plan # None, ValidatePlan(plan),
         IF Carries(a) THEN plan = a.text ELSE plan \in PlansFor(a)
  PROVE  /\ plan \in GivenPlan /\ Keeps(FALSE, plan)
         /\ a.backend = "loki" => Keeps(TRUE, plan) \/ PlanSignals(plan) \subseteq {"metrics"}
         /\ SearchKeeps(a, plan)
         /\ Asked(a) = PlanAsks(a, plan)
<1>1. CASE Carries(a)
  <2>1. plan \in GivenPlan /\ plan = a.text
    BY <1>1, AsksAssumption
  <2>2. plan.kind # "written"
    BY <2>1, PlanParts DEF GivenPlan
  <2>3. TreeOf(a.text) = plan
    BY <2>1, <2>2 DEF TreeOf
  <2>4. ~ Loses(a, plan)
    BY <2>1, <2>3 DEF Lossy
  <2>5. SearchKeeps(a, plan)
    BY <2>1, <2>4, GivenIsPlan, LosslessSearches
  <2>6. a.door # "elasticsearch"
    BY <1>1 DEF Carries
  <2>7. QED BY <1>1, <2>1, <2>4, <2>5, <2>6, LosslessKeeps DEF Asked, PlanAsks
<1>2. CASE ~ Carries(a) /\ a.door = "prometheus"
  <2> DEFINE t == TreeOf(a.text)
  <2>1. /\ plan \in GivenPlan /\ t \in Tree /\ a.text # None
        /\ plan = Converted(t) /\ WellFormed("promql", t) /\ ConvertsPromQL(t)
    BY <1>2, PlansForGiven
  <2>2. Keeps(FALSE, t)
    BY <2>1, LosslessKeeps DEF Lossy
  <2> HIDE DEF t
  <2>3. Keeps(FALSE, plan) /\ PlanSignals(plan) \subseteq {"metrics"}
    BY <2>1, <2>2, ConvertedKeeps
  <2>4. Computed("promql", t, Visible(a)) = PlanMeaning(plan, Visible(a))
    BY <2>1, ParsingComputes
  <2>5. t # Refused
    <3>1. t.kind \notin {"documents", "refused"}
      BY <2>1, WellFormedUnfolds, Zenon
    <3>2. QED BY <3>1 DEF Refused
  <2>6. Meaning("promql", t, Visible(a)) = Computed("promql", t, Visible(a))
    BY <2>1, <2>5 DEF Meaning
  <2>7. Asked(a) = Meaning("promql", t, Visible(a))
    BY <1>2, <2>1 DEF Asked, TextLanguage, t
  <2>8. SearchKeeps(a, plan)
    <3>1. plan \in Plan
      BY <2>1, GivenIsPlan
    <3>2. plan.kind = "select" => PlanSignals(plan) = {plan.signal}
      BY <3>1, PlanSignalsUnfolds
    <3>3. plan.kind = "select" => plan.signal = "metrics"
      BY <2>3, <3>2
    <3>4. QED BY <3>3 DEF SearchKeeps
  <2>9. PlanAsks(a, plan) = PlanMeaning(plan, Visible(a))
    BY <1>2 DEF PlanAsks
  <2>10. QED BY <2>1, <2>3, <2>4, <2>6, <2>7, <2>8, <2>9
<1>3. CASE ~ Carries(a) /\ a.door \in {"loki", "elasticsearch"} /\ a.text # None
  <2>1. plan \in GivenPlan /\ plan \in PlansFor(a)
    BY <1>3, PlansForGiven
  <2>2. ~ Loses(a, plan) /\ PlanAsks(a, plan) = Asked(a)
    BY <1>3, <2>1, ParsersAssumption
  <2>3. SearchKeeps(a, plan)
    BY <2>1, <2>2, GivenIsPlan, LosslessSearches
  <2>4. QED BY <2>1, <2>2, <2>3, LosslessKeeps
<1>4. CASE ~ Carries(a) /\ a.door = "elasticsearch" /\ a.text = None
  <2>1. plan \in GivenPlan /\ plan = Select("logs", Nil, <<>>)
    BY <1>4, PlansForGiven
  <2>2. plan \in Plan
    BY <2>1, GivenIsPlan
  <2>3. plan.kind = "select" /\ plan.signal = "logs" /\ plan.filter = Nil /\ plan.lines = <<>>
    BY <2>1 DEF Select
  <2>4. \A plain : Keeps(plain, plan)
    BY <2>2, <2>3, KeepsUnfolds DEF KeepsNode, SubMillisecond
  <2>5. SearchKeeps(a, plan)
    BY <2>3 DEF SearchKeeps, ReadsAlike
  <2>6. Asked(a) = PlanAsks(a, plan)
    BY <1>4, <2>3 DEF Asked, PlanAsks
  <2>7. QED BY <2>1, <2>4, <2>5, <2>6
<1>5. Carries(a) \/ a.door \in {"prometheus", "loki", "elasticsearch"}
  BY AsksAssumption DEF TextLanguage
<1>6. a.door = "loki" /\ ~ Carries(a) => a.text # None
  BY PlansForGiven
<1>7. QED BY <1>1, <1>2, <1>3, <1>4, <1>5, <1>6

--------------------------------------------------------------------------------
(* The invariant.  Each step of an exchange is made once, from what the    *)
(* steps before it left, so a step that was taken is known by what it      *)
(* made; and what a step needs is there as long as its outcome is.         *)

AskOK == ask \in Asks

(* A Query is the one of its request. *)
QueryOK ==
  query # None =>
    /\ Taken(ask)
    /\ IF Carries(ask) THEN query = CarriedQuery(ask)
       ELSE \E plan \in PlansFor(ask) : query = NativeQuery(ask, plan)

SentOK ==
  sent # None =>
    /\ query # None
    /\ Ships(query)
    /\ sent = [text |-> Shipped(ask, query.plan), context |-> query.context,
               request |-> Request(query)]

(* What a backend may respond to what it was sent. *)
Responses(backend, type) ==
  {r \in [ok : BOOLEAN, body : {"garbage", "failed", "data"}, type : {type},
          histogram : BOOLEAN, entries : SUBSET Entry, partial : BOOLEAN] :
     /\ (r.ok /\ r.body = "data") \/ (r.entries = {} /\ ~ r.partial)
     /\ r.partial => backend # "loki"
     /\ type = "scalar" => r.entries = {}}

ReplyOK == reply # None => sent # None /\ reply \in Responses(ask.backend, BodyType)

ResultOK ==
  result # None => reply # None /\ CodeOf(reply) = "none" /\ result = Result(reply)

AnswerOK ==
  answer # None =>
    \/ answer \in {Failure("invalid_argument"), Failure("unavailable")}
    \/ result # None /\ answer \in Renderings(result)

ExchangeInvariant == AskOK /\ QueryOK /\ SentOK /\ ReplyOK /\ ResultOK /\ AnswerOK

--------------------------------------------------------------------------------
(* The steps.                                                              *)

(* A response that is no result is one of two errors. *)
LEMMA ErrorCodes ==
  ASSUME NEW r
  PROVE  CodeOf(r) \in {"none", "unavailable", "invalid_argument"}
  BY DEF CodeOf

(* What a step leaves alone stays as it was. *)
LEMMA QueryStays == QueryOK /\ UNCHANGED <<ask, query>> => QueryOK'
  BY Zenon DEF QueryOK

LEMMA SentStays == SentOK /\ UNCHANGED <<ask, query, sent>> => SentOK'
<1> SUFFICES ASSUME SentOK, UNCHANGED <<ask, query, sent>> PROVE SentOK'
  OBVIOUS
<1>1. Ships(query)' <=> Ships(query)
  BY Zenon DEF Ships
<1>2. Request(query)' = Request(query)
  BY Zenon DEF Request
<1>3. QED BY <1>1, <1>2, Zenon DEF SentOK

LEMMA ReplyStays == ReplyOK /\ UNCHANGED <<ask, sent, reply>> => ReplyOK'
<1> SUFFICES ASSUME ReplyOK, UNCHANGED <<ask, sent, reply>> PROVE ReplyOK'
  OBVIOUS
<1>1. BodyType' = BodyType
  BY Zenon DEF BodyType
<1>2. QED BY <1>1, Zenon DEF ReplyOK

LEMMA ResultStays == ResultOK /\ UNCHANGED <<ask, reply, result>> => ResultOK'
<1> SUFFICES ASSUME ResultOK, UNCHANGED <<ask, reply, result>> PROVE ResultOK'
  OBVIOUS
<1>1. CodeOf(reply)' = CodeOf(reply)
  BY Zenon DEF CodeOf
<1>2. Result(reply)' = Result(reply)
  BY Zenon DEF Result
<1>3. QED BY <1>1, <1>2, Zenon DEF ResultOK

LEMMA AnswerStays == AnswerOK /\ UNCHANGED <<ask, query, result, answer>> => AnswerOK'
<1> SUFFICES ASSUME AnswerOK, UNCHANGED <<ask, query, result, answer>> PROVE AnswerOK'
  OBVIOUS
<1>1. Renderings(result)' = Renderings(result)
  BY ZenonT(90) DEF Renderings, Success, OK, SeriesShape
<1>2. /\ Failure("invalid_argument")' = Failure("invalid_argument")
      /\ Failure("unavailable")' = Failure("unavailable")
  BY Zenon DEF Failure
<1>3. QED BY <1>1, <1>2, Zenon DEF AnswerOK

(* The invariant holds at first, and every step keeps it. *)
LEMMA ExchangeInvariantHolds == Spec => []ExchangeInvariant
<1>1. Init => ExchangeInvariant
  BY Zenon DEF Init, ExchangeInvariant, AskOK, QueryOK, SentOK, ReplyOK, ResultOK, AnswerOK
<1>2. ExchangeInvariant /\ [Next]_vars => ExchangeInvariant'
  <2> SUFFICES ASSUME ExchangeInvariant, [Next]_vars PROVE ExchangeInvariant'
    OBVIOUS
  <2> USE DEF ExchangeInvariant
  <2>1. CASE Accept
    <3>1. QueryOK'
      BY <2>1, Zenon DEF Accept, QueryOK
    <3>2. SentOK' /\ ReplyOK' /\ ResultOK' /\ AnswerOK'
      BY <2>1, Zenon DEF Accept, Fresh, SentOK, ReplyOK, ResultOK, AnswerOK
    <3>3. QED BY <2>1, <3>1, <3>2, Zenon DEF Accept, AskOK
  <2>2. ASSUME NEW code \in {"invalid_argument", "unavailable"}, Fail(code)
        PROVE  ExchangeInvariant'
    <3>1. UNCHANGED <<ask, query, sent, reply, result>>
      BY <2>2 DEF Fail
    <3>2. answer' = Failure(code)'
      BY <2>2, <3>1, Zenon DEF Fail, Failure
    <3>3. AnswerOK'
      BY <3>2, Zenon DEF AnswerOK
    <3>4. QED
      BY <3>1, <3>3, QueryStays, SentStays, ReplyStays, ResultStays, Zenon DEF AskOK
  <2>3. CASE BadRequest
    BY <2>2, <2>3, Zenon DEF BadRequest, Fail
  <2>4. CASE Ship
    <3>1. UNCHANGED <<ask, query, reply, result, answer>> /\ sent = None
      BY <2>4 DEF Ship, Accepted
    <3>2. SentOK'
      <4>1. Ships(query)' /\ query' # None
        BY <2>4, <3>1, Zenon DEF Ship, Accepted, Ships
      <4>2. Request(query)' = Request(query)
        BY <3>1, Zenon DEF Request
      <4>3. QED BY <2>4, <3>1, <4>1, <4>2, Zenon DEF Ship, SentOK
    <3>3. ReplyOK'
      BY <3>1, Zenon DEF ReplyOK
    <3>4. QED
      BY <3>1, <3>2, <3>3, QueryStays, ResultStays, AnswerStays, Zenon DEF AskOK
  <2>5. CASE RefuseToShip
    BY <2>2, <2>5, Zenon DEF RefuseToShip
  <2>6. CASE Respond
    <3>1. UNCHANGED <<ask, query, sent, result, answer>> /\ sent # None /\ reply = None
      BY <2>6, Zenon DEF Respond, Waiting
    <3>2. BodyType' = BodyType
      BY <3>1, Zenon DEF BodyType
    <3>3. reply' \in Responses(ask.backend, BodyType)
      BY <2>6 DEF Respond, Responses
    <3>4. ReplyOK'
      BY <3>1, <3>2, <3>3, Zenon DEF ReplyOK
    <3>5. ResultOK'
      BY <3>1, Zenon DEF ResultOK
    <3>6. QED
      BY <3>1, <3>4, <3>5, QueryStays, SentStays, AnswerStays, Zenon DEF AskOK
  <2>7. CASE GiveUp
    BY <2>2, <2>7, Zenon DEF GiveUp
  <2>8. CASE Decode
    <3>1. UNCHANGED <<ask, query, sent, reply, answer>> /\ answer = None /\ reply # None
      BY <2>8, Zenon DEF Decode, Replied
    <3>2. /\ CodeOf(reply)' = CodeOf(reply)
          /\ Result(reply)' = Result(reply)
      BY <3>1, Zenon DEF CodeOf, Result
    <3>3. ResultOK'
      BY <2>8, <3>1, <3>2, Zenon DEF Decode, ResultOK
    <3>4. AnswerOK'
      BY <3>1, Zenon DEF AnswerOK
    <3>5. QED
      BY <3>1, <3>3, <3>4, QueryStays, SentStays, ReplyStays, Zenon DEF AskOK
  <2>9. CASE DecodeError
    <3>1. CodeOf(reply) \in {"invalid_argument", "unavailable"}
      BY <2>9, ErrorCodes, Zenon DEF DecodeError
    <3>2. QED BY <2>2, <2>9, <3>1, Zenon DEF DecodeError
  <2>10. CASE Render
    <3>1. UNCHANGED <<ask, query, sent, reply, result>> /\ result # None
      BY <2>10, Zenon DEF Render
    <3>2. Renderings(result)' = Renderings(result)
      BY <3>1, ZenonT(90) DEF Renderings, Success, OK, SeriesShape
    <3>3. AnswerOK'
      BY <2>10, <3>1, <3>2, Zenon DEF Render, AnswerOK
    <3>4. QED
      BY <3>1, <3>3, QueryStays, SentStays, ReplyStays, ResultStays, Zenon DEF AskOK
  <2>11. CASE UNCHANGED vars
    BY <2>11, QueryStays, SentStays, ReplyStays, ResultStays, AnswerStays, Zenon DEF vars, AskOK
  <2>12. QED
    BY <2>1, <2>3, <2>4, <2>5, <2>6, <2>7, <2>8, <2>9, <2>10, <2>11, Zenon DEF Next
<1>3. QED BY <1>1, <1>2, PTL DEF Spec

--------------------------------------------------------------------------------
(* What an accepted request asks.                                          *)

(* A Query has the window and the options of its request. *)
LEMMA QueryFields ==
  ASSUME ExchangeInvariant, query # None
  PROVE  /\ query.context \in {"instant", "range", "streaming"}
         /\ query.context \in {"instant", ask.context}
         /\ {query.start, query.end, query.step} \subseteq Instant
         /\ query.limit \in Int
         /\ query.context = "range" => query.start = ask.start
         /\ query.context = "range" => ask.start # Bad
         /\ ask.door # "elasticsearch" /\ Given(ask.end) => query.end = ask.end
         /\ TakesOptions /\ Given(ask.limit) => query.limit = ask.limit
         /\ TakesOptions => query.direction = ask.direction
<1>1. /\ ask.context \in {"instant", "range", "streaming"}
      /\ {ask.start, ask.end, ask.step, ask.limit} \subseteq
           IF Carries(ask) THEN Instant \ {Bad} ELSE Instant \cup {Bad}
      /\ Carries(ask) \/ ask.door \in {"prometheus", "loki", "elasticsearch"}
  BY AsksAssumption DEF ExchangeInvariant, AskOK, TextLanguage
<1>2. CASE Carries(ask)
  <2>1. query = CarriedQuery(ask)
    BY <1>2 DEF ExchangeInvariant, QueryOK
  <2>2. ask.door # "elasticsearch"
    BY <1>2 DEF Carries
  <2>3. QED BY <1>1, <1>2, <2>1, <2>2 DEF CarriedQuery, Instant, Given
<1>3. CASE ~ Carries(ask)
  <2>1. PICK plan : query = NativeQuery(ask, plan)
    BY <1>3 DEF ExchangeInvariant, QueryOK
  <2>2. TakesParameters(ask)
    BY <1>3 DEF ExchangeInvariant, QueryOK, Taken
  <2>3. QED BY <1>1, <1>3, <2>1, <2>2, ClockAssumption
        DEF NativeQuery, TakesParameters, ParsesLogOptions, Optional, Given, Instant, TakesOptions, Carries
<1>4. QED BY <1>2, <1>3

(* What was sent was made of the accepted Query. *)
LEMMA SentFields ==
  ASSUME ExchangeInvariant, sent # None
  PROVE  /\ query # None
         /\ sent.context = query.context
         /\ sent.request = Request(query)
         /\ ask.backend \in {"prometheus", "loki", "elasticsearch"}
         /\ ask.backend = "loki" => TakesLogOptions(query)
  BY AsksAssumption DEF ExchangeInvariant, AskOK, SentOK, Ships, Language

(* A plain window that the client gave reaches the backend, and a bound it *)
(* left out is filled in without turning the window around: rangeBounds    *)
(* and buildRequest of the dispatchers, parseInstant and parseRange of the *)
(* acceptors.  Excluded bounds, an offset and a lookback, which the        *)
(* dispatchers ignore, are not claimed to reach it.                        *)
THEOREM WindowCorrect == Spec => []WindowIsAsked
<1>1. ExchangeInvariant => WindowIsAsked
  <2> SUFFICES ASSUME ExchangeInvariant, sent # None, ask.door # "elasticsearch",
                      IsPlainWindow(ask)
               PROVE  LET w == sent.request
                      IN  /\ AfterEpoch(ask.end) => w.end = ask.end
                          /\ sent.context = "range" /\ AfterEpoch(ask.start) => w.start = ask.start
                          /\ sent.context = "range" /\ ask.backend = "loki" /\ ~ AfterEpoch(ask.start) =>
                               w.start = w.end - Lookback
                          /\ sent.context = "instant" /\ ask.backend # "elasticsearch" =>
                               w.end > 0
    BY DEF WindowIsAsked
  <2>1. /\ query # None
        /\ sent.context = query.context
        /\ sent.request = Request(query)
        /\ ask.backend \in {"prometheus", "loki", "elasticsearch"}
    BY SentFields
  <2>2. /\ query.context \in {"instant", "range"}
        /\ query.start \in Instant /\ query.end \in Instant
        /\ query.context = "range" => query.start = ask.start /\ ask.start # Bad
        /\ Given(ask.end) => query.end = ask.end
    BY <2>1, QueryFields DEF IsPlainWindow
  <2>3. CASE ask.backend = "prometheus"
    <3>1. Request(query) = ToPrometheus(query)
      BY <2>3 DEF Request
    <3>2. QED BY <2>1, <2>2, <2>3, <3>1, ClockAssumption
          DEF ToPrometheus, AfterEpoch, Given, Instant, AsTime, EvalAt, Unset
  <2>4. CASE ask.backend = "loki"
    <3>1. Request(query) = ToLoki(query)
      BY <2>4 DEF Request
    <3>2. QED BY <2>1, <2>2, <2>4, <3>1, ClockAssumption
          DEF ToLoki, RangeBounds, AfterEpoch, Given, Instant, AsTime, EvalAt, Unset
  <2>5. CASE ask.backend = "elasticsearch"
    <3>1. Request(query) = ToElasticsearch(query)
      BY <2>5 DEF Request
    <3>2. QED BY <2>1, <2>2, <2>5, <3>1 DEF ToElasticsearch, AfterEpoch
  <2>6. QED BY <2>1, <2>3, <2>4, <2>5
<1>2. QED BY <1>1, ExchangeInvariantHolds, PTL

(* A Loki backend is asked for no more lines than the configuration allows *)
(* and for as many, in the direction, as the client asked: applyLogOptions *)
(* refuses what it would have to cut.                                      *)
THEOREM LimitsCorrect == Spec => []LimitsHold
<1>1. ExchangeInvariant => LimitsHold
  <2> SUFFICES ASSUME ExchangeInvariant, sent # None, ask.backend = "loki"
               PROVE  /\ sent.request.limit \in 1 .. MaxLimit
                      /\ TakesOptions /\ Given(ask.limit) /\ ask.limit > 0 =>
                           sent.request.limit = ask.limit
                      /\ TakesOptions /\ Given(ask.direction) =>
                           sent.request.direction = ask.direction
    BY DEF LimitsHold
  <2>1. /\ query # None
        /\ sent.request = ToLoki(query)
        /\ TakesLogOptions(query)
    BY SentFields DEF Request
  <2>2. /\ query.limit \in Int
        /\ TakesOptions /\ Given(ask.limit) => query.limit = ask.limit
        /\ TakesOptions => query.direction = ask.direction
    BY <2>1, QueryFields
  <2>3. QED BY <2>1, <2>2, LimitAssumption DEF ToLoki, TakesLogOptions, Given
<1>2. QED BY <1>1, ExchangeInvariantHolds, PTL

--------------------------------------------------------------------------------
(* What a client is shown.                                                 *)

(* What is listed of a response, and what of it may be left out. *)
Shows(entries) ==
  \E shown \in SUBSET reply.entries :
    reply.entries \ shown \subseteq Malformed /\ entries = Decoded(shown)

(* A result stands for a response that reports no failure, and lists what  *)
(* decodes of it as the signal that its door shows.                        *)
LEMMA ResultFields ==
  ASSUME ExchangeInvariant, result # None
  PROVE  /\ reply # None /\ reply.ok /\ reply.body # "garbage"
         /\ reply.entries \subseteq Entry
         /\ reply.body = "failed" => ask.backend = "elasticsearch"
         /\ result.kind \in {"metrics", "logs"}
         /\ Shows(result.entries)
         /\ result.warned = reply.partial
         /\ ask.door = "prometheus" => result.kind = "metrics" \/ reply.entries = {}
         /\ ask.door = "elasticsearch" => result.kind = "logs"
<1>1. /\ reply # None /\ sent # None /\ query # None
      /\ CodeOf(reply) = "none" /\ result = Result(reply)
      /\ reply \in Responses(ask.backend, BodyType)
      /\ sent.text = Shipped(ask, query.plan) /\ Shipped(ask, query.plan) # Refused
      /\ ask \in Asks
  BY DEF ExchangeInvariant, AskOK, SentOK, ReplyOK, ResultOK, Ships
<1>2. /\ reply.ok /\ reply.body # "garbage"
      /\ reply.body = "failed" => ask.backend = "elasticsearch"
      /\ reply.type = "scalar" => ask.backend # "prometheus"
  BY <1>1 DEF CodeOf
<1>3. /\ reply.type = BodyType
      /\ reply.entries \subseteq Entry
      /\ reply.partial \in BOOLEAN /\ (reply.partial => ask.backend # "loki")
      /\ BodyType = "scalar" => reply.entries = {}
  BY <1>1 DEF Responses
<1>4. ask.backend \in {"prometheus", "loki", "elasticsearch"}
  BY <1>1, AsksAssumption DEF Language
<1>5. /\ ask.door = "prometheus" =>
           \/ ask.backend = "prometheus"
           \/ ask.backend = "loki" /\ sent.text.kind # "selector"
      /\ ask.door = "elasticsearch" =>
           \/ ask.backend = "elasticsearch"
           \/ ask.backend = "loki" /\ sent.text.kind = "selector"
  <2> SUFFICES ASSUME ask.door \in {"prometheus", "elasticsearch"} PROVE <1>5!1 /\ <1>5!2
    OBVIOUS
  <2>1. ~ Carries(ask)
    BY DEF Carries
  <2>2. PICK plan \in PlansFor(ask) : query = NativeQuery(ask, plan)
    BY <1>1, <2>1 DEF ExchangeInvariant, QueryOK
  <2>3. query.plan = plan
    BY <2>2 DEF NativeQuery
  <2>4. ask \in Asks
    BY <1>1
  <2>5. Shipped(ask, plan) # Refused =>
          /\ ask.door = "prometheus" =>
               \/ ask.backend = "prometheus"
               \/ ask.backend = "loki" /\ Shipped(ask, plan).kind # "selector"
          /\ ask.door = "elasticsearch" =>
               \/ ask.backend = "elasticsearch"
               \/ ask.backend = "loki" /\ Shipped(ask, plan).kind = "selector"
    BY <2>1, <2>2, <2>4, SignalsKept, Zenon
  <2>6. QED BY <1>1, <2>3, <2>5, Zenon
<1>6. /\ Shows(Decoded(reply.entries))
      /\ Shows(Decoded(reply.entries \ Malformed))
      /\ reply.entries = {} => Shows(Decoded({}))
  BY DEF Shows
<1>7. CASE ask.backend = "elasticsearch"
  <2>1. result = Logs(reply.entries, reply.partial)
    BY <1>1, <1>7 DEF Result
  <2>2. QED BY <1>1, <1>2, <1>3, <1>5, <1>6, <1>7, <2>1 DEF Logs
<1>8. CASE ask.backend # "elasticsearch" /\ BodyType = "streams"
  <2>1. result = Logs(reply.entries \ Malformed, FALSE)
    BY <1>1, <1>3, <1>8 DEF Result
  <2>2. ask.backend = "loki" /\ sent.text.kind = "selector"
    BY <1>8 DEF BodyType
  <2>3. reply.partial = FALSE
    BY <1>3, <2>2, Zenon
  <2>4. result.kind = "logs" /\ result.warned = FALSE
    BY <2>1, Zenon DEF Logs
  <2>5. Shows(result.entries)
    BY <1>6, <2>1, <2>2 DEF Logs
  <2>6. QED BY <1>1, <1>2, <1>3, <1>5, <2>2, <2>3, <2>4, <2>5, Zenon
<1>9. CASE ask.backend # "elasticsearch" /\ BodyType = "scalar"
  <2>1. result = Logs({}, FALSE)
    BY <1>1, <1>3, <1>9 DEF Result
  <2>2. ask.backend = "loki" /\ sent.text.kind # "selector" /\ reply.entries = {}
    BY <1>2, <1>3, <1>4, <1>9 DEF BodyType
  <2>3. reply.partial = FALSE
    BY <1>3, <2>2, Zenon
  <2>4. result.kind = "logs" /\ result.warned = FALSE
    BY <2>1, Zenon DEF Logs
  <2>5. Shows(result.entries)
    BY <1>6, <2>1, <2>2 DEF Logs
  <2>6. QED BY <1>1, <1>2, <1>3, <1>5, <2>2, <2>3, <2>4, <2>5, Zenon
<1>10. CASE ask.backend # "elasticsearch" /\ BodyType \notin {"streams", "scalar"}
  <2>1. result = Metrics(reply.entries, reply.partial)
    BY <1>1, <1>3, <1>10 DEF Result
  <2>2. ask.backend = "loki" => sent.text.kind # "selector"
    BY <1>10 DEF BodyType
  <2>3. QED BY <1>1, <1>2, <1>3, <1>5, <1>6, <1>10, <2>1, <2>2 DEF Metrics
<1>11. QED BY <1>7, <1>8, <1>9, <1>10

(* A success is a rendering of a result.                                   *)
LEMMA SuccessHasResult ==
  ASSUME ExchangeInvariant, Succeeded
  PROVE  result # None /\ answer \in Renderings(result)
<1>1. Failure("invalid_argument").status # OK /\ Failure("unavailable").status # OK
  BY DEF Failure, StatusOf, GrpcCode, OK
<1>2. QED BY <1>1 DEF ExchangeInvariant, AnswerOK, Succeeded

(* There are five doors. *)
LEMMA DoorKinds ==
  ASSUME ExchangeInvariant
  PROVE  ask.door \in {"prometheus", "loki", "elasticsearch"} \/ Carries(ask)
  BY AsksAssumption DEF ExchangeInvariant, AskOK, TextLanguage

(* What is shown are entries of a result under their labels, or the        *)
(* streams of the Loki door; a result that the door has no place for lists *)
(* nothing.                                                                *)
LEMMA AnswerFields ==
  ASSUME ExchangeInvariant, Succeeded
  PROVE  /\ \/ Shows(answer.entries)
            \/ /\ ask.door = "loki"
               /\ \E records : Shows(records) /\ answer.entries \in Streams(records)
         /\ ask.door = "prometheus" \/ Carries(ask) => answer.warned = reply.partial
<1>1. result # None /\ answer \in Renderings(result)
  BY SuccessHasResult
<1>2. /\ reply # None
      /\ result.kind \in {"metrics", "logs"}
      /\ Shows(result.entries)
      /\ result.warned = reply.partial
      /\ ask.door = "prometheus" => result.kind = "metrics" \/ reply.entries = {}
      /\ ask.door = "elasticsearch" => result.kind = "logs"
  BY <1>1, ResultFields
<1>3. Decoded({}) = NoEntries
  BY DEF Decoded, NoEntries
<1>4. reply.entries = {} => Shows(NoEntries)
  BY <1>3 DEF Shows
<1>5. CASE ask.door = "prometheus"
  <2>1. answer = Success(SeriesShape, Series(result), result.warned)
    BY <1>1, <1>5 DEF Renderings, Carries
  <2>2. answer.entries = Series(result) /\ answer.warned = result.warned
    BY <2>1 DEF Success
  <2>3. Shows(Series(result))
    BY <1>2, <1>4, <1>5 DEF Series
  <2>4. QED BY <1>2, <1>5, <2>2, <2>3, Zenon
<1>6. CASE ask.door = "elasticsearch"
  <2>1. answer = Success("hits", Records(result), FALSE)
    BY <1>1, <1>6 DEF Renderings, Carries
  <2>2. answer.entries = result.entries
    BY <1>2, <1>6, <2>1 DEF Success, Records
  <2>3. QED BY <1>2, <1>6, <2>2, Zenon DEF Carries
<1>7. CASE Carries(ask)
  <2>1. answer = Success(result.kind, result.entries, result.warned)
    BY <1>1, <1>7 DEF Renderings, Carries
  <2>2. answer.entries = result.entries /\ answer.warned = result.warned
    BY <2>1 DEF Success
  <2>3. QED BY <1>2, <2>2, Zenon
<1>8. CASE ask.door = "loki" /\ Series(result) # NoEntries
  <2>1. answer = Success(SeriesShape, Series(result), FALSE)
    BY <1>1, <1>8 DEF Renderings, Carries
  <2>2. answer.entries = result.entries
    BY <1>8, <2>1 DEF Success, Series
  <2>3. QED BY <1>2, <1>8, <2>2 DEF Carries
<1>9. CASE ask.door = "loki" /\ Series(result) = NoEntries
  <2>1. PICK s \in Streams(Records(result)) : answer = Success("streams", s, FALSE)
    BY <1>1, <1>9 DEF Renderings, Carries
  <2>2. answer.entries = s
    BY <2>1 DEF Success
  <2>3. Records(result) = result.entries
    BY <1>2, <1>9 DEF Records, Series
  <2>4. QED BY <1>2, <1>9, <2>1, <2>2, <2>3 DEF Carries
<1>10. QED BY <1>5, <1>6, <1>7, <1>8, <1>9, DoorKinds

(* A stream shows a record that has the key of each of its records. *)
LEMMA StreamsShowRecords ==
  ASSUME NEW records, NEW s \in Streams(records)
  PROVE  /\ DOMAIN s = DOMAIN records
         /\ \A e \in DOMAIN records : \E f \in DOMAIN records :
              s[e] = records[f] /\ LabelKey(records[f]) = LabelKey(records[e])
<1> DEFINE Key(e) == LabelKey(records[e])
           keys == {Key(e) : e \in DOMAIN records}
<1>1. PICK first \in [keys -> DOMAIN records] :
        /\ \A k \in keys : Key(first[k]) = k
        /\ s = [e \in DOMAIN records |-> records[first[Key(e)]]]
  BY DEF Streams
<1>2. ASSUME NEW e \in DOMAIN records
      PROVE  \E f \in DOMAIN records : s[e] = records[f] /\ Key(f) = Key(e)
  <2>1. Key(e) \in keys
    OBVIOUS
  <2>2. first[Key(e)] \in DOMAIN records /\ Key(first[Key(e)]) = Key(e)
    BY <1>1, <2>1
  <2>3. s[e] = records[first[Key(e)]]
    BY <1>1
  <2>4. QED BY <2>2, <2>3
<1>3. QED BY <1>1, <1>2

(* A success stands for a response of the backend that reports no failure, *)
(* shows every entry that decodes, and at the doors that have a place for  *)
(* it the mark of a partial response: parseResponse of the dispatchers and *)
(* the acceptors' resultToResponse.                                        *)
THEOREM SuccessCorrect == Spec => []SuccessIsComplete
<1>1. ExchangeInvariant => SuccessIsComplete
  <2> SUFFICES ASSUME ExchangeInvariant, Succeeded
               PROVE  /\ reply # None /\ reply.ok /\ reply.body # "garbage"
                      /\ reply.body = "failed" => ask.backend = "elasticsearch"
                      /\ DOMAIN answer.entries \subseteq reply.entries
                      /\ reply.entries \ DOMAIN answer.entries \subseteq Malformed
                      /\ ask.door = "prometheus" \/ Carries(ask) => answer.warned = reply.partial
    BY DEF SuccessIsComplete
  <2>1. /\ reply # None /\ reply.ok /\ reply.body # "garbage"
        /\ reply.body = "failed" => ask.backend = "elasticsearch"
    BY SuccessHasResult, ResultFields
  <2>2. PICK records : Shows(records) /\ DOMAIN answer.entries = DOMAIN records
    BY AnswerFields, StreamsShowRecords
  <2>3. /\ DOMAIN records \subseteq reply.entries
        /\ reply.entries \ DOMAIN records \subseteq Malformed
    BY <2>2 DEF Shows, Decoded
  <2>4. ask.door = "prometheus" \/ Carries(ask) => answer.warned = reply.partial
    BY AnswerFields
  <2>5. QED BY <2>1, <2>2, <2>3, <2>4, Zenon
<1>2. QED BY <1>1, ExchangeInvariantHolds, PTL

(* What is shown is shown under its own labels, but for labels that the    *)
(* key of the Loki door's streams confuses: cloneAttrs and entryToRecord   *)
(* of the dispatchers, logsToStreams of the acceptor.                      *)
THEOREM LabelsCorrect == Spec => []EntriesKeepTheirLabels
<1>1. ExchangeInvariant => EntriesKeepTheirLabels
  <2> SUFFICES ASSUME ExchangeInvariant, Succeeded, NEW e \in DOMAIN answer.entries
               PROVE  \/ answer.entries[e] = OwnLabels(e)
                      \/ \E f \in DOMAIN answer.entries : Confusable(e, f)
    BY DEF EntriesKeepTheirLabels
  <2>1. ASSUME NEW d PROVE LabelsOf(d) = OwnLabels(d)
    BY DEF LabelsOf, Merged, OwnLabels
  <2>2. ASSUME NEW records, Shows(records), NEW d \in DOMAIN records
        PROVE  records[d] = OwnLabels(d)
    BY <2>1, <2>2 DEF Shows, Decoded
  <2>3. CASE Shows(answer.entries)
    BY <2>2, <2>3
  <2>4. ASSUME ask.door = "loki", NEW records, Shows(records), answer.entries \in Streams(records)
        PROVE  \/ answer.entries[e] = OwnLabels(e)
               \/ \E f \in DOMAIN answer.entries : Confusable(e, f)
    <3>1. DOMAIN answer.entries = DOMAIN records
      BY <2>4, StreamsShowRecords
    <3>2. PICK f \in DOMAIN records :
            answer.entries[e] = records[f] /\ LabelKey(records[f]) = LabelKey(records[e])
      BY <2>4, <3>1, StreamsShowRecords
    <3>3. records[e] = OwnLabels(e) /\ records[f] = OwnLabels(f)
      BY <2>2, <2>4, <3>1
    <3>4. QED BY <2>4, <3>1, <3>2, <3>3 DEF Confusable
  <2>5. QED BY <2>3, <2>4, AnswerFields
<1>2. QED BY <1>1, ExchangeInvariantHolds, PTL

(* What is sent is made of instants and limits, what is listed are entries *)
(* of the response, and the status of an answer is one of its transport.   *)
THEOREM TypeCorrect == Spec => []TypeOK
<1>1. ExchangeInvariant => TypeOK
  <2> SUFFICES ASSUME ExchangeInvariant PROVE TypeOK
    OBVIOUS
  <2>1. ask.backend \in DOMAIN Language
    BY AsksAssumption DEF ExchangeInvariant, AskOK
  <2>2. query # None => query.context \in {"instant", "range", "streaming"}
    BY QueryFields
  <2>3. ASSUME sent # None
        PROVE  /\ sent.request.start \in Instant /\ sent.request.end \in Instant
               /\ sent.request.limit \in {None} \cup Nat
    <3>1. /\ sent.request = Request(query)
          /\ ask.backend \in {"prometheus", "loki", "elasticsearch"}
          /\ ask.backend = "loki" => TakesLogOptions(query)
          /\ query.start \in Instant /\ query.end \in Instant /\ query.limit \in Int
      BY <2>3, SentFields, QueryFields
    <3>2. CASE ask.backend = "prometheus"
      BY <3>1, <3>2, ClockAssumption
         DEF Request, ToPrometheus, Instant, AsTime, EvalAt, Unset
    <3>3. CASE ask.backend = "loki"
      BY <3>1, <3>3, ClockAssumption, LimitAssumption
         DEF Request, ToLoki, RangeBounds, Instant, AsTime, EvalAt, Unset
    <3>4. CASE ask.backend = "elasticsearch"
      BY <3>1, <3>4 DEF Request, ToElasticsearch
    <3>5. QED BY <3>1, <3>2, <3>3, <3>4
  <2>4. reply # None => reply.entries \subseteq Entry
    BY DEF ExchangeInvariant, ReplyOK, Responses
  <2>5. ASSUME result # None
        PROVE  result.kind \in {"metrics", "logs"} /\ DOMAIN result.entries \subseteq Entry
    <3>1. result.kind \in {"metrics", "logs"} /\ Shows(result.entries) /\ reply.entries \subseteq Entry
      BY <2>5, ResultFields
    <3>2. QED BY <3>1 DEF Shows, Decoded
  <2>6. ASSUME answer # None
        PROVE  /\ answer.status \in IF ask.door = "otqp" THEN {0, 3, 14} ELSE {200, 400, 502}
               /\ DOMAIN answer.entries \subseteq Entry
    <3>1. CASE answer \in {Failure("invalid_argument"), Failure("unavailable")}
      BY <3>1 DEF Failure, StatusOf, GrpcCode, NoEntries
    <3>2. CASE result # None /\ answer \in Renderings(result)
      <4>1. answer.status = OK
        BY <3>2, DoorKinds DEF Renderings, Success
      <4>2. Succeeded
        BY <2>6, <4>1 DEF Succeeded
      <4>3. PICK records : Shows(records) /\ DOMAIN answer.entries = DOMAIN records
        BY <4>2, AnswerFields, StreamsShowRecords
      <4>4. reply.entries \subseteq Entry
        BY <3>2, ResultFields
      <4>5. QED BY <4>1, <4>3, <4>4 DEF Shows, Decoded, OK
    <3>3. QED BY <2>6, <3>1, <3>2 DEF ExchangeInvariant, AnswerOK
  <2>7. QED BY <2>1, <2>2, <2>3, <2>4, <2>5, <2>6 DEF TypeOK
<1>2. QED BY <1>1, ExchangeInvariantHolds, PTL

--------------------------------------------------------------------------------
(* That what is shipped means what was asked.                              *)

(* A request that was answered before there was a Query of it was refused. *)
RefusalOK == answer # None /\ query = None => ~ Taken(ask)

(* Only the acceptor answers before there is a Query. *)
LEMMA RefusalHolds == Spec => []RefusalOK
<1>1. Init => RefusalOK
  BY Zenon DEF Init, RefusalOK
<1>2. ExchangeInvariant /\ RefusalOK /\ [Next]_vars => RefusalOK'
  <2> SUFFICES ASSUME ExchangeInvariant, RefusalOK, [Next]_vars PROVE RefusalOK'
    OBVIOUS
  <2>1. /\ sent # None => query # None
        /\ reply # None => sent # None
        /\ result # None => reply # None
    BY Zenon DEF ExchangeInvariant, SentOK, ReplyOK, ResultOK
  <2>2. CASE Accept
    BY <2>2, Zenon DEF Accept, Fresh, RefusalOK
  <2>3. CASE BadRequest
    BY <2>3, Zenon DEF BadRequest, RefusalOK
  <2>4. ASSUME query # None, query' = query PROVE RefusalOK'
    BY <2>4, Zenon DEF RefusalOK
  <2>5. CASE Ship
    BY <2>4, <2>5, Zenon DEF Ship, Accepted
  <2>6. CASE RefuseToShip
    BY <2>4, <2>6, Zenon DEF RefuseToShip, Accepted, Fail
  <2>7. CASE Respond
    BY <2>1, <2>4, <2>7, Zenon DEF Respond, Waiting
  <2>8. CASE GiveUp
    BY <2>1, <2>4, <2>8, Zenon DEF GiveUp, Waiting, Fail
  <2>9. CASE Decode
    BY <2>1, <2>4, <2>9, Zenon DEF Decode, Replied
  <2>10. CASE DecodeError
    BY <2>1, <2>4, <2>10, Zenon DEF DecodeError, Replied, Fail
  <2>11. CASE Render
    BY <2>1, <2>4, <2>11, Zenon DEF Render
  <2>12. CASE UNCHANGED vars
    BY <2>12, Zenon DEF vars, RefusalOK
  <2>13. QED
    BY <2>2, <2>3, <2>5, <2>6, <2>7, <2>8, <2>9, <2>10, <2>11, <2>12, Zenon DEF Next
<1>3. QED BY <1>1, <1>2, ExchangeInvariantHolds, PTL DEF Spec

(* Parser, rewrite and renderer together neither widen, narrow nor regroup *)
(* a query: what a backend is sent it refuses, or computes what the client *)
(* asked from what the enforcement lets it see (parsePromQL, conjoin and   *)
(* composeEnforcement, planToPromQL, planToLogQL and planToESQuery; of     *)
(* parseLogQL and parseLucene what ParsersAssumption states).  And a query *)
(* of the subsets those two promise is not refused for its text.           *)
THEOREM MeaningCorrect == Spec => []ShippedMeansAsked
<1>1. ASSUME ExchangeInvariant, Waiting, ~ Lossy(ask)
      PROVE  Meaning(Language[ask.backend], sent.text, Storage) \in {Error, Asked(ask)}
  <2>1. /\ ask \in Asks /\ query # None /\ Taken(ask)
        /\ query.plan # None /\ ValidatePlan(query.plan)
        /\ sent.text = Shipped(ask, query.plan) /\ Shipped(ask, query.plan) # Refused
    BY <1>1 DEF ExchangeInvariant, AskOK, QueryOK, SentOK, Waiting, Ships, Admissible
  <2>2. ask.text # Bad
    BY <2>1, AsksAssumption DEF Taken
  <2>3. IF Carries(ask) THEN query.plan = ask.text ELSE query.plan \in PlansFor(ask)
    <3>1. CASE Carries(ask)
      BY <1>1, <2>1, <3>1 DEF ExchangeInvariant, QueryOK, CarriedQuery
    <3>2. CASE ~ Carries(ask)
      <4>1. PICK plan \in PlansFor(ask) : query = NativeQuery(ask, plan)
        BY <1>1, <2>1, <3>2 DEF ExchangeInvariant, QueryOK
      <4>2. query.plan = plan
        BY <4>1 DEF NativeQuery
      <4>3. QED BY <3>2, <4>2
    <3>3. QED BY <3>1, <3>2
  <2>4. /\ query.plan \in GivenPlan /\ Keeps(FALSE, query.plan)
        /\ ask.backend = "loki" =>
             Keeps(TRUE, query.plan) \/ PlanSignals(query.plan) \subseteq {"metrics"}
        /\ SearchKeeps(ask, query.plan)
        /\ Asked(ask) = PlanAsks(ask, query.plan)
    BY <1>1, <2>1, <2>2, <2>3, AskedIsPlanned
  <2>5. ~ EnforcesOtherwise(ask)
    BY <1>1, Zenon DEF Lossy
  <2>6. ask.door = "elasticsearch" =>
          query.plan.kind = "select" /\ query.plan.signal = "logs" /\ query.plan.lines = <<>>
    BY <2>1, <2>3, PlansForGiven DEF Carries
  <2>7. Meaning(Language[ask.backend], Shipped(ask, query.plan), Storage)
          \in {Error, PlanAsks(ask, query.plan)}
    BY <2>1, <2>4, <2>5, <2>6, ShippedComputes
  <2>8. QED BY <2>1, <2>4, <2>7
<1>2. ASSUME ExchangeInvariant, RefusalOK, TextIsRefused
      PROVE  ~ InSubset(ask)
  <2>1. /\ ask \in Asks /\ ~ Taken(ask) /\ TakesParameters(ask)
        /\ ask.door \in {"loki", "elasticsearch"} /\ ask.text # None
    BY <1>2, Zenon DEF ExchangeInvariant, AskOK, RefusalOK, TextIsRefused
  <2>2. ~ Carries(ask)
    BY <2>1 DEF Carries
  <2>3. ask.text \notin {None, Bad}
    BY <2>1, <2>2, AsksAssumption
  <2>4. PlansFor(ask) = {}
    BY <2>1, <2>2 DEF Taken
  <2>5. QED BY <2>1, <2>3, <2>4, ParsersAssumption
<1>3. ExchangeInvariant /\ RefusalOK => ShippedMeansAsked
  BY <1>1, <1>2, Zenon DEF ShippedMeansAsked
<1>4. QED BY <1>3, ExchangeInvariantHolds, RefusalHolds, PTL
================================================================================
