------------------------------ MODULE ProofBasics ------------------------------
(***************************************************************************)
(* What the proofs about several modules rest on: induction over the       *)
(* natural numbers, stated for a set of numbers rather than for an         *)
(* operator, facts about bounded sets of numbers, and the stacks of one or *)
(* two frames that calls nest in.                                          *)
(***************************************************************************)
EXTENDS Lists, FiniteSetTheorems, SequenceTheorems, WellFoundedInduction, TLAPS

--------------------------------------------------------------------------------
(* Numbers.                                                                *)

(* Every nonempty set of intervals 0 .. n has a smallest one.              *)
LEMMA SmallestInterval ==
  ASSUME NEW M \in SUBSET Nat, M # {}
  PROVE  \E m \in M : \A n \in M : ~(0 .. n \subseteq 0 .. m /\ 0 .. n # 0 .. m)
<1> DEFINE T == {0 .. m : m \in M}
<1>1. T \subseteq FiniteSubsetsOf(Nat)
  <2>1. ASSUME NEW m \in Nat PROVE IsFiniteSet(0 .. m) /\ 0 .. m \subseteq Nat
    BY FS_Interval
  <2>2. QED BY <2>1 DEF FiniteSubsetsOf
<1>2. T # {}
  OBVIOUS
<1>3. PICK x \in T : \A y \in T : ~(<<y, x>> \in StrictSubsetOrdering(Nat))
  BY <1>1, <1>2, FS_StrictSubsetOrderingWellFounded, WFMin
<1>4. PICK m \in M : x = 0 .. m
  OBVIOUS
<1>5. ASSUME NEW n \in M PROVE ~(0 .. n \subseteq 0 .. m /\ 0 .. n # 0 .. m)
  <2>1. 0 .. n \in T /\ 0 .. n \in SUBSET Nat /\ x \in SUBSET Nat
    BY <1>4
  <2>2. <<0 .. n, x>> \notin StrictSubsetOrdering(Nat)
    BY <1>3, <2>1
  <2>3. <<0 .. n, x>> \in StrictSubsetOrdering(Nat)
          <=> (0 .. n \subseteq x /\ 0 .. n # x)
    BY <2>1 DEF StrictSubsetOrdering
  <2>4. QED BY <1>4, <2>2, <2>3
<1>6. QED BY <1>5

(* A set of numbers that holds 0 and with each number the next is Nat.     *)
LEMMA NatInduct ==
  ASSUME NEW N \in SUBSET Nat, 0 \in N, \A n \in N : n + 1 \in N
  PROVE  N = Nat
<1> SUFFICES ASSUME Nat \ N # {} PROVE FALSE
  OBVIOUS
<1>1. PICK m \in Nat \ N : \A n \in Nat \ N : ~(0 .. n \subseteq 0 .. m /\ 0 .. n # 0 .. m)
  BY SmallestInterval
<1>2. m - 1 \in Nat /\ m - 1 \notin N
  BY m # 0
<1>3. 0 .. m - 1 \subseteq 0 .. m /\ m \notin 0 .. m - 1 /\ m \in 0 .. m
  BY <1>2
<1>4. QED BY <1>1, <1>2, <1>3

(* A nonempty set of numbers up to n has a largest one.                    *)
LEMMA LargestOf ==
  ASSUME NEW n \in Nat, NEW S \in SUBSET (0 .. n), S # {}
  PROVE  \E m \in S : \A j \in S : j <= m
<1> DEFINE N == {k \in Nat : \A R \in SUBSET (0 .. k) :
                               R # {} => \E m \in R : \A j \in R : j <= m}
<1>1. 0 \in N
  <2> SUFFICES ASSUME NEW R \in SUBSET (0 .. 0), R # {}
               PROVE  \E m \in R : \A j \in R : j <= m
    OBVIOUS
  <2>1. \A j \in R : j = 0 /\ j <= 0
    OBVIOUS
  <2>2. 0 \in R
    BY <2>1
  <2>3. QED BY <2>1, <2>2, Zenon
<1>2. ASSUME NEW k \in N PROVE k + 1 \in N
  <2> SUFFICES ASSUME NEW R \in SUBSET (0 .. k + 1), R # {}
               PROVE  \E m \in R : \A j \in R : j <= m
    OBVIOUS
  <2>1. CASE k + 1 \in R
    BY <2>1
  <2>2. CASE k + 1 \notin R
    <3>1. R \in SUBSET (0 .. k)
      BY <2>2
    <3>2. QED BY <3>1
  <2>3. QED BY <2>1, <2>2
<1>3. N = Nat
  <2> HIDE DEF N
  <2>1. N \in SUBSET Nat
    BY DEF N
  <2>2. QED BY <1>1, <1>2, <2>1, NatInduct
<1>4. QED BY <1>3

(* Every nonempty set of numbers has a least one. *)
LEMMA LeastOf ==
  ASSUME NEW S \in SUBSET Nat, S # {}
  PROVE  \E m \in S : \A n \in S : m <= n
<1>1. PICK m \in S : \A n \in S : ~(0 .. n \subseteq 0 .. m /\ 0 .. n # 0 .. m)
  BY SmallestInterval
<1>2. ASSUME NEW n \in S, ~(m <= n) PROVE FALSE
  <2>1. m \in Nat /\ n \in Nat /\ n < m
    BY <1>2
  <2>2. 0 .. n \subseteq 0 .. m /\ m \in 0 .. m /\ m \notin 0 .. n
    BY <2>1
  <2>3. QED BY <1>1, <2>2
<1>3. QED BY <1>1, <1>2

--------------------------------------------------------------------------------
(* Lists of one and two elements.                                          *)

(* A list of length one is the list of its element.                        *)
LEMMA ListOfOne ==
  ASSUME NEW S, NEW s \in Seq(S), Len(s) = 1
  PROVE  s = <<s[1]>>
<1>1. s[1] \in S /\ <<s[1]>> \in Seq(S) /\ Len(<<s[1]>>) = 1 /\ <<s[1]>>[1] = s[1]
  OBVIOUS
<1>2. \A i \in 1 .. Len(s) : s[i] = <<s[1]>>[i]
  BY <1>1
<1>3. QED BY <1>1, <1>2, SeqEqual

(* A list of length two is the list of its two elements.                   *)
LEMMA ListOfTwo ==
  ASSUME NEW S, NEW s \in Seq(S), Len(s) = 2
  PROVE  s = <<s[1], s[2]>>
<1> DEFINE t == <<s[1], s[2]>>
<1>1. s[1] \in S /\ s[2] \in S
  BY ElementOfSeq
<1>2. t \in Seq(S) /\ Len(t) = 2 /\ t[1] = s[1] /\ t[2] = s[2]
  BY <1>1
<1> HIDE DEF t
<1>3. \A i \in 1 .. Len(s) : s[i] = t[i]
  BY <1>2
<1>4. s = t
  BY <1>2, <1>3, SeqEqual
<1>5. QED BY <1>4 DEF t

(* A second frame pushed on a stack of one.                                *)
LEMMA PushedOn ==
  ASSUME NEW f, NEW g
  PROVE  Append(<<f>>, g) = <<f, g>>
<1> DEFINE S == {f, g}
           t == Append(<<f>>, g)
<1>1. t \in Seq(S) /\ Len(t) = 2 /\ t[1] = f /\ t[2] = g
  OBVIOUS
<1> HIDE DEF t
<1>2. t = <<f, g>>
  BY <1>1, ListOfTwo
<1>3. QED BY <1>2 DEF t

(* The top frame popped off a stack of two, and of one.                    *)
LEMMA PoppedOff ==
  ASSUME NEW f, NEW g
  PROVE  SubSeq(<<f, g>>, 1, 1) = <<f>> /\ SubSeq(<<f>>, 1, 0) = <<>>
<1> DEFINE S == {f, g}
           t == SubSeq(<<f, g>>, 1, 1)
<1>1. \A i \in 1 .. 1 : <<f, g>>[i] \in S
  OBVIOUS
<1>2. t \in Seq(S)
  BY <1>1, SubSeqProperties
<1>3. Len(t) = 1 /\ t[1] = f
  OBVIOUS
<1> HIDE DEF t
<1>4. t = <<f>>
  BY <1>2, <1>3, ListOfOne
<1>5. SubSeq(<<f>>, 1, 0) = <<>>
  OBVIOUS
<1>6. QED BY <1>4, <1>5 DEF t

--------------------------------------------------------------------------------
(* Loops that pass over some of a list.                                    *)

(* f is what such a loop has got to after each of the first n elements.    *)
Skips(s, skipped, n, f) ==
  \A i \in 0 .. n :
    f[i] = IF i = 0 THEN <<>>
           ELSE IF s[i] \in skipped THEN f[i - 1] ELSE Append(f[i - 1], s[i])

(* There is such a function, for a list of any length.                     *)
LEMMA SkippingExists ==
  ASSUME NEW s, NEW skipped, NEW m \in Nat
  PROVE  \E f : f = [i \in 0 .. m |-> f[i]] /\ Skips(s, skipped, m, f)
<1> DEFINE N == {n \in Nat : \E f : f = [i \in 0 .. n |-> f[i]] /\ Skips(s, skipped, n, f)}
<1>1. 0 \in N
  <2> DEFINE f == [i \in 0 .. 0 |-> <<>>]
  <2>1. f = [i \in 0 .. 0 |-> f[i]] /\ Skips(s, skipped, 0, f)
    BY DEF Skips
  <2>2. QED BY <2>1
<1>2. ASSUME NEW n \in N PROVE n + 1 \in N
  <2>1. n \in Nat /\ n + 1 \in Nat
    OBVIOUS
  <2>2. PICK f : f = [i \in 0 .. n |-> f[i]] /\ Skips(s, skipped, n, f)
    OBVIOUS
  <2> DEFINE last == IF s[n + 1] \in skipped THEN f[n] ELSE Append(f[n], s[n + 1])
             g == [i \in 0 .. n + 1 |-> IF i = n + 1 THEN last ELSE f[i]]
  <2> HIDE DEF last
  <2>3. \A i \in 0 .. n : g[i] = f[i]
    BY <2>1
  <2>4. g[n + 1] = last /\ g = [i \in 0 .. n + 1 |-> g[i]]
    BY <2>1
  <2> HIDE DEF g
  <2>5. ASSUME NEW i \in 0 .. n + 1
        PROVE  g[i] = IF i = 0 THEN <<>>
                      ELSE IF s[i] \in skipped THEN g[i - 1] ELSE Append(g[i - 1], s[i])
    <3>1. CASE i = n + 1
      <4>1. i # 0 /\ i - 1 = n /\ n \in 0 .. n
        BY <2>1, <3>1
      <4>2. g[i - 1] = f[n] /\ g[i] = last /\ s[i] = s[n + 1]
        BY <2>3, <2>4, <3>1, <4>1, Zenon
      <4>3. QED BY <4>1, <4>2 DEF last
    <3>2. CASE i # n + 1
      <4>1. i \in 0 .. n /\ (i # 0 => i - 1 \in 0 .. n)
        BY <2>1, <3>2
      <4>2. QED BY <2>2, <2>3, <4>1 DEF Skips
    <3>3. QED BY <3>1, <3>2
  <2>6. Skips(s, skipped, n + 1, g)
    BY <2>5 DEF Skips
  <2>7. QED BY <2>1, <2>4, <2>6
<1>3. N = Nat
  <2> HIDE DEF N
  <2>1. N \in SUBSET Nat
    BY DEF N
  <2>2. QED BY <1>1, <1>2, <2>1, NatInduct
<1>4. m \in N
  BY <1>3
<1>5. QED BY <1>4

(* What the loop gets to is a list of the others.                          *)
LEMMA SkippingIsAList ==
  ASSUME NEW S, NEW s \in Seq(S), NEW skipped
  PROVE  Skipping(s, skipped) \in Seq(S \ skipped)
<1>1. Len(s) \in Nat /\ \A i \in 1 .. Len(s) : s[i] \in S
  OBVIOUS
<1> DEFINE G(f) == [i \in 0 .. Len(s) |->
                      IF i = 0 THEN <<>>
                      ELSE IF s[i] \in skipped THEN f[i - 1] ELSE Append(f[i - 1], s[i])]
           upTo == CHOOSE f : f = G(f)
<1>2. \E f : f = G(f)
  <2>1. PICK f : f = [i \in 0 .. Len(s) |-> f[i]] /\ Skips(s, skipped, Len(s), f)
    BY <1>1, SkippingExists
  <2>2. [i \in 0 .. Len(s) |-> f[i]] = G(f)
    BY <2>1 DEF Skips
  <2>3. QED BY <2>1, <2>2
<1>3. upTo = G(upTo)
  BY <1>2
<1>4. Skipping(s, skipped) = upTo[Len(s)]
  BY DEF Skipping
<1> HIDE DEF upTo
<1>5. Skips(s, skipped, Len(s), upTo)
  BY <1>3 DEF Skips
<1> HIDE DEF G
<1> DEFINE N == {n \in Nat : n <= Len(s) => upTo[n] \in Seq(S \ skipped)}
<1>6. 0 \in N
  <2>1. 0 \in 0 .. Len(s)
    BY <1>1
  <2>2. upTo[0] = <<>>
    BY <1>5, <2>1 DEF Skips
  <2>3. <<>> \in Seq(S \ skipped)
    OBVIOUS
  <2>4. QED BY <2>2, <2>3
<1>7. ASSUME NEW n \in N PROVE n + 1 \in N
  <2>1. n \in Nat /\ n + 1 \in Nat
    OBVIOUS
  <2>2. SUFFICES ASSUME n + 1 <= Len(s) PROVE upTo[n + 1] \in Seq(S \ skipped)
    BY <2>1
  <2>3. /\ upTo[n] \in Seq(S \ skipped) /\ s[n + 1] \in S
        /\ n + 1 \in 0 .. Len(s) /\ n + 1 # 0 /\ (n + 1) - 1 = n
    BY <1>1, <2>1, <2>2
  <2>4. upTo[n + 1] = IF s[n + 1] \in skipped THEN upTo[n] ELSE Append(upTo[n], s[n + 1])
    BY <1>5, <2>3 DEF Skips
  <2>5. QED BY <2>3, <2>4
<1>8. N = Nat
  <2> HIDE DEF N
  <2>1. N \in SUBSET Nat
    BY DEF N
  <2>2. QED BY <1>6, <1>7, <2>1, NatInduct
<1>9. Len(s) \in N
  BY <1>1, <1>8
<1>10. QED BY <1>4, <1>9
================================================================================
