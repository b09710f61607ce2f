---------------------------- MODULE JoinTablesProofs ---------------------------
(***************************************************************************)
(* Proofs about JoinTables: for every input, not only the ones that TLC is *)
(* given, the rows that are answered are the rows that agree on the keys,  *)
(* and nothing is lost between the storages' answers and the client.       *)
(***************************************************************************)
EXTENDS JoinTables, SequenceTheorems, FiniteSetTheorems, ProofBasics

--------------------------------------------------------------------------------
(* The text of a key tuple.                                                *)

(* The delimiter of a key is a part of texts like any other: a value may hold it. *)
LEMMA DelimiterIsPart == keyDelim \in Part
  BY DEF Part

(* A text, a delimiter and a text.                                         *)
Delimit(p, q) == p \o <<keyDelim>> \o q

(* Its parts are where they should be.                                     *)
LEMMA Delimited ==
  ASSUME NEW p \in Seq(Part), NEW q \in Seq(Part)
  PROVE  LET t == Delimit(p, q)
         IN  /\ t \in Seq(Part)
             /\ Len(t) = Len(p) + 1 + Len(q)
             /\ \A i \in 1 .. Len(p) : t[i] = p[i]
             /\ t[Len(p) + 1] = keyDelim
             /\ \A i \in 1 .. Len(q) : t[Len(p) + 1 + i] = q[i]
<1> DEFINE d == <<keyDelim>>
           u == p \o d
<1>1. /\ Len(p) \in Nat /\ Len(q) \in Nat
      /\ d \in Seq(Part) /\ Len(d) = 1 /\ d[1] = keyDelim
  BY DelimiterIsPart
<1> HIDE DEF d
<1>2. /\ u \in Seq(Part) /\ Len(u) = Len(p) + 1
      /\ \A i \in 1 .. Len(p) : u[i] = p[i]
      /\ u[Len(p) + 1] = keyDelim
  <2>1. /\ u \in Seq(Part) /\ Len(u) = Len(p) + Len(d)
        /\ \A i \in 1 .. Len(p) + Len(d) :
             u[i] = IF i <= Len(p) THEN p[i] ELSE d[i - Len(p)]
    BY <1>1, ConcatProperties, Zenon
  <2> HIDE DEF u
  <2>2. PICK n \in Nat : n = Len(p)
    BY <1>1
  <2>3. u[n + 1] = d[1] /\ \A i \in 1 .. n : u[i] = p[i]
    BY <1>1, <2>1, <2>2
  <2>4. QED BY <1>1, <2>1, <2>2, <2>3
<1> HIDE DEF u
<1>3. /\ u \o q \in Seq(Part)
      /\ Len(u \o q) = Len(u) + Len(q)
      /\ \A i \in 1 .. Len(u) + Len(q) :
           (u \o q)[i] = IF i <= Len(u) THEN u[i] ELSE q[i - Len(u)]
  BY <1>2, ConcatProperties
<1>4. \A i \in 1 .. Len(p) + 1 : (u \o q)[i] = u[i]
  BY <1>1, <1>2, <1>3
<1>5. ASSUME NEW i \in 1 .. Len(q) PROVE (u \o q)[Len(p) + 1 + i] = q[i]
  BY <1>1, <1>2, <1>3
<1>6. QED BY <1>1, <1>2, <1>3, <1>4, <1>5 DEF u, d, Delimit

(* The last delimiter of a text tells where its last part begins, because  *)
(* no part holds one.                                                      *)
LEMMA LastDelimiter ==
  ASSUME NEW x \in Seq(Part), NEW y \in Seq(Part),
         NEW a, IsText(a), NEW b, IsText(b),
         Delimit(x, a) = Delimit(y, b)
  PROVE  x = y /\ a = b
<1>1. ASSUME NEW p \in Seq(Part), NEW q, IsText(q), NEW t, t = Delimit(p, q)
      PROVE  /\ Len(t) = Len(p) + 1 + Len(q) /\ t[Len(p) + 1] = keyDelim
             /\ \A i \in 1 .. Len(p) : t[i] = p[i]
             /\ \A i \in 1 .. Len(q) : t[Len(p) + 1 + i] = q[i]
  <2>1. q \in Seq(Part)
    BY <1>1 DEF IsText
  <2>2. QED BY <1>1, <2>1, Delimited, ZenonT(60)
<1>2. a \in Seq(Part) /\ b \in Seq(Part)
  BY DEF IsText
<1> DEFINE s == Delimit(x, a)
<1>3. /\ Len(s) = Len(x) + 1 + Len(a) /\ s[Len(x) + 1] = keyDelim
      /\ \A i \in 1 .. Len(x) : s[i] = x[i]
      /\ \A i \in 1 .. Len(a) : s[Len(x) + 1 + i] = a[i]
  BY <1>1
<1>4. /\ Len(s) = Len(y) + 1 + Len(b) /\ s[Len(y) + 1] = keyDelim
      /\ \A i \in 1 .. Len(y) : s[i] = y[i]
      /\ \A i \in 1 .. Len(b) : s[Len(y) + 1 + i] = b[i]
  <2>1. s = Delimit(y, b)
    OBVIOUS
  <2> HIDE DEF s
  <2>2. QED BY <1>1, <2>1
<1> HIDE DEF s
<1>5. /\ Len(x) \in Nat /\ Len(y) \in Nat /\ Len(a) \in Nat /\ Len(b) \in Nat
      /\ Len(x) - Len(y) \in Int /\ Len(y) - Len(x) \in Int
  <2>1. \A m, n \in Nat : m - n \in Int
    OBVIOUS
  <2>2. Len(x) \in Nat /\ Len(y) \in Nat /\ Len(a) \in Nat /\ Len(b) \in Nat
    BY <1>2
  <2>3. QED BY <2>1, <2>2
<1>6. /\ \A i \in 1 .. Len(a) : a[i] # keyDelim
      /\ \A i \in 1 .. Len(b) : b[i] # keyDelim
  BY <1>2 DEF IsText
<1>7. ASSUME Len(x) < Len(y) PROVE FALSE
  <2>1. PICK i \in Int : i = Len(y) - Len(x)
    BY <1>5, Zenon
  <2>2. i \in 1 .. Len(a) /\ Len(y) + 1 = Len(x) + 1 + i
    BY <1>3, <1>4, <1>5, <1>7, <2>1
  <2>3. s[Len(x) + 1 + i] = a[i] /\ a[i] # keyDelim
    BY <1>3, <1>6, <2>2
  <2>4. QED BY <1>4, <2>2, <2>3
<1>8. ASSUME Len(y) < Len(x) PROVE FALSE
  <2>1. PICK i \in Int : i = Len(x) - Len(y)
    BY <1>5, Zenon
  <2>2. i \in 1 .. Len(b) /\ Len(x) + 1 = Len(y) + 1 + i
    BY <1>3, <1>4, <1>5, <1>8, <2>1
  <2>3. s[Len(y) + 1 + i] = b[i] /\ b[i] # keyDelim
    BY <1>4, <1>6, <2>2
  <2>4. QED BY <1>3, <2>2, <2>3
<1>9. Len(x) = Len(y) /\ Len(a) = Len(b)
  BY <1>3, <1>4, <1>5, <1>7, <1>8
<1>10. \A i \in 1 .. Len(x) : x[i] = y[i]
  BY <1>3, <1>4, <1>9
<1>11. \A i \in 1 .. Len(a) : a[i] = b[i]
  BY <1>3, <1>4, <1>9
<1>12. x = y
  BY <1>9, <1>10, SeqEqual
<1>13. a = b
  BY <1>2, <1>9, <1>11, SeqEqual
<1>14. QED BY <1>12, <1>13

(* f runs the parts a up to the n-th into texts, delimiters in between.    *)
RunsUp(a, n, f) ==
  \A i \in 1 .. n : f[i] = IF i = 1 THEN a[1] ELSE Delimit(f[i - 1], a[i])

(* Such texts exist.                                                       *)
LEMMA TupleExists ==
  ASSUME NEW m \in Nat, NEW a \in [1 .. m -> Seq(Part)]
  PROVE  \E f \in [1 .. m -> Seq(Part)] : RunsUp(a, m, f)
<1> DEFINE N == {n \in Nat : n <= m => \E f \in [1 .. n -> Seq(Part)] : RunsUp(a, n, f)}
<1>1. 0 \in N
  <2>1. [i \in 1 .. 0 |-> <<>>] \in [1 .. 0 -> Seq(Part)]
    OBVIOUS
  <2>2. \A f : RunsUp(a, 0, f)
    BY DEF RunsUp
  <2>3. QED BY <2>1, <2>2
<1>2. ASSUME NEW n \in N PROVE n + 1 \in N
  <2>1. n \in Nat /\ n + 1 \in Nat
    OBVIOUS
  <2>2. SUFFICES ASSUME n + 1 <= m
                 PROVE  \E f \in [1 .. n + 1 -> Seq(Part)] : RunsUp(a, n + 1, f)
    BY <2>1
  <2>3. PICK f \in [1 .. n -> Seq(Part)] : RunsUp(a, n, f)
    BY <2>1, <2>2
  <2> DEFINE last == IF n = 0 THEN a[1] ELSE Delimit(f[n], a[n + 1])
             g == [i \in 1 .. n + 1 |-> IF i = n + 1 THEN last ELSE f[i]]
  <2>4. last \in Seq(Part)
    <3>1. a[n + 1] \in Seq(Part)
      BY <2>1, <2>2
    <3>2. CASE n = 0
      BY <3>1, <3>2
    <3>3. CASE n # 0
      <4>1. f[n] \in Seq(Part)
        BY <2>1, <2>3, <3>3
      <4>2. QED BY <3>1, <3>3, <4>1, Delimited
    <3>4. QED BY <3>2, <3>3
  <2> HIDE DEF last
  <2>5. g \in [1 .. n + 1 -> Seq(Part)]
    <3>1. ASSUME NEW i \in 1 .. n + 1 PROVE g[i] \in Seq(Part)
      BY <2>1, <2>3, <2>4
    <3>2. QED BY <3>1
  <2>6. ASSUME NEW i \in 1 .. n + 1
        PROVE  g[i] = IF i = 1 THEN a[1] ELSE Delimit(g[i - 1], a[i])
    <3>1. CASE i = n + 1
      <4>1. g[i] = last
        BY <3>1
      <4>2. i # 1 => n # 0 /\ i - 1 \in 1 .. n /\ i - 1 = n /\ g[i - 1] = f[n]
        BY <2>1, <3>1
      <4> HIDE DEF g
      <4>3. QED BY <2>1, <3>1, <4>1, <4>2 DEF last
    <3>2. CASE i # n + 1
      <4>1. i \in 1 .. n /\ g[i] = f[i] /\ (i # 1 => i - 1 \in 1 .. n /\ g[i - 1] = f[i - 1])
        BY <2>1, <3>2
      <4> HIDE DEF g
      <4>2. QED BY <2>3, <4>1 DEF RunsUp
    <3>3. QED BY <3>1, <3>2
  <2>7. RunsUp(a, n + 1, g)
    BY <2>6 DEF RunsUp
  <2>8. QED BY <2>5, <2>7
<1>3. N = Nat
  <2> HIDE DEF N
  <2>1. N \in SUBSET Nat
    BY DEF N
  <2>2. QED BY <1>1, <1>2, <2>1, NatInduct
<1>4. m \in N
  BY <1>3
<1>5. QED BY <1>4

(* What runs up is a text of parts all along.                              *)
LEMMA RunsUpTexts ==
  ASSUME NEW m \in Nat, NEW a \in [1 .. m -> Seq(Part)], NEW f, RunsUp(a, m, f)
  PROVE  \A i \in 1 .. m : f[i] \in Seq(Part)
<1> DEFINE N == {n \in Nat : n \in 1 .. m => f[n] \in Seq(Part)}
<1>1. 0 \in N
  OBVIOUS
<1>2. ASSUME NEW n \in N PROVE n + 1 \in N
  <2>1. SUFFICES ASSUME n + 1 \in 1 .. m PROVE f[n + 1] \in Seq(Part)
    OBVIOUS
  <2>2. a[n + 1] \in Seq(Part)
    BY <2>1
  <2>3. CASE n = 0
    <3>1. f[1] = a[1]
      BY <2>1, <2>3 DEF RunsUp
    <3>2. QED BY <2>2, <2>3, <3>1
  <2>4. CASE n # 0
    <3>1. n \in 1 .. m /\ f[n] \in Seq(Part) /\ n + 1 # 1 /\ (n + 1) - 1 = n
      BY <2>1, <2>4
    <3>2. f[n + 1] = Delimit(f[n], a[n + 1])
      BY <2>1, <3>1 DEF RunsUp
    <3>3. QED BY <2>2, <3>1, <3>2, Delimited
  <2>5. QED BY <2>3, <2>4
<1>3. N = Nat
  <2> HIDE DEF N
  <2>1. N \in SUBSET Nat
    BY DEF N
  <2>2. QED BY <1>1, <1>2, <2>1, NatInduct
<1>4. QED BY <1>3

(* A tuple of texts, each of them one that a key may hold. *)
Texts(a, n) == a \in [1 .. n -> Seq(Part)] /\ \A i \in 1 .. n : IsText(a[i])

(* Two tuples of texts run up to the same text only if they are the same:  *)
(* the delimiter keeps <<"a", "bc">> and <<"ab", "c">> apart.              *)
LEMMA RunTogether ==
  ASSUME NEW m \in Nat, m > 0,
         NEW a, Texts(a, m), NEW f, RunsUp(a, m, f),
         NEW b, Texts(b, m), NEW g, RunsUp(b, m, g)
  PROVE  f[m] = g[m] <=> \A i \in 1 .. m : a[i] = b[i]
<1> DEFINE Same(n) == \A i \in 1 .. n : a[i] = b[i]
           N == {n \in Nat : n \in 1 .. m => (f[n] = g[n] <=> Same(n))}
<1>1. 0 \in N
  OBVIOUS
<1>2. ASSUME NEW n \in N PROVE n + 1 \in N
  <2>1. SUFFICES ASSUME n + 1 \in 1 .. m PROVE f[n + 1] = g[n + 1] <=> Same(n + 1)
    OBVIOUS
  <2>2. /\ IsText(a[n + 1]) /\ IsText(b[n + 1])
        /\ a \in [1 .. m -> Seq(Part)] /\ b \in [1 .. m -> Seq(Part)]
    BY <2>1 DEF Texts
  <2>3. CASE n = 0
    <3>1. f[1] = a[1] /\ g[1] = b[1]
      BY <2>1, <2>3 DEF RunsUp
    <3>2. Same(1) <=> a[1] = b[1]
      OBVIOUS
    <3>3. QED BY <2>3, <3>1, <3>2
  <2>4. CASE n # 0
    <3>1. n \in 1 .. m /\ n + 1 # 1 /\ (n + 1) - 1 = n
      BY <2>1, <2>4
    <3>2. f[n + 1] = Delimit(f[n], a[n + 1]) /\ g[n + 1] = Delimit(g[n], b[n + 1])
      BY <2>1, <3>1 DEF RunsUp
    <3>3. f[n] \in Seq(Part) /\ g[n] \in Seq(Part)
      BY <2>2, <3>1, RunsUpTexts
    <3>4. f[n + 1] = g[n + 1] <=> f[n] = g[n] /\ a[n + 1] = b[n + 1]
      <4>1. ASSUME f[n + 1] = g[n + 1] PROVE f[n] = g[n] /\ a[n + 1] = b[n + 1]
        <5>1. Delimit(f[n], a[n + 1]) = Delimit(g[n], b[n + 1])
          BY <3>2, <4>1
        <5>2. QED BY <2>2, <3>3, <5>1, LastDelimiter
      <4>2. ASSUME f[n] = g[n], a[n + 1] = b[n + 1] PROVE f[n + 1] = g[n + 1]
        BY <3>2, <4>2
      <4>3. QED BY <4>1, <4>2
    <3>5. Same(n + 1) <=> Same(n) /\ a[n + 1] = b[n + 1]
      <4>1. \A i \in 1 .. n + 1 : i = n + 1 \/ i \in 1 .. n
        BY <3>1
      <4>2. n + 1 \in 1 .. n + 1 /\ \A i \in 1 .. n : i \in 1 .. n + 1
        BY <3>1
      <4>3. QED BY <4>1, <4>2
    <3>6. f[n] = g[n] <=> Same(n)
      BY <3>1
    <3> HIDE DEF Same
    <3>7. QED BY <3>4, <3>5, <3>6
  <2>5. QED BY <2>3, <2>4
<1>3. N = Nat
  <2> HIDE DEF N
  <2>1. N \in SUBSET Nat
    BY DEF N
  <2>2. QED BY <1>1, <1>2, <2>1, NatInduct
<1>4. m \in N
  <2> HIDE DEF N
  <2>1. QED BY <1>3
<1>5. m \in 1 .. m
  OBVIOUS
<1>6. QED BY <1>4, <1>5

--------------------------------------------------------------------------------
(* The index.                                                              *)


(* What a storage can answer as a cell.                                    *)
IsCell(value) == value \in {NoText, TornJSON} \/ IsText(value)
HasCells(row) == \A n \in DOMAIN row : IsCell(row[n])

Parts(row) == [i \in 1 .. Len(keys) |-> row[keys[i]]]

(* A row that has a key has a text for every key column.                   *)
LEMMA KeyTexts ==
  ASSUME IsList(keys), NEW row, HasCells(row), HasKey(row)
  PROVE  /\ Len(keys) \in Nat /\ DOMAIN keys = 1 .. Len(keys)
         /\ \A i \in 1 .. Len(keys) : IsText(row[keys[i]])
         /\ Parts(row) \in [1 .. Len(keys) -> Seq(Part)]
<1>1. Len(keys) \in Nat /\ DOMAIN keys = 1 .. Len(keys)
  BY LenProperties DEF IsList
<1>2. ASSUME NEW i \in 1 .. Len(keys) PROVE IsText(row[keys[i]])
  <2>1. keys[i] \in KeyColumns
    BY <1>1 DEF KeyColumns
  <2>2. keys[i] \in DOMAIN row /\ row[keys[i]] \notin {NoText, TornJSON}
    BY <2>1 DEF HasKey, Joinable
  <2>3. QED BY <2>2 DEF HasCells, IsCell
<1>3. Parts(row) \in [1 .. Len(keys) -> Seq(Part)]
  BY <1>2 DEF Parts, IsText
<1>4. QED BY <1>1, <1>2, <1>3

(* keyTuple runs the parts of the key up.                                  *)
LEMMA KeyTupleRuns ==
  ASSUME IsList(keys), NEW row, HasCells(row), HasKey(row)
  PROVE  \E f : RunsUp(Parts(row), Len(keys), f) /\ KeyTuple(row) = f[Len(keys)]
<1> DEFINE n == Len(keys)
           RowRuns(u) ==
             u = [i \in 1 .. n |-> IF i = 1 THEN row[keys[1]]
                                   ELSE u[i - 1] \o <<keyDelim>> \o row[keys[i]]]
           f == CHOOSE u : RowRuns(u)
<1>1. KeyTuple(row) = f[n]
  BY DEF KeyTuple
<1>2. n \in Nat /\ Parts(row) \in [1 .. n -> Seq(Part)]
  BY KeyTexts
<1>3. PICK g \in [1 .. n -> Seq(Part)] : RunsUp(Parts(row), n, g)
  BY <1>2, TupleExists
<1>4. \A i \in 1 .. n : Parts(row)[i] = row[keys[i]]
  BY DEF Parts
<1>5. \A i \in 1 .. n : 1 \in 1 .. n
  BY <1>2
<1> HIDE DEF n
<1>6. RowRuns(g)
  BY <1>3, <1>4, <1>5, ZenonT(60) DEF RunsUp, Delimit
<1>7. RowRuns(f)
  BY <1>6
<1> HIDE DEF f
<1>8. RunsUp(Parts(row), n, f)
  BY <1>4, <1>5, <1>7 DEF RunsUp, Delimit
<1>9. QED BY <1>1, <1>8 DEF n

(* The texts of two key tuples are the same when the keys are.             *)
LEMMA TuplesAgree ==
  ASSUME IsList(keys), keys # <<>>,
         NEW l, HasCells(l), HasKey(l), NEW r, HasCells(r), HasKey(r)
  PROVE  KeyTuple(l) = KeyTuple(r) <=> \A i \in DOMAIN keys : l[keys[i]] = r[keys[i]]
<1>1. PICK f : RunsUp(Parts(l), Len(keys), f) /\ KeyTuple(l) = f[Len(keys)]
  BY KeyTupleRuns
<1>2. PICK g : RunsUp(Parts(r), Len(keys), g) /\ KeyTuple(r) = g[Len(keys)]
  BY KeyTupleRuns
<1>3. PICK n : n = Len(keys)
  OBVIOUS
<1>4. /\ n \in Nat /\ DOMAIN keys = 1 .. n
      /\ \A i \in 1 .. n : IsText(l[keys[i]]) /\ IsText(r[keys[i]])
      /\ Parts(l) \in [1 .. n -> Seq(Part)] /\ Parts(r) \in [1 .. n -> Seq(Part)]
  BY <1>3, KeyTexts
<1>5. n > 0
  <2>1. ASSUME n = 0 PROVE FALSE
    BY <1>3, <2>1, EmptySeq DEF IsList
  <2>2. QED BY <1>4, <2>1
<1>6. \A i \in 1 .. n : Parts(l)[i] = l[keys[i]] /\ Parts(r)[i] = r[keys[i]]
  BY <1>3 DEF Parts
<1>7. \A i \in 1 .. n : IsText(Parts(l)[i]) /\ IsText(Parts(r)[i])
  BY <1>4, <1>6
<1>8. f[n] = g[n] <=> \A i \in 1 .. n : Parts(l)[i] = Parts(r)[i]
  <2>1. PICK a, b : a = Parts(l) /\ b = Parts(r)
    OBVIOUS
  <2>2. Texts(a, n) /\ Texts(b, n) /\ RunsUp(a, n, f) /\ RunsUp(b, n, g)
    BY <1>1, <1>2, <1>3, <1>4, <1>7, <2>1 DEF Texts
  <2>3. f[n] = g[n] <=> \A i \in 1 .. n : a[i] = b[i]
    BY <1>4, <1>5, <2>2, RunTogether
  <2>4. QED BY <2>1, <2>3
<1>9. QED BY <1>1, <1>2, <1>3, <1>4, <1>6, <1>8

(* Rows that agree have a key, and the same.                               *)
LEMMA AgreeOnKeys ==
  ASSUME NEW l, NEW r
  PROVE  Agree(l, r) <=> /\ HasKey(l) /\ HasKey(r)
                         /\ \A i \in DOMAIN keys : l[keys[i]] = r[keys[i]]
  BY DEF Agree, HasKey, KeyColumns

(* The index finds for a left row the right rows that agree with it, and   *)
(* no other.                                                               *)
LEMMA IndexFindsTheAgreeing ==
  ASSUME IsList(keys), keys # <<>>, NEW row, HasCells(row),
         \A j \in DOMAIN tables.right.rows : HasCells(tables.right.rows[j])
  PROVE  MatchesOf(row) = {j \in DOMAIN tables.right.rows : Agree(row, tables.right.rows[j])}
<1> DEFINE R == tables.right.rows
           keyed == {j \in DOMAIN R : HasKey(R[j])}
           tuples == {KeyTuple(R[j]) : j \in keyed}
<1>1. Index = [t \in tuples |-> {j \in keyed : KeyTuple(R[j]) = t}]
  BY DEF Index
<1>2. ASSUME HasKey(row)
      PROVE  \A j \in keyed : KeyTuple(R[j]) = KeyTuple(row) <=> Agree(row, R[j])
  BY <1>2, TuplesAgree, AgreeOnKeys
<1>3. \A j \in DOMAIN R : Agree(row, R[j]) => HasKey(row) /\ j \in keyed
  BY AgreeOnKeys
<1>4. CASE ~HasKey(row)
  BY <1>3, <1>4 DEF MatchesOf
<1>5. CASE HasKey(row) /\ KeyTuple(row) \notin tuples
  <2>1. MatchesOf(row) = {}
    BY <1>1, <1>5, Zenon DEF MatchesOf
  <2>2. QED BY <1>2, <1>3, <1>5, <2>1
<1>6. CASE HasKey(row) /\ KeyTuple(row) \in tuples
  <2>1. MatchesOf(row) = {j \in keyed : KeyTuple(R[j]) = KeyTuple(row)}
    BY <1>1, <1>6 DEF MatchesOf
  <2>2. QED BY <1>2, <1>3, <1>6, <2>1
<1>7. QED BY <1>4, <1>5, <1>6

--------------------------------------------------------------------------------
(* The invariant: each variable holds what the stages before left in it.   *)

Loaded(s) ==
  LET side == input.sides[s]
  IN  /\ Tabled(side) /\ tables[s] = ResultToTable(side)
      /\ notes[s] = side.notes \cup (IF IsTruncated(side) THEN {truncated} ELSE {})

TablesOK ==
  /\ input \in Input
  /\ DOMAIN tables = Side /\ DOMAIN notes = Side
  /\ \A s \in Side : tables[s] = NoTable \/ Loaded(s)
  /\ stage \notin {"mode", "left", "refused"} => Loaded("left")
  /\ stage \notin {"mode", "left", "right", "refused"} => Loaded("right")

Joining == {"rows", "done", "rendered"}
KeysOK == stage \in {"index"} \cup Joining => IsList(keys) /\ keys # <<>>

Agreeing ==
  {p \in (DOMAIN tables.left.rows) \X (DOMAIN tables.right.rows) :
     Agree(tables.left.rows[p[1]], tables.right.rows[p[2]])}
Unmatched ==
  {i \in DOMAIN tables.left.rows :
     \A j \in DOMAIN tables.right.rows : ~Agree(tables.left.rows[i], tables.right.rows[j])}

(* A row has a left row's cells and, under their names in the answer, a    *)
(* right row's but its keys.                                               *)
IsMerge(row, l, r) ==
  LET others == DOMAIN r \ KeyColumns
  IN  /\ DOMAIN row = DOMAIN l \cup {Renamed(n) : n \in others}
      /\ \A n \in DOMAIN row :
           \/ \E m \in others : n = Renamed(m) /\ row[n] = r[m]
           \/ n \in DOMAIN l /\ row[n] = l[n] /\ \A m \in others : n # Renamed(m)

IsInnerJoin ==
  /\ input.op = "and" /\ joined.columns = MergedColumns
  /\ pending \cup DOMAIN joined.rows = Agreeing
  /\ \A p \in DOMAIN joined.rows :
       IsMerge(joined.rows[p], tables.left.rows[p[1]], tables.right.rows[p[2]])
IsAntiJoin ==
  /\ input.op # "and" /\ joined.columns = tables.left.columns /\ pending = {}
  /\ joined.rows = [p \in Unmatched \X {0} |-> tables.left.rows[p[1]]]

JoinedOK ==
  /\ DOMAIN joined = {"columns", "rows", "notes"}
  /\ stage \notin Joining => pending = {} /\ DOMAIN joined.rows = {}
  /\ stage \in Joining => IsInnerJoin \/ IsAntiJoin
  /\ stage \in {"done", "rendered"} => pending = {} /\ joined.notes = Feedback

WireOK == wire = IF stage = "rendered" THEN RenderedTable ELSE NoWire

Invariant == stage \in Stage /\ TablesOK /\ KeysOK /\ JoinedOK /\ WireOK

(* Lists with their elements.                                              *)
LEMMA ListsAreLists ==
  /\ \A S : \A s \in Seq(S) : IsList(s)
  /\ \A n \in Nat : \A s : s = [i \in 1 .. n |-> s[i]] => IsList(s)
<1>1. ASSUME NEW S, NEW s \in Seq(S) PROVE IsList(s)
  <2>1. s = [i \in 1 .. Len(s) |-> s[i]] /\ Len(s) \in Nat
    BY LenProperties
  <2>2. QED BY <2>1, SeqDef DEF IsList
<1>2. ASSUME NEW n \in Nat, NEW s, s = [i \in 1 .. n |-> s[i]] PROVE IsList(s)
  <2>1. DOMAIN s = 1 .. n
    BY <1>2
  <2>2. s \in [1 .. n -> {s[i] : i \in DOMAIN s}]
    BY <1>2, <2>1
  <2>3. QED BY <2>2, SeqDef DEF IsList
<1>3. QED BY <1>1, <1>2

(* The keys are a list.                                                    *)
LEMMA KeysAreAList ==
  ASSUME TablesOK, Loaded("left"), Loaded("right")
  PROVE  IsList(ResolvedKeys)
<1> DEFINE shared == (tables.left.columns \cap tables.right.columns) \ input.ignoring
<1>1. input.on \in Seq(Seq(Part)) /\ tables.left.columns \subseteq Name
  BY InputAssumption DEF TablesOK, Loaded, Side
<1>2. IsFiniteSet(shared)
  BY <1>1, NamesAssumption, FS_Subset
<1>3. Cardinality(shared) \in Nat
  BY <1>2, FS_CardinalityType
<1>4. IsList(Sorted(shared))
  <2>1. PICK n \in Nat : n = Cardinality(shared)
    BY <1>3
  <2>2. PICK s : s = Sorted(shared)
    OBVIOUS
  <2> DEFINE ith(i) ==
        CHOOSE c \in shared : Cardinality({d \in shared : <<d, c>> \in NameLess}) = i - 1
  <2>3. s = [i \in 1 .. n |-> s[i]]
    <3>1. s = [i \in 1 .. n |-> ith(i)]
      BY <2>1, <2>2 DEF Sorted
    <3> HIDE DEF ith
    <3>2. QED BY <3>1
  <2>4. QED BY <2>2, <2>3, ListsAreLists
<1>5. QED BY <1>1, <1>4, ListsAreLists DEF ResolvedKeys

(* The rows of a table hold cells.                                         *)
LEMMA TablesHaveCells ==
  ASSUME TablesOK, NEW s \in Side, Loaded(s)
  PROVE  \A i \in DOMAIN tables[s].rows : HasCells(tables[s].rows[i])
<1>1. tables[s].rows = Rows(input.sides[s])
  BY DEF Loaded, ResultToTable
<1>2. DOMAIN Rows(input.sides[s]) = DOMAIN input.sides[s].items
  BY DEF Rows
<1>3. QED BY <1>1, <1>2, InputAssumption DEF TablesOK, Loaded, HasCells, IsCell

(* What the two joins find, in terms of the keys.                          *)
LEMMA MatchesAgree ==
  ASSUME TablesOK, Loaded("left"), Loaded("right"), IsList(keys), keys # <<>>
  PROVE  \A i \in DOMAIN tables.left.rows :
           MatchesOf(tables.left.rows[i])
             = {j \in DOMAIN tables.right.rows :
                  Agree(tables.left.rows[i], tables.right.rows[j])}
<1>1. \A j \in DOMAIN tables.right.rows : HasCells(tables.right.rows[j])
  BY TablesHaveCells DEF Side
<1>2. \A i \in DOMAIN tables.left.rows : HasCells(tables.left.rows[i])
  BY TablesHaveCells DEF Side
<1>3. QED BY <1>1, <1>2, IndexFindsTheAgreeing

(* What the stages read stays as it is as long as the tables and keys do.  *)
LEMMA SameTables ==
  ASSUME UNCHANGED <<input, tables, notes, keys>>
  PROVE  /\ \A s : Loaded(s)' <=> Loaded(s)
         /\ MergedColumns' = MergedColumns /\ Feedback' = Feedback
         /\ Agreeing' = Agreeing /\ Unmatched' = Unmatched
         /\ \A row, l, r : IsMerge(row, l, r)' <=> IsMerge(row, l, r)
<1>1. \A s : Loaded(s)' <=> Loaded(s)
  BY Zenon DEF Loaded
<1>2. \A n : Renamed(n)' = Renamed(n)
  BY DEF Renamed
<1>3. KeyColumns' = KeyColumns
  BY DEF KeyColumns
<1>4. MergedColumns' = MergedColumns /\ Feedback' = Feedback
  BY <1>2, <1>3 DEF MergedColumns, Feedback
<1>5. \A l, r : Agree(l, r)' <=> Agree(l, r)
  BY DEF Agree
<1>6. Agreeing' = Agreeing /\ Unmatched' = Unmatched
  BY <1>5 DEF Agreeing, Unmatched
<1>7. \A row, l, r : IsMerge(row, l, r)' <=> IsMerge(row, l, r)
  BY <1>2, <1>3 DEF IsMerge
<1>8. QED BY <1>1, <1>4, <1>6, <1>7

(* Nothing is loaded, indexed or answered to begin with. *)
LEMMA InvariantInit == Init => Invariant
  BY DEF Init, Invariant, Stage, TablesOK, KeysOK, JoinedOK, WireOK, Joining, NoRows, Side

(* Loading a side leaves in its table what resultToTable makes of the answer, and a side with
   no table refuses the call. *)
LEMMA NormalizeKeeps ==
  ASSUME Invariant, NEW s \in Side, NEW next,
         (s = "left" /\ next = "right") \/ (s = "right" /\ next = "keys"), Normalize(s, next)
  PROVE  Invariant'
<1>1. CASE Refuse
  <2>1. /\ stage \notin Joining /\ stage \notin {"rendered"} /\ stage' = "refused"
        /\ UNCHANGED <<input, tables, notes, keys, pending, joined, wire>>
    BY <1>1 DEF Normalize, Refuse, Joining
  <2>2. TablesOK'
    BY <2>1, SameTables DEF Invariant, TablesOK
  <2>3. QED
    BY <2>1, <2>2 DEF Invariant, KeysOK, JoinedOK, WireOK, Joining, Stage
<1>2. CASE ~Refuse
  <2>1. /\ stage = s /\ Tabled(input.sides[s])
        /\ tables' = [tables EXCEPT ![s] = ResultToTable(input.sides[s])]
        /\ notes' = [notes EXCEPT ![s] =
             input.sides[s].notes \cup (IF IsTruncated(input.sides[s]) THEN {truncated} ELSE {})]
        /\ stage' = next /\ UNCHANGED <<input, keys, pending, joined, wire>>
    BY <1>2, Zenon DEF Normalize
  <2>2. Loaded(s)'
    BY <2>1 DEF Loaded, Invariant, TablesOK
  <2>3. \A t \in Side : t # s /\ Loaded(t) => Loaded(t)'
    BY <2>1 DEF Loaded, Invariant, TablesOK
  <2>4. \A t \in Side : t # s => tables'[t] = tables[t]
    BY <2>1 DEF Invariant, TablesOK
  <2>5. s = "right" => Loaded("left")
    BY <2>1 DEF Invariant, TablesOK
  <2>6. /\ input' \in Input /\ DOMAIN tables' = Side /\ DOMAIN notes' = Side
        /\ \A t \in Side : tables'[t] = NoTable \/ Loaded(t)'
    BY <2>1, <2>2, <2>3, <2>4 DEF Invariant, TablesOK
  <2>7. TablesOK'
    BY <2>1, <2>2, <2>3, <2>5, <2>6 DEF TablesOK, Side
  <2>8. KeysOK' /\ JoinedOK' /\ WireOK' /\ stage' \in Stage
    BY <2>1 DEF Invariant, KeysOK, JoinedOK, WireOK, Joining, Stage
  <2>9. QED BY <2>7, <2>8 DEF Invariant
<1>3. QED BY <1>1, <1>2

(* The keys are settled once both tables are loaded: a list that is not empty, or the call is
   refused. *)
LEMMA KeysKeep ==
  ASSUME Invariant, ResolveKeys
  PROVE  Invariant'
<1>1. CASE Refuse
  <2>1. /\ stage = "keys" /\ stage' = "refused"
        /\ UNCHANGED <<input, tables, notes, keys, pending, joined, wire>>
    BY <1>1 DEF ResolveKeys, Refuse
  <2>2. TablesOK'
    BY <2>1, SameTables DEF Invariant, TablesOK
  <2>3. QED
    BY <2>1, <2>2 DEF Invariant, KeysOK, JoinedOK, WireOK, Joining, Stage
<1>2. CASE ~Refuse
  <2>1. /\ stage = "keys" /\ ResolvedKeys # <<>> /\ keys' = ResolvedKeys /\ stage' = "index"
        /\ UNCHANGED <<input, tables, notes, pending, joined, wire>>
    BY <1>2 DEF ResolveKeys
  <2>2. TablesOK /\ Loaded("left") /\ Loaded("right")
    BY <2>1 DEF Invariant, TablesOK
  <2>3. IsList(keys')
    BY <2>1, <2>2, KeysAreAList
  <2>4. KeysOK'
    BY <2>1, <2>3 DEF KeysOK, IsList
  <2>5. \A t : Loaded(t)' <=> Loaded(t)
    BY <2>1, Zenon DEF Loaded
  <2>6. TablesOK'
    BY <2>1, <2>2, <2>5 DEF TablesOK
  <2>7. QED
    BY <2>1, <2>4, <2>6 DEF Invariant, JoinedOK, WireOK, Joining, Stage
<1>3. QED BY <1>1, <1>2

(* What mergeRow makes of two rows is a merge of them.                     *)
LEMMA MergedRowsAreMerges ==
  ASSUME NEW l, NEW r, NEW row \in MergedRows(l, r)
  PROVE  IsMerge(row, l, r)
<1> DEFINE others == DOMAIN r \ KeyColumns
           names == {Renamed(n) : n \in others}
<1>1. PICK f \in [names -> others] :
        /\ \A n \in names : Renamed(f[n]) = n
        /\ row = [n \in DOMAIN l \cup names |-> IF n \in names THEN r[f[n]] ELSE l[n]]
  BY DEF MergedRows
<1>2. ASSUME NEW n \in names
      PROVE  \E m \in others : n = Renamed(m) /\ row[n] = r[m]
  BY <1>1
<1>3. ASSUME NEW n \in DOMAIN l, n \notin names
      PROVE  row[n] = l[n] /\ \A m \in others : n # Renamed(m)
  BY <1>1, <1>3
<1>4. DOMAIN row = DOMAIN l \cup names
  BY <1>1
<1>5. QED BY <1>2, <1>3, <1>4 DEF IsMerge

(* From the index on.                                                      *)
LEMMA JoiningStage ==
  ASSUME Invariant, stage \in {"index"} \cup Joining
  PROVE  /\ TablesOK /\ Loaded("left") /\ Loaded("right") /\ IsList(keys) /\ keys # <<>>
         /\ UNCHANGED <<input, tables, notes, keys>> /\ stage' \in {"index"} \cup Joining
              => TablesOK' /\ KeysOK'
<1>1. TablesOK /\ Loaded("left") /\ Loaded("right") /\ IsList(keys) /\ keys # <<>>
  BY DEF Invariant, TablesOK, KeysOK, Joining
<1>2. ASSUME UNCHANGED <<input, tables, notes, keys>>, stage' \in {"index"} \cup Joining
      PROVE  TablesOK' /\ KeysOK'
  <2>1. TablesOK'
    BY <1>1, <1>2, SameTables DEF TablesOK
  <2>2. KeysOK'
    BY <1>1, <1>2 DEF KeysOK, IsList
  <2>3. QED BY <2>1, <2>2
<1>3. QED BY <1>1, <1>2

(* An inner join sets out to merge exactly the pairs of rows that agree on the keys. *)
LEMMA InnerJoinKeeps ==
  ASSUME Invariant, InnerJoin
  PROVE  Invariant'
<1>1. /\ stage = "index" /\ input.op = "and" /\ stage' = "rows"
      /\ pending' = UNION {{i} \X MatchesOf(tables.left.rows[i]) : i \in DOMAIN tables.left.rows}
      /\ joined' = [joined EXCEPT !.columns = MergedColumns]
      /\ UNCHANGED <<input, tables, notes, keys, wire>>
  BY DEF InnerJoin
<1>2. /\ TablesOK /\ Loaded("left") /\ Loaded("right") /\ IsList(keys) /\ keys # <<>>
      /\ TablesOK' /\ KeysOK'
  BY <1>1, JoiningStage DEF Joining
<1>3. DOMAIN joined = {"columns", "rows", "notes"} /\ DOMAIN joined.rows = {} /\ wire = NoWire
  BY <1>1 DEF Invariant, JoinedOK, WireOK, Joining
<1>4. /\ DOMAIN joined' = {"columns", "rows", "notes"} /\ joined'.columns = MergedColumns
      /\ DOMAIN joined'.rows = {}
  BY <1>1, <1>3
<1>5. pending' = Agreeing
  <2>1. \A i \in DOMAIN tables.left.rows :
          MatchesOf(tables.left.rows[i])
            = {j \in DOMAIN tables.right.rows :
                 Agree(tables.left.rows[i], tables.right.rows[j])}
    BY <1>2, MatchesAgree
  <2>2. ASSUME NEW p \in pending' PROVE p \in Agreeing
    <3>1. PICK i \in DOMAIN tables.left.rows : p \in {i} \X MatchesOf(tables.left.rows[i])
      BY <1>1
    <3>2. PICK j \in DOMAIN tables.right.rows :
            p = <<i, j>> /\ Agree(tables.left.rows[i], tables.right.rows[j])
      BY <2>1, <3>1
    <3>3. QED BY <3>2 DEF Agreeing
  <2>3. ASSUME NEW p \in Agreeing PROVE p \in pending'
    <3>1. PICK i \in DOMAIN tables.left.rows, j \in DOMAIN tables.right.rows :
            p = <<i, j>> /\ Agree(tables.left.rows[i], tables.right.rows[j])
      BY DEF Agreeing
    <3>2. j \in MatchesOf(tables.left.rows[i])
      BY <2>1, <3>1
    <3>3. p \in {i} \X MatchesOf(tables.left.rows[i])
      BY <3>1, <3>2
    <3>4. QED BY <1>1, <3>3
  <2>4. QED BY <2>2, <2>3
<1>6. IsInnerJoin'
  BY <1>1, <1>4, <1>5, SameTables DEF IsInnerJoin
<1>7. JoinedOK'
  BY <1>1, <1>4, <1>6 DEF JoinedOK, Joining
<1>8. QED BY <1>1, <1>2, <1>3, <1>7 DEF Invariant, WireOK, Stage

(* The next pair of rows to merge becomes a merge of the two, and no other. *)
LEMMA MergeRowKeeps ==
  ASSUME Invariant, MergeRow
  PROVE  Invariant'
<1>1. PICK p \in pending :
        /\ stage = "rows" /\ stage' = "rows"
        /\ pending' = pending \ {p}
        /\ \E row \in MergedRows(tables.left.rows[p[1]], tables.right.rows[p[2]]) :
             joined' = [joined EXCEPT !.rows = Put(joined.rows, p, row)]
        /\ UNCHANGED <<input, tables, notes, keys, wire>>
  BY DEF MergeRow
<1>2. PICK row \in MergedRows(tables.left.rows[p[1]], tables.right.rows[p[2]]) :
        joined' = [joined EXCEPT !.rows = Put(joined.rows, p, row)]
  BY <1>1
<1>3. /\ TablesOK' /\ KeysOK' /\ wire = NoWire
      /\ DOMAIN joined = {"columns", "rows", "notes"} /\ (IsInnerJoin \/ IsAntiJoin)
  BY <1>1, JoiningStage DEF Invariant, JoinedOK, WireOK, Joining
<1>4. IsInnerJoin
  BY <1>1, <1>3 DEF IsAntiJoin
<1>5. /\ DOMAIN joined' = {"columns", "rows", "notes"} /\ joined'.columns = joined.columns
      /\ joined'.rows = Put(joined.rows, p, row)
  BY <1>2, <1>3
<1>6. /\ DOMAIN joined'.rows = DOMAIN joined.rows \cup {p}
      /\ \A q \in DOMAIN joined'.rows :
           joined'.rows[q] = IF q = p THEN row ELSE joined.rows[q]
  BY <1>5 DEF Put
<1>7. IsInnerJoin'
  <2>1. input'.op = "and" /\ joined'.columns = MergedColumns'
    BY <1>1, <1>4, <1>5, SameTables DEF IsInnerJoin
  <2>2. pending' \cup DOMAIN joined'.rows = Agreeing'
    BY <1>1, <1>4, <1>6, SameTables DEF IsInnerJoin
  <2>3. ASSUME NEW q \in DOMAIN joined'.rows
        PROVE  IsMerge(joined.rows[q], tables.left.rows[q[1]], tables.right.rows[q[2]])'
    <3>1. CASE q = p
      <4>1. IsMerge(row, tables.left.rows[p[1]], tables.right.rows[p[2]])
        BY MergedRowsAreMerges
      <4>2. IsMerge(row, tables.left.rows[p[1]], tables.right.rows[p[2]])'
        BY <1>1, <4>1, SameTables
      <4>3. QED BY <1>6, <3>1, <4>2
    <3>2. CASE q # p
      <4>1. q \in DOMAIN joined.rows /\ joined'.rows[q] = joined.rows[q]
        BY <1>6, <3>2
      <4>2. IsMerge(joined.rows[q], tables.left.rows[q[1]], tables.right.rows[q[2]])
        BY <1>4, <4>1 DEF IsInnerJoin
      <4>3. PICK old : old = joined.rows[q]
        OBVIOUS
      <4>4. IsMerge(old, tables.left.rows[q[1]], tables.right.rows[q[2]])'
        BY <1>1, <4>2, <4>3, SameTables
      <4>5. QED BY <4>1, <4>3, <4>4
    <3>3. QED BY <3>1, <3>2
  <2>4. QED BY <2>1, <2>2, <2>3 DEF IsInnerJoin
<1>8. JoinedOK'
  BY <1>1, <1>5, <1>7 DEF JoinedOK, Joining
<1>9. QED BY <1>1, <1>3, <1>8 DEF Invariant, WireOK, Stage

(* An anti join keeps exactly the left rows that no right row agrees with. *)
LEMMA AntiJoinKeeps ==
  ASSUME Invariant, AntiJoin
  PROVE  Invariant'
<1>1. /\ stage = "index" /\ input.op = "unless" /\ stage' = "rows"
      /\ joined' = [joined EXCEPT !.columns = tables.left.columns,
                                  !.rows = [p \in Kept \X {0} |-> tables.left.rows[p[1]]]]
      /\ UNCHANGED <<input, tables, notes, keys, pending, wire>>
  BY DEF AntiJoin
<1>2. /\ TablesOK /\ Loaded("left") /\ Loaded("right") /\ IsList(keys) /\ keys # <<>>
      /\ TablesOK' /\ KeysOK'
  BY <1>1, JoiningStage DEF Joining
<1>3. DOMAIN joined = {"columns", "rows", "notes"} /\ pending = {} /\ wire = NoWire
  BY <1>1 DEF Invariant, JoinedOK, WireOK, Joining
<1>4. Kept = Unmatched
  BY <1>2, MatchesAgree DEF Kept, Unmatched
<1>5. /\ DOMAIN joined' = {"columns", "rows", "notes"} /\ joined'.columns = tables.left.columns
      /\ joined'.rows = [p \in Unmatched \X {0} |-> tables.left.rows[p[1]]]
  BY <1>1, <1>3, <1>4
<1>6. IsAntiJoin'
  BY <1>1, <1>3, <1>5, SameTables DEF IsAntiJoin
<1>7. JoinedOK'
  BY <1>1, <1>5, <1>6 DEF JoinedOK, Joining
<1>8. QED BY <1>1, <1>2, <1>3, <1>7 DEF Invariant, WireOK, Stage

(* The notifications of both sides go to the joined table, and no row changes. *)
LEMMA FeedbackKeeps ==
  ASSUME Invariant, MergeFeedback
  PROVE  Invariant'
<1>1. /\ stage = "rows" /\ pending = {} /\ stage' = "done"
      /\ joined' = [joined EXCEPT !.notes = Feedback]
      /\ UNCHANGED <<input, tables, notes, keys, pending, wire>>
  BY DEF MergeFeedback
<1>2. /\ TablesOK' /\ KeysOK' /\ wire = NoWire
      /\ DOMAIN joined = {"columns", "rows", "notes"} /\ (IsInnerJoin \/ IsAntiJoin)
  BY <1>1, JoiningStage DEF Invariant, JoinedOK, WireOK, Joining
<1>3. /\ DOMAIN joined' = {"columns", "rows", "notes"} /\ joined'.notes = Feedback
      /\ joined'.columns = joined.columns /\ joined'.rows = joined.rows
  BY <1>1, <1>2
<1>4. (IsInnerJoin \/ IsAntiJoin)'
  <2>1. CASE IsInnerJoin
    <3>1. \A q \in DOMAIN joined.rows :
            IsMerge(joined.rows[q], tables.left.rows[q[1]], tables.right.rows[q[2]])'
      <4>1. PICK rows : rows = joined.rows
        OBVIOUS
      <4>2. \A q \in DOMAIN rows :
              IsMerge(rows[q], tables.left.rows[q[1]], tables.right.rows[q[2]])'
        BY <1>1, <2>1, <4>1, SameTables DEF IsInnerJoin
      <4>3. QED BY <1>3, <4>1, <4>2
    <3>2. QED BY <1>1, <1>3, <2>1, <3>1, SameTables DEF IsInnerJoin
  <2>2. CASE IsAntiJoin
    BY <1>1, <1>3, <2>2, SameTables DEF IsAntiJoin
  <2>3. QED BY <1>2, <2>1, <2>2
<1>5. Feedback' = Feedback
  BY <1>1, SameTables
<1>6. JoinedOK'
  BY <1>1, <1>3, <1>4, <1>5 DEF JoinedOK, Joining
<1>7. QED BY <1>1, <1>2, <1>6 DEF Invariant, WireOK, Stage

(* A step that changes none of the tables keeps what is known of them. *)
LEMMA StayingKeeps ==
  ASSUME Invariant, UNCHANGED <<input, tables, notes, keys, pending, joined>>,
         stage' = stage \/ (stage = "done" /\ stage' = "rendered")
  PROVE  (TablesOK /\ KeysOK /\ JoinedOK /\ stage \in Stage)'
<1>1. TablesOK'
  BY SameTables, Zenon DEF Invariant, TablesOK
<1>2. KeysOK'
  BY DEF Invariant, KeysOK, Joining, IsList
<1>3. IsInnerJoin => IsInnerJoin'
  BY SameTables DEF IsInnerJoin
<1>4. IsAntiJoin => IsAntiJoin'
  BY SameTables DEF IsAntiJoin
<1>5. JoinedOK'
  BY <1>3, <1>4, SameTables DEF Invariant, JoinedOK, Joining
<1>6. QED BY <1>1, <1>2, <1>5 DEF Invariant, Stage

(* The layout of the same joined table is the same.                        *)
LEMMA SameRendering ==
  ASSUME UNCHANGED joined
  PROVE  RenderedTable' = RenderedTable
<1>1. ShownColumns' = ShownColumns
  BY DEF ShownColumns
<1>2. \A row : RenderedRow(row, ShownColumns)' = RenderedRow(row, ShownColumns)
  BY <1>1 DEF RenderedRow
<1>3. QED BY <1>1, <1>2 DEF RenderedTable

(* Every action of the join keeps the invariant. *)
LEMMA InvariantStep == Invariant /\ [Next]_vars => Invariant'
<1> SUFFICES ASSUME Invariant, [Next]_vars PROVE Invariant'
  OBVIOUS
<1>1. CASE ChooseMode
  <2>1. /\ stage = "mode" /\ stage' \in {"left", "refused"}
        /\ UNCHANGED <<input, tables, notes, keys, pending, joined, wire>>
    BY <1>1 DEF ChooseMode, Refuse
  <2>2. TablesOK'
    BY <2>1, SameTables DEF Invariant, TablesOK
  <2>3. QED
    BY <2>1, <2>2 DEF Invariant, KeysOK, JoinedOK, WireOK, Joining, Stage
<1>2. CASE Normalize("left", "right") \/ Normalize("right", "keys")
  <2>1. "left" \in Side /\ "right" \in Side
    BY DEF Side
  <2>2. CASE Normalize("left", "right")
    BY <2>1, <2>2, NormalizeKeeps
  <2>3. CASE Normalize("right", "keys")
    BY <2>1, <2>3, NormalizeKeeps
  <2>4. QED BY <1>2, <2>2, <2>3
<1>3. CASE Render
  <2>1. /\ stage = "done" /\ stage' = "rendered"
        /\ wire' = RenderedTable
        /\ UNCHANGED <<input, tables, notes, keys, pending, joined>>
    BY <1>3 DEF Render
  <2>2. WireOK'
    BY <2>1, SameRendering DEF WireOK
  <2>3. QED BY <2>1, <2>2, StayingKeeps DEF Invariant
<1>4. CASE Done \/ UNCHANGED vars
  <2>1. UNCHANGED <<input, stage, tables, notes, keys, pending, joined, wire>>
    BY <1>4 DEF Done, vars
  <2>2. WireOK'
    BY <2>1, SameRendering DEF Invariant, WireOK
  <2>3. UNCHANGED <<input, tables, notes, keys, pending, joined>> /\ stage' = stage
    BY <2>1
  <2>4. stage' = stage \/ (stage = "done" /\ stage' = "rendered")
    BY <2>3
  <2>5. (TablesOK /\ KeysOK /\ JoinedOK /\ stage \in Stage)'
    BY <2>3, <2>4, StayingKeeps
  <2>6. QED BY <2>2, <2>5 DEF Invariant
<1>5. QED
  BY <1>1, <1>2, <1>3, <1>4, KeysKeep, InnerJoinKeeps, MergeRowKeeps, AntiJoinKeeps,
     FeedbackKeeps DEF Next

(* So the invariant holds of every reachable state. *)
LEMMA InvariantHolds == Spec => []Invariant
  BY InvariantInit, InvariantStep, PTL DEF Spec

(* The variables keep their types, for every input: rows are merged of     *)
(* rows that exist, by keys that are not empty.                            *)
THEOREM TypeCorrect == Spec => []TypeOK
<1>1. Invariant => TypeOK
  <2> SUFFICES ASSUME Invariant PROVE TypeOK
    OBVIOUS
  <2> DEFINE Left == DOMAIN tables.left.rows
             Right == DOMAIN tables.right.rows
  <2>1. pending \subseteq Left \X Right /\ DOMAIN joined.rows \subseteq Left \X (Right \cup {0})
    <3>1. CASE stage \notin Joining
      BY <3>1 DEF Invariant, JoinedOK
    <3>2. CASE IsInnerJoin
      BY <3>2 DEF IsInnerJoin, Agreeing
    <3>3. CASE IsAntiJoin
      BY <3>3 DEF IsAntiJoin, Unmatched
    <3>4. QED BY <3>1, <3>2, <3>3 DEF Invariant, JoinedOK
  <2>2. stage = "rendered" => DOMAIN wire.rows = DOMAIN joined.rows
    BY DEF Invariant, WireOK, RenderedTable
  <2>3. stage \in {"index", "rows", "done", "rendered"} => keys # <<>>
    BY DEF Invariant, KeysOK, Joining
  <2>4. QED BY <2>1, <2>2, <2>3 DEF TypeOK, Invariant, TablesOK
<1>2. QED BY <1>1, InvariantHolds, PTL

(* At either side and in the answer the schema covers the rows, so that    *)
(* clashes are found by the schema, and the answer read by it.             *)
THEOREM SchemaCorrect == Spec => []SchemaCoversRows
<1>1. Invariant => SchemaCoversRows
  <2> SUFFICES ASSUME Invariant PROVE SchemaCoversRows
    OBVIOUS
  <2>1. ASSUME NEW s \in Side PROVE UnionColumns(tables[s].rows) \subseteq tables[s].columns
    <3>1. CASE tables[s] = NoTable
      BY <3>1 DEF NoTable, UnionColumns
    <3>2. CASE Loaded(s)
      BY <3>2 DEF Loaded, ResultToTable
    <3>3. QED BY <3>1, <3>2 DEF Invariant, TablesOK
  <2>2. /\ \A i \in DOMAIN tables.left.rows :
             DOMAIN tables.left.rows[i] \subseteq tables.left.columns
        /\ \A i \in DOMAIN tables.right.rows :
             DOMAIN tables.right.rows[i] \subseteq tables.right.columns
    BY <2>1 DEF UnionColumns, Side
  <2>3. ASSUME NEW p \in DOMAIN joined.rows PROVE DOMAIN joined.rows[p] \subseteq joined.columns
    <3>1. CASE IsInnerJoin
      <4>1. /\ IsMerge(joined.rows[p], tables.left.rows[p[1]], tables.right.rows[p[2]])
            /\ p[1] \in DOMAIN tables.left.rows /\ p[2] \in DOMAIN tables.right.rows
            /\ joined.columns = MergedColumns
        BY <3>1 DEF IsInnerJoin, Agreeing
      <4>2. QED BY <2>2, <4>1 DEF IsMerge, MergedColumns
    <3>2. CASE IsAntiJoin
      BY <2>2, <3>2 DEF IsAntiJoin, Unmatched
    <3>3. QED BY <3>1, <3>2 DEF Invariant, JoinedOK
  <2>4. QED BY <2>1, <2>3 DEF SchemaCoversRows
<1>2. QED BY <1>1, InvariantHolds, PTL

(* AND answers the pairs of rows that agree on the keys, UNLESS the left   *)
(* rows that agree with no right row: the index by the text of the key     *)
(* tuple confuses no two keys, whatever the number of keys and the texts.  *)
THEOREM JoinCorrect == Spec => []JoinsRowsThatAgree
<1>1. Invariant => JoinsRowsThatAgree
  <2> SUFFICES ASSUME Invariant, stage = "done" PROVE JoinsRowsThatAgree
    BY DEF JoinsRowsThatAgree
  <2>1. CASE IsInnerJoin
    BY <2>1 DEF IsInnerJoin, Agreeing, JoinsRowsThatAgree, Invariant, JoinedOK
  <2>2. CASE IsAntiJoin
    BY <2>2 DEF IsAntiJoin, Unmatched, JoinsRowsThatAgree
  <2>3. QED BY <2>1, <2>2 DEF Invariant, JoinedOK, Joining
<1>2. QED BY <1>1, InvariantHolds, PTL

(* No warning of a storage, and none about a series reduced to its latest  *)
(* point, is lost in the join.                                             *)
THEOREM WarningsCorrect == Spec => []WarningsSurviveTheJoin
<1>1. Invariant => WarningsSurviveTheJoin
  <2> SUFFICES ASSUME Invariant, stage = "done", NEW s \in Side
               PROVE  /\ input.sides[s].notes \subseteq joined.notes
                      /\ input.sides[s].kind = "metrics" =>
                           \A i \in DOMAIN input.sides[s].items :
                             Len(input.sides[s].items[i].points) > 1
                               => truncated \in joined.notes
    BY DEF WarningsSurviveTheJoin
  <2>1. Loaded(s) /\ joined.notes = notes.left \cup notes.right
    BY DEF Invariant, TablesOK, JoinedOK, Side, Feedback
  <2>2. notes[s] \subseteq joined.notes
    BY <2>1 DEF Side
  <2>3. QED BY <2>1, <2>2 DEF Loaded, IsTruncated
<1>2. QED BY <1>1, InvariantHolds, PTL

(* The layout of the joined table shows every cell of it, and none that    *)
(* does not encode.                                                        *)
THEOREM RenderingCorrect == Spec => []RenderingShowsEveryCell
<1>1. Invariant => RenderingShowsEveryCell
  <2> SUFFICES ASSUME Invariant, stage = "rendered", NEW p \in DOMAIN joined.rows
               PROVE  /\ \A n \in DOMAIN joined.rows[p] :
                           /\ n \in wire.columns
                           /\ joined.rows[p][n] # TornJSON => wire.rows[p][n] = joined.rows[p][n]
                      /\ \A c \in wire.columns : wire.rows[p][c] # TornJSON
    BY DEF RenderingShowsEveryCell
  <2>1. wire = RenderedTable
    BY DEF Invariant, WireOK
  <2>2. /\ wire.columns = ShownColumns
        /\ \A c \in ShownColumns :
             wire.rows[p][c] = Cell(IF c \in DOMAIN joined.rows[p] THEN joined.rows[p][c]
                                                                   ELSE NoText)
    BY <2>1 DEF RenderedTable, RenderedRow
  <2>3. DOMAIN joined.rows[p] \subseteq ShownColumns
    BY DEF ShownColumns
  <2>4. \A value : Cell(value) # TornJSON /\ (value # TornJSON => Cell(value) = value)
    BY CellsAssumption DEF Cell
  <2>5. QED BY <2>2, <2>3, <2>4
<1>2. QED BY <1>1, InvariantHolds, PTL

--------------------------------------------------------------------------------
(* Names.                                                                  *)

(* A prefix is a part before a name, and is taken off again.               *)
LEMMA Prefixed ==
  ASSUME NEW part, NEW m \in Seq(Part), NEW n \in Seq(Part)
  PROVE  /\ Len(<<part>> \o m) = Len(m) + 1 /\ (<<part>> \o m)[1] = part
         /\ <<part>> \o m = <<part>> \o n => m = n
<1> DEFINE S == Part \cup {part}
<1>1. ASSUME NEW q \in Seq(Part)
      PROVE  /\ q \in Seq(S) /\ Len(q) \in Nat
             /\ Len(<<part>> \o q) = Len(q) + 1 /\ (<<part>> \o q)[1] = part
             /\ \A i \in 1 .. Len(q) : (<<part>> \o q)[i + 1] = q[i]
  <2>1. q \in Seq(S) /\ Len(q) \in Nat
    BY SeqDef
  <2>2. <<part>> \in Seq(S) /\ Len(<<part>>) = 1 /\ <<part>>[1] = part
    OBVIOUS
  <2>3. PICK d : d = <<part>>
    OBVIOUS
  <2> HIDE DEF S
  <2>4. /\ Len(d \o q) = Len(d) + Len(q)
        /\ \A i \in 1 .. Len(d) + Len(q) :
             (d \o q)[i] = IF i <= Len(d) THEN d[i] ELSE q[i - Len(d)]
    BY <2>1, <2>2, <2>3, ConcatProperties
  <2>5. Len(d) = 1 /\ d[1] = part
    BY <2>2, <2>3
  <2>6. (d \o q)[1] = part /\ \A i \in 1 .. Len(q) : (d \o q)[i + 1] = q[i]
    BY <2>1, <2>4, <2>5
  <2>7. QED BY <2>1, <2>3, <2>4, <2>5, <2>6
<1>2. ASSUME <<part>> \o m = <<part>> \o n PROVE m = n
  <2>1. Len(m) = Len(n) /\ \A i \in 1 .. Len(m) : m[i] = n[i]
    BY <1>1, <1>2
  <2>2. QED BY <2>1, SeqEqual
<1>3. QED BY <1>1, <1>2

(* The name of a label called "value".                                     *)
Shadowed == shadowedLabelPrefix \o metricValueColumn

(* It is no other column's name.                                           *)
LEMMA ShadowedLabel ==
  Len(Shadowed) = 2 /\ Shadowed[1] = "label" /\ Shadowed # metricValueColumn
<1>1. Len(Shadowed) = 2 /\ Shadowed[1] = "label"
  BY DEF Shadowed, shadowedLabelPrefix, metricValueColumn
<1>2. Len(metricValueColumn) = 1
  BY DEF metricValueColumn
<1>3. Shadowed # metricValueColumn
  BY <1>1, <1>2
<1>4. QED BY <1>1, <1>3

(* A sample moves a label that is in its way, and no other.                *)
LEMMA SampleMovesOne ==
  ASSUME NEW row, NEW sample, NEW put, put = PutSample(row, sample)
  PROVE  /\ DOMAIN put \subseteq DOMAIN row \cup {metricValueColumn, Shadowed}
         /\ metricValueColumn \in DOMAIN row =>
              Shadowed \in DOMAIN put /\ put[Shadowed] = row[metricValueColumn]
         /\ \A n \in DOMAIN row \ {metricValueColumn, Shadowed} :
              n \in DOMAIN put /\ put[n] = row[n]
<1>1. Shadowed # metricValueColumn
  BY ShadowedLabel
<1>2. CASE metricValueColumn \notin DOMAIN row
  <2>1. put = Put(row, metricValueColumn, sample)
    BY <1>2 DEF PutSample
  <2>2. QED BY <1>2, <2>1 DEF Put
<1>3. CASE metricValueColumn \in DOMAIN row
  <2>1. put = Put(Put(Without(row, metricValueColumn), Shadowed, row[metricValueColumn]),
                  metricValueColumn, sample)
    BY <1>3 DEF PutSample, Shadowed
  <2>2. QED BY <1>1, <1>3, <2>1 DEF Put, Without
<1>4. QED BY <1>2, <1>3

(* The names that are not made by renaming a clash.                        *)
Unprefixed(c) == ~(Len(c) > 1 /\ <<c[1]>> = rightPrefix)

PlainNames(side, i) ==
  \A n \in DOMAIN AttrsOf(side, i) :
    /\ side.kind = "logs" => n # logBodyColumn
    /\ Len(n) > 1 => <<n[1]>> \notin {rightPrefix, shadowedLabelPrefix}

(* A row of a table shows every attribute that it was made of, and has no  *)
(* column that looks like a renamed one.                                   *)
LEMMA RowsShowAttributes ==
  ASSUME NEW side, Tabled(side), NEW i \in DOMAIN side.items, PlainNames(side, i)
  PROVE  LET row == Rows(side)[i]
         IN  /\ \A n \in DOMAIN AttrsOf(side, i) :
                  /\ ColumnOf(side, n) \in DOMAIN row
                  /\ row[ColumnOf(side, n)] = AttrsOf(side, i)[n]
             /\ \A c \in DOMAIN row : Unprefixed(c)
<1> DEFINE item == side.items[i]
           attrs == AttrsOf(side, i)
           row == Rows(side)[i]
<1>1. /\ Unprefixed(metricNameColumn) /\ Unprefixed(metricValueColumn)
      /\ Unprefixed(logBodyColumn) /\ metricNameColumn # metricValueColumn
  BY DEF Unprefixed, metricNameColumn, metricValueColumn, logBodyColumn
<1>2. \A n \in DOMAIN attrs : Unprefixed(n)
  BY DEF PlainNames, Unprefixed
<1>3. CASE side.kind = "table"
  <2>1. row = item /\ attrs = item
    BY <1>3 DEF Rows, AttrsOf
  <2>2. \A n : ColumnOf(side, n) = n
    BY <1>3 DEF ColumnOf
  <2>3. QED BY <1>2, <2>1, <2>2
<1>4. CASE side.kind = "logs"
  <2>1. row = Put(attrs, logBodyColumn, item.body)
    BY <1>4 DEF Rows, AttrsOf, LogRow
  <2>2. \A n : ColumnOf(side, n) = n
    BY <1>4 DEF ColumnOf
  <2>3. \A n \in DOMAIN attrs : n # logBodyColumn
    BY <1>4 DEF PlainNames
  <2> HIDE DEF attrs, row
  <2>4. /\ DOMAIN row = DOMAIN attrs \cup {logBodyColumn}
        /\ \A n \in DOMAIN attrs : row[n] = attrs[n]
    BY <2>1, <2>3 DEF Put
  <2>5. QED BY <1>1, <1>2, <2>2, <2>4 DEF attrs, row
<1>5. CASE side.kind = "metrics"
  <2>1. PICK base :
          base = IF item.name = <<>> \/ metricNameColumn \in DOMAIN attrs
                 THEN attrs ELSE Put(attrs, metricNameColumn, item.name)
    OBVIOUS
  <2>2. row = PutSample(base, LatestValue(item))
    BY <1>5, <2>1 DEF Rows, AttrsOf, MetricRow
  <2>3. \A n \in DOMAIN attrs : n # Shadowed
    BY ShadowedLabel DEF PlainNames, shadowedLabelPrefix
  <2>4. Unprefixed(Shadowed)
    BY ShadowedLabel DEF Unprefixed, rightPrefix
  <2>5. \A n : ColumnOf(side, n) = IF n = metricValueColumn THEN Shadowed ELSE n
    BY <1>5 DEF ColumnOf, Shadowed
  <2> HIDE DEF attrs, row
  <2>6. /\ DOMAIN attrs \subseteq DOMAIN base
        /\ DOMAIN base \subseteq DOMAIN attrs \cup {metricNameColumn}
        /\ \A n \in DOMAIN attrs : base[n] = attrs[n]
    BY <2>1 DEF Put
  <2>7. /\ DOMAIN row \subseteq DOMAIN base \cup {metricValueColumn, Shadowed}
        /\ metricValueColumn \in DOMAIN base =>
             Shadowed \in DOMAIN row /\ row[Shadowed] = base[metricValueColumn]
        /\ \A n \in DOMAIN base \ {metricValueColumn, Shadowed} :
             n \in DOMAIN row /\ row[n] = base[n]
    BY <2>2, SampleMovesOne
  <2>8. ASSUME NEW n \in DOMAIN attrs
        PROVE  ColumnOf(side, n) \in DOMAIN row /\ row[ColumnOf(side, n)] = attrs[n]
    <3>1. CASE n = metricValueColumn
      BY <2>5, <2>6, <2>7, <3>1
    <3>2. CASE n # metricValueColumn
      BY <2>3, <2>5, <2>6, <2>7, <3>2
    <3>3. QED BY <3>1, <3>2
  <2>9. \A c \in DOMAIN row : Unprefixed(c)
    BY <1>1, <1>2, <2>4, <2>6, <2>7
  <2>10. QED BY <2>8, <2>9 DEF attrs, row
<1>6. QED BY <1>3, <1>4, <1>5 DEF Tabled

(* The rows of a side, and the names of their columns.                     *)
LEMMA SideShowsAttributes ==
  ASSUME Invariant, Unambiguous, NEW s \in Side, Loaded(s),
         NEW i, i \in DOMAIN tables[s].rows
  PROVE  /\ \A n \in DOMAIN AttrsOf(input.sides[s], i) :
              /\ ColumnOf(input.sides[s], n) \in DOMAIN tables[s].rows[i]
              /\ tables[s].rows[i][ColumnOf(input.sides[s], n)] = AttrsOf(input.sides[s], i)[n]
         /\ \A c \in DOMAIN tables[s].rows[i] :
              Unprefixed(c) /\ c \in tables[s].columns /\ c \in Seq(Part) \ {<<>>}
<1>1. PICK side : side = input.sides[s]
  OBVIOUS
<1>2. /\ Tabled(side) /\ tables[s].rows = Rows(side)
      /\ tables[s].columns = side.columns \cup UnionColumns(Rows(side))
  BY <1>1 DEF Loaded, ResultToTable
<1>3. i \in DOMAIN side.items /\ PlainNames(side, i)
  BY <1>1, <1>2 DEF Rows, Unambiguous, PlainNames
<1>4. /\ \A n \in DOMAIN AttrsOf(side, i) :
           /\ ColumnOf(side, n) \in DOMAIN Rows(side)[i]
           /\ Rows(side)[i][ColumnOf(side, n)] = AttrsOf(side, i)[n]
      /\ \A c \in DOMAIN Rows(side)[i] : Unprefixed(c)
  BY <1>2, <1>3, RowsShowAttributes
<1>5. DOMAIN Rows(side)[i] \subseteq tables[s].columns
  BY <1>2 DEF UnionColumns
<1>6. tables[s].columns \subseteq Seq(Part) \ {<<>>}
  BY NamesAssumption, InputAssumption DEF Invariant, TablesOK, Loaded
<1>7. QED BY <1>1, <1>2, <1>4, <1>5, <1>6

(* A renamed column is not one that a row has of itself.                   *)
LEMMA RenamedIsPrefixed ==
  ASSUME NEW m \in Seq(Part) \ {<<>>}, m \in tables.left.columns
  PROVE  Renamed(m) = rightPrefix \o m /\ ~Unprefixed(Renamed(m))
<1>1. Renamed(m) = rightPrefix \o m
  BY DEF Renamed
<1>2. Len(m) \in Nat /\ Len(m) # 0
  BY EmptySeq
<1>3. Len(<<"right">> \o m) = Len(m) + 1 /\ (<<"right">> \o m)[1] = "right"
  BY Prefixed
<1>4. QED BY <1>1, <1>2, <1>3 DEF Unprefixed, rightPrefix

(* A merge shows the attributes of both rows, where no name is ambiguous.  *)
LEMMA MergeShowsAttributes ==
  ASSUME NEW row, NEW l, NEW r, IsMerge(row, l, r),
         \A c \in DOMAIN l : Unprefixed(c) /\ c \in tables.left.columns,
         \A c \in DOMAIN r : Unprefixed(c) /\ c \in Seq(Part) \ {<<>>}
  PROVE  /\ \A c \in DOMAIN l : c \in DOMAIN row /\ row[c] = l[c]
         /\ \A c \in DOMAIN r \ KeyColumns :
              Renamed(c) \in DOMAIN row /\ row[Renamed(c)] = r[c]
<1> DEFINE others == DOMAIN r \ KeyColumns
<1>1. \A m \in others :
        m \in tables.left.columns => Renamed(m) = rightPrefix \o m /\ ~Unprefixed(Renamed(m))
  BY RenamedIsPrefixed
<1>2. \A m : m \notin tables.left.columns => Renamed(m) = m
  BY DEF Renamed
<1>3. ASSUME NEW c \in DOMAIN l PROVE c \in DOMAIN row /\ row[c] = l[c]
  <2>1. \A m \in others : c # Renamed(m)
    BY <1>1, <1>2
  <2>2. QED BY <2>1 DEF IsMerge
<1>4. ASSUME NEW c \in others PROVE Renamed(c) \in DOMAIN row /\ row[Renamed(c)] = r[c]
  <2>1. Renamed(c) \in DOMAIN row
    BY DEF IsMerge
  <2>2. PICK m \in others : Renamed(c) = Renamed(m) /\ row[Renamed(c)] = r[m]
    BY <2>1 DEF IsMerge
  <2>3. m = c
    <3>1. CASE m \in tables.left.columns /\ c \in tables.left.columns
      <4>1. <<"right">> \o m = <<"right">> \o c
        BY <1>1, <2>2, <3>1 DEF rightPrefix
      <4>2. m \in Seq(Part) /\ c \in Seq(Part)
        OBVIOUS
      <4>3. QED BY <4>1, <4>2, Prefixed
    <3>2. CASE m \notin tables.left.columns /\ c \notin tables.left.columns
      BY <1>2, <2>2, <3>2
    <3>3. CASE m \in tables.left.columns /\ c \notin tables.left.columns
      BY <1>1, <1>2, <2>2, <3>3
    <3>4. CASE m \notin tables.left.columns /\ c \in tables.left.columns
      BY <1>1, <1>2, <2>2, <3>4
    <3>5. QED BY <3>1, <3>2, <3>3, <3>4
  <2>4. QED BY <2>1, <2>2, <2>3
<1>5. QED BY <1>3, <1>4

(* Where the storages' names are unambiguous, a joined row shows each      *)
(* attribute of the left row, and each of the right row that is no key.    *)
THEOREM AttributesCorrect == Spec => []UnambiguousNamesKeepEveryAttribute
<1>1. Invariant => UnambiguousNamesKeepEveryAttribute
  <2> DEFINE l == input.sides.left
             r == input.sides.right
             Shows(row, column, value) == column \in DOMAIN row /\ row[column] = value
  <2> SUFFICES ASSUME Invariant, stage = "done", Unambiguous, NEW p \in DOMAIN joined.rows
               PROVE  /\ \A n \in DOMAIN AttrsOf(l, p[1]) :
                           Shows(joined.rows[p], ColumnOf(l, n), AttrsOf(l, p[1])[n])
                      /\ p[2] # 0 => \A n \in DOMAIN AttrsOf(r, p[2]) :
                           ColumnOf(r, n) \notin KeyColumns =>
                             Shows(joined.rows[p], Renamed(ColumnOf(r, n)), AttrsOf(r, p[2])[n])
    BY DEF UnambiguousNamesKeepEveryAttribute
  <2>1. Loaded("left") /\ Loaded("right") /\ "left" \in Side /\ "right" \in Side
    BY DEF Invariant, TablesOK, Side
  <2>2. CASE IsInnerJoin
    <3>1. /\ p[1] \in DOMAIN tables.left.rows /\ p[2] \in DOMAIN tables.right.rows
          /\ IsMerge(joined.rows[p], tables.left.rows[p[1]], tables.right.rows[p[2]])
      BY <2>2 DEF IsInnerJoin, Agreeing
    <3>2. PICK L, R : L = tables.left.rows[p[1]] /\ R = tables.right.rows[p[2]]
      OBVIOUS
    <3>3. /\ \A n \in DOMAIN AttrsOf(l, p[1]) : Shows(L, ColumnOf(l, n), AttrsOf(l, p[1])[n])
          /\ \A c \in DOMAIN L : Unprefixed(c) /\ c \in tables.left.columns
      <4>1. PICK s, i : s = "left" /\ i = p[1]
        OBVIOUS
      <4>2. s \in Side /\ Loaded(s) /\ i \in DOMAIN tables[s].rows
        BY <2>1, <3>1, <4>1
      <4>3. /\ \A n \in DOMAIN AttrsOf(input.sides[s], i) :
                 /\ ColumnOf(input.sides[s], n) \in DOMAIN tables[s].rows[i]
                 /\ tables[s].rows[i][ColumnOf(input.sides[s], n)]
                      = AttrsOf(input.sides[s], i)[n]
            /\ \A c \in DOMAIN tables[s].rows[i] :
                 Unprefixed(c) /\ c \in tables[s].columns /\ c \in Seq(Part) \ {<<>>}
        BY <4>2, SideShowsAttributes
      <4>4. QED BY <3>2, <4>1, <4>3
    <3>4. /\ \A n \in DOMAIN AttrsOf(r, p[2]) : Shows(R, ColumnOf(r, n), AttrsOf(r, p[2])[n])
          /\ \A c \in DOMAIN R : Unprefixed(c) /\ c \in Seq(Part) \ {<<>>}
      <4>1. PICK s, i : s = "right" /\ i = p[2]
        OBVIOUS
      <4>2. s \in Side /\ Loaded(s) /\ i \in DOMAIN tables[s].rows
        BY <2>1, <3>1, <4>1
      <4>3. /\ \A n \in DOMAIN AttrsOf(input.sides[s], i) :
                 /\ ColumnOf(input.sides[s], n) \in DOMAIN tables[s].rows[i]
                 /\ tables[s].rows[i][ColumnOf(input.sides[s], n)]
                      = AttrsOf(input.sides[s], i)[n]
            /\ \A c \in DOMAIN tables[s].rows[i] :
                 Unprefixed(c) /\ c \in tables[s].columns /\ c \in Seq(Part) \ {<<>>}
        BY <4>2, SideShowsAttributes
      <4>4. QED BY <3>2, <4>1, <4>3
    <3>5. IsMerge(joined.rows[p], L, R)
      BY <3>1, <3>2
    <3>6. /\ \A c \in DOMAIN L : c \in DOMAIN joined.rows[p] /\ joined.rows[p][c] = L[c]
          /\ \A c \in DOMAIN R \ KeyColumns :
               Renamed(c) \in DOMAIN joined.rows[p] /\ joined.rows[p][Renamed(c)] = R[c]
      BY <3>3, <3>4, <3>5, MergeShowsAttributes
    <3>7. QED BY <3>3, <3>4, <3>6
  <2>3. CASE IsAntiJoin
    <3>1. p[1] \in DOMAIN tables.left.rows /\ p[2] = 0 /\ joined.rows[p] = tables.left.rows[p[1]]
      BY <2>3 DEF IsAntiJoin, Unmatched
    <3>2. \A n \in DOMAIN AttrsOf(l, p[1]) :
            Shows(tables.left.rows[p[1]], ColumnOf(l, n), AttrsOf(l, p[1])[n])
      BY <2>1, <3>1, SideShowsAttributes
    <3>3. QED BY <3>1, <3>2
  <2>4. QED BY <2>2, <2>3 DEF Invariant, JoinedOK, Joining
<1>2. QED BY <1>1, InvariantHolds, PTL
================================================================================
