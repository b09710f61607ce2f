--------------------------- MODULE LimiterListProofs ---------------------------
(***************************************************************************)
(* Proofs about LimiterList: its types, that the doubly linked list is the *)
(* recency order of the map beside it, and that it implements RateLimiter, *)
(* for any number of goroutines, tenant ids, keys and calls.               *)
(***************************************************************************)
EXTENDS LimiterList, ProofBasics

--------------------------------------------------------------------------------
(* The buckets.                                                            *)

(* A bucket holds at least one request's worth. *)
LEMMA CapacityHoldsOne ==
  Capacity \in Nat /\ Cost \in Nat /\ Cost > 0 /\ Capacity >= Cost
<1>1. ASSUME NEW m \in Nat \ {0}, NEW n \in Nat PROVE m * n \in Nat /\ m * n >= n
  BY SMT
<1>2. QED BY <1>1, CostAssumption, BurstAssumption DEF Capacity

(* What take makes of a bucket is a bucket.                                *)
LEMMA TakenBucket ==
  ASSUME NEW b, NEW t \in Nat, b.tokens \in 0 .. Capacity, b.last \in 0 .. t
  PROVE  /\ Refilled(b, t) \in 0 .. Capacity
         /\ (IF Admits(b, t) THEN Refilled(b, t) - Cost ELSE Refilled(b, t)) \in 0 .. Capacity
  BY CapacityHoldsOne DEF Refilled, Admits

(* So buckets and entries stay what they are, whatever the call.           *)
LEMMA BucketsKeepTypes ==
  ASSUME NEW clk \in Nat, NEW t \in Nat, clk <= t, NEW call \in Nat
  PROVE  /\ Entry(clk) \subseteq Entry(t) /\ Bucket(clk) \subseteq Bucket(t)
         /\ \A b \in Bucket(t) : Taken(b, t) \in Bucket(t)
         /\ \A e \in Entry(t) : Charged(e, t, call) \in Entry(t)
         /\ \A paid \in BOOLEAN : Minted(t, paid) \in Entry(t)
<1>1. 0 .. clk \subseteq 0 .. t /\ t \in 0 .. t
  OBVIOUS
<1>2. ASSUME NEW b \in Bucket(t) PROVE Taken(b, t) \in Bucket(t)
  BY <1>1, TakenBucket DEF Bucket, Taken
<1>3. ASSUME NEW e \in Entry(t) PROVE Charged(e, t, call) \in Entry(t)
  <2>1. e.served + One(Admits(e, t)) \in Nat
    BY DEF Entry, One
  <2>2. (IF Admits(e, t) THEN t ELSE e.admittedAt) \in 0 .. t
    BY <1>1 DEF Entry
  <2>3. QED BY <1>1, <2>1, <2>2, TakenBucket DEF Entry, Taken, Charged
<1>4. ASSUME NEW paid \in BOOLEAN PROVE Minted(t, paid) \in Entry(t)
  BY <1>1, CapacityHoldsOne DEF Minted, Entry
<1>5. QED BY <1>1, <1>2, <1>3, <1>4 DEF Entry, Bucket

--------------------------------------------------------------------------------
(* The pointers and the ranks.                                             *)

Lists == [head : Pointer, tail : Pointer,
          prev : [Key -> Pointer], next : [Key -> Pointer]]

(* The list l links the keys of S, and no other.                           *)
Linked(l, S) ==
  /\ S \subseteq Key
  /\ l \in Lists
  /\ l.head = Nil <=> S = {}
  /\ l.tail = Nil <=> S = {}
  /\ S # {} => l.head \in S /\ l.tail \in S
  /\ \A k \in Key \ S : l.prev[k] = Nil /\ l.next[k] = Nil
  /\ \A k \in S :
       /\ l.prev[k] \in S \cup {Nil}
       /\ l.next[k] \in S \cup {Nil}
       /\ l.prev[k] = Nil <=> k = l.head
       /\ l.next[k] = Nil <=> k = l.tail
       /\ \A j \in S : l.next[k] = j <=> l.prev[j] = k

(* Every next is the key of S ranked highest below.                        *)
Sorted(l, S, u) ==
  \A k \in S : l.next[k] # Nil =>
    /\ u[l.next[k]] < u[k]
    /\ \A j \in S : ~(u[l.next[k]] < u[j] /\ u[j] < u[k])

Ranks(S, u) ==
  /\ \A k \in S : u[k] \in Nat
  /\ \A j, k \in S : u[j] = u[k] => j = k

(* A nil pointer is no key. *)
LEMMA NilIsNoKey == Nil \notin Key
  BY NilAssumption DEF Key

(* The key at the tail ranks lowest. *)
LEMMA TailIsLeast ==
  ASSUME NEW l, NEW S, NEW u, Linked(l, S), Sorted(l, S, u), Ranks(S, u), S # {}
  PROVE  l.tail \in S /\ \A j \in S : u[l.tail] <= u[j]
<1>1. {u[k] : k \in S} \in SUBSET Nat /\ {u[k] : k \in S} # {}
  BY DEF Ranks
<1>2. PICK m \in S : \A j \in S : u[m] <= u[j]
  <2>1. PICK r \in {u[k] : k \in S} : \A q \in {u[k] : k \in S} : r <= q
    BY <1>1, LeastOf, Zenon
  <2>2. PICK m \in S : r = u[m]
    OBVIOUS
  <2>3. QED BY <2>1, <2>2
<1>3. u[m] \in Nat
  BY DEF Ranks
<1>4. l.next[m] = Nil
  <2> SUFFICES ASSUME l.next[m] # Nil PROVE FALSE
    OBVIOUS
  <2>1. l.next[m] \in S /\ u[l.next[m]] < u[m]
    BY <1>2 DEF Linked, Sorted
  <2>2. u[l.next[m]] \in Nat
    BY <2>1 DEF Ranks
  <2>3. QED BY <1>2, <1>3, <2>1, <2>2
<1>5. m = l.tail
  BY <1>2, <1>4 DEF Linked
<1>6. QED BY <1>2, <1>5

(* The key at the head ranks highest, provided that no rank exceeds n. *)
LEMMA HeadIsGreatest ==
  ASSUME NEW l, NEW S, NEW u, Linked(l, S), Sorted(l, S, u), Ranks(S, u), S # {},
         NEW n \in Nat, \A k \in S : u[k] <= n
  PROVE  l.head \in S /\ \A j \in S : u[j] <= u[l.head]
<1>1. {u[k] : k \in S} \in SUBSET (0 .. n) /\ {u[k] : k \in S} # {}
  BY DEF Ranks
<1>2. PICK m \in S : \A j \in S : u[j] <= u[m]
  BY <1>1, LargestOf
<1>3. u[m] \in Nat
  BY DEF Ranks
<1>4. l.prev[m] = Nil
  <2> SUFFICES ASSUME l.prev[m] # Nil PROVE FALSE
    OBVIOUS
  <2> DEFINE p == l.prev[m]
  <2>1. p \in S /\ l.next[p] = m
    BY <1>2 DEF Linked
  <2>2. m # Nil
    BY NilIsNoKey DEF Linked
  <2>3. u[m] < u[p] /\ u[p] \in Nat
    BY <2>1, <2>2 DEF Sorted, Ranks
  <2>4. QED BY <1>2, <1>3, <2>1, <2>3
<1>5. m = l.head
  BY <1>2, <1>4 DEF Linked
<1>6. QED BY <1>2, <1>5

(* No key follows itself. *)
LEMMA NoSelfLink ==
  ASSUME NEW l, NEW S, NEW u, Linked(l, S), Sorted(l, S, u), Ranks(S, u),
         NEW k \in S
  PROVE  l.next[k] # k /\ l.prev[k] # k
<1>1. l.next[k] # k
  <2>1. k # Nil /\ u[k] \in Nat
    BY NilIsNoKey DEF Linked, Ranks
  <2>2. QED BY <2>1 DEF Sorted
<1>2. QED BY <1>1 DEF Linked

(* A key that is both head and tail is alone. *)
LEMMA OneEnd ==
  ASSUME NEW l, NEW S, NEW u, Linked(l, S), Sorted(l, S, u), Ranks(S, u), S # {},
         NEW n \in Nat, \A k \in S : u[k] <= n,
         l.head = l.tail
  PROVE  S = {l.head}
<1>1. \A j \in S : u[j] <= u[l.head] /\ u[l.head] <= u[j]
  BY HeadIsGreatest, TailIsLeast
<1>2. l.head \in S
  BY HeadIsGreatest
<1>3. \A j \in S : u[j] = u[l.head]
  BY <1>1, <1>2 DEF Ranks
<1>4. QED BY <1>2, <1>3 DEF Ranks

--------------------------------------------------------------------------------
(* Unlinking a key.                                                        *)

(* An assignment through a pointer writes the one field it points to. *)
LEMMA AssignWrites ==
  ASSUME NEW f \in [Key -> Pointer], NEW q \in Pointer, NEW v \in Pointer
  PROVE  /\ Assign(f, q, v) \in [Key -> Pointer]
         /\ \A j \in Key : Assign(f, q, v)[j] = IF j = q THEN v ELSE f[j]
  BY NilIsNoKey DEF Assign, Pointer

(* What unlink leaves in every field. *)
LEMMA UnlinkFields ==
  ASSUME NEW l, NEW S, NEW u, Linked(l, S), Sorted(l, S, u), Ranks(S, u),
         NEW k \in S
  PROVE  LET m == Unlink(l, k)
         IN  /\ m \in Lists
             /\ m.head = IF k = l.head THEN l.next[k] ELSE l.head
             /\ m.tail = IF k = l.tail THEN l.prev[k] ELSE l.tail
             /\ m.prev[k] = Nil /\ m.next[k] = Nil
             /\ \A j \in Key \ {k} :
                  /\ m.prev[j] = IF j = l.next[k] THEN l.prev[k] ELSE l.prev[j]
                  /\ m.next[j] = IF j = l.prev[k] THEN l.next[k] ELSE l.next[j]
<1> DEFINE m == Unlink(l, k)
           p == l.prev[k]
           n == l.next[k]
<1>1. /\ k \in Key /\ l.prev \in [Key -> Pointer] /\ l.next \in [Key -> Pointer]
      /\ l.head \in Pointer /\ l.tail \in Pointer
      /\ p \in Pointer /\ n \in Pointer
  BY DEF Linked, Lists
<1>2. /\ m.head = IF l.prev[k] = Nil /\ l.head = k THEN l.next[k] ELSE l.head
      /\ m.tail = IF l.next[k] = Nil /\ l.tail = k THEN l.prev[k] ELSE l.tail
      /\ m.prev = [Assign(l.prev, n, p) EXCEPT ![k] = Nil]
      /\ m.next = [Assign(l.next, p, n) EXCEPT ![k] = Nil]
      /\ m = [head |-> m.head, tail |-> m.tail, prev |-> m.prev, next |-> m.next]
  BY DEF Unlink
<1>4. ASSUME NEW f \in [Key -> Pointer]
      PROVE  /\ [f EXCEPT ![k] = Nil] \in [Key -> Pointer]
             /\ [f EXCEPT ![k] = Nil][k] = Nil
             /\ \A j \in Key \ {k} : [f EXCEPT ![k] = Nil][j] = f[j]
  BY <1>1 DEF Pointer
<1>5. Assign(l.prev, n, p) \in [Key -> Pointer] /\ Assign(l.next, p, n) \in [Key -> Pointer]
  BY <1>1, AssignWrites
<1>6. m.prev \in [Key -> Pointer] /\ m.next \in [Key -> Pointer]
  BY <1>2, <1>4, <1>5
<1>7. m.head = (IF k = l.head THEN n ELSE l.head)
      /\ m.tail = (IF k = l.tail THEN p ELSE l.tail)
  BY <1>2 DEF Linked
<1>8. m \in Lists
  <2>1. m.head \in Pointer /\ m.tail \in Pointer
    BY <1>1, <1>7
  <2> HIDE DEF m
  <2>2. QED BY <1>2, <1>6, <2>1 DEF Lists
<1>9. m.prev[k] = Nil /\ m.next[k] = Nil
  BY <1>2, <1>4, <1>5
<1>10. ASSUME NEW j \in Key \ {k}
       PROVE  /\ m.prev[j] = IF j = n THEN p ELSE l.prev[j]
              /\ m.next[j] = IF j = p THEN n ELSE l.next[j]
  <2>1. m.prev[j] = Assign(l.prev, n, p)[j] /\ m.next[j] = Assign(l.next, p, n)[j]
    BY <1>2, <1>4, <1>5
  <2>2. /\ Assign(l.prev, n, p)[j] = IF j = n THEN p ELSE l.prev[j]
        /\ Assign(l.next, p, n)[j] = IF j = p THEN n ELSE l.next[j]
    <3>1. ASSUME NEW f \in [Key -> Pointer], NEW q \in Pointer, NEW v \in Pointer
          PROVE  Assign(f, q, v)[j] = IF j = q THEN v ELSE f[j]
      BY NilIsNoKey DEF Assign
    <3>2. /\ l.prev \in [Key -> Pointer] /\ l.next \in [Key -> Pointer]
          /\ p \in Pointer /\ n \in Pointer
      BY <1>1
    <3> HIDE DEF m, p, n
    <3>3. QED BY <3>1, <3>2, ZenonT(60)
  <2>3. QED BY <2>1, <2>2
<1>11. QED BY <1>7, <1>8, <1>9, <1>10

(* An unlinked list links the other keys, in the order it had. *)
LEMMA UnlinkKeepsOrder ==
  ASSUME NEW l, NEW S, NEW u, Linked(l, S), Sorted(l, S, u), Ranks(S, u),
         NEW n \in Nat, \A j \in S : u[j] <= n,
         NEW k \in S
  PROVE  Linked(Unlink(l, k), S \ {k}) /\ Sorted(Unlink(l, k), S \ {k}, u)
<1> DEFINE T == S \ {k}
<1>1. PICK m : m = Unlink(l, k)
  OBVIOUS
<1>2. /\ m \in Lists
      /\ m.head = IF k = l.head THEN l.next[k] ELSE l.head
      /\ m.tail = IF k = l.tail THEN l.prev[k] ELSE l.tail
      /\ m.prev[k] = Nil /\ m.next[k] = Nil
      /\ \A j \in Key \ {k} :
           /\ m.prev[j] = IF j = l.next[k] THEN l.prev[k] ELSE l.prev[j]
           /\ m.next[j] = IF j = l.prev[k] THEN l.next[k] ELSE l.next[j]
  BY <1>1, UnlinkFields
<1>3. S \subseteq Key /\ k # Nil /\ l.next[k] # k /\ l.prev[k] # k
  BY NilIsNoKey, NoSelfLink DEF Linked
<1>4. Linked(m, T)
  <2>1. (m.head = Nil <=> T = {}) /\ (m.tail = Nil <=> T = {})
        /\ (T # {} => m.head \in T /\ m.tail \in T)
    <3>1. CASE l.head = l.tail
      <4>1. S = {l.head}
        BY <3>1, OneEnd
      <4>2. k = l.head /\ T = {}
        BY <4>1
      <4>3. l.next[k] = Nil /\ l.prev[k] = Nil
        BY <3>1, <4>2 DEF Linked
      <4>4. QED BY <1>2, <3>1, <4>2, <4>3
    <3>2. CASE l.head # l.tail
      <4>1. T # {} /\ l.head \in S /\ l.tail \in S /\ l.head # Nil /\ l.tail # Nil
        BY <3>2 DEF Linked
      <4>2. m.head \in T
        BY <1>2, <1>3, <3>2, <4>1 DEF Linked
      <4>3. m.tail \in T
        BY <1>2, <1>3, <3>2, <4>1 DEF Linked
      <4>4. Nil \notin T
        BY <1>3, NilIsNoKey
      <4>5. QED BY <4>1, <4>2, <4>3, <4>4
    <3>3. QED BY <3>1, <3>2
  <2>2. ASSUME NEW j \in Key \ T PROVE m.prev[j] = Nil /\ m.next[j] = Nil
    <3>1. CASE j = k
      BY <1>2, <3>1
    <3>2. CASE j # k
      <4>1. j \in Key \ S /\ j # Nil /\ j # l.next[k] /\ j # l.prev[k]
        BY <3>2, NilIsNoKey DEF Linked
      <4>2. l.prev[j] = Nil /\ l.next[j] = Nil
        BY <4>1 DEF Linked
      <4>3. QED BY <1>2, <4>1, <4>2
    <3>3. QED BY <3>1, <3>2
  <2>3. ASSUME NEW j \in T
        PROVE  /\ m.prev[j] \in T \cup {Nil}
               /\ m.next[j] \in T \cup {Nil}
               /\ m.prev[j] = Nil <=> j = m.head
               /\ m.next[j] = Nil <=> j = m.tail
    BY <1>2, <1>3 DEF Linked
  <2>4. ASSUME NEW i \in T, NEW j \in T PROVE m.next[i] = j <=> m.prev[j] = i
    BY <1>2, <1>3 DEF Linked
  <2>5. QED BY <1>2, <1>3, <2>1, <2>2, <2>3, <2>4 DEF Linked
<1>5. Sorted(m, T, u)
  <2> SUFFICES ASSUME NEW i \in T, m.next[i] # Nil
               PROVE  /\ u[m.next[i]] < u[i]
                      /\ \A j \in T : ~(u[m.next[i]] < u[j] /\ u[j] < u[i])
    BY DEF Sorted
  <2>1. CASE i # l.prev[k]
    BY <1>2, <1>3, <2>1 DEF Sorted
  <2>2. CASE i = l.prev[k]
    <3>1. m.next[i] = l.next[k] /\ l.next[i] = k
      BY <1>2, <1>3, <2>2 DEF Linked
    <3>2. l.next[k] \in S /\ u[l.next[k]] < u[k] /\ u[k] < u[i]
      BY <1>3, <3>1 DEF Linked, Sorted
    <3>3. u[l.next[k]] \in Nat /\ u[k] \in Nat /\ u[i] \in Nat
      BY <3>2 DEF Ranks
    <3>4. ASSUME NEW j \in T, u[l.next[k]] < u[j], u[j] < u[i] PROVE FALSE
      <4>1. u[j] \in Nat /\ u[j] # u[k]
        BY DEF Ranks
      <4>2. u[j] < u[k] \/ u[k] < u[j]
        BY <3>3, <4>1
      <4>3. ~(u[l.next[k]] < u[j] /\ u[j] < u[k]) /\ ~(u[k] < u[j] /\ u[j] < u[i])
        BY <1>3, <3>1 DEF Sorted
      <4>4. QED BY <3>4, <4>2, <4>3
    <3>5. QED BY <3>1, <3>2, <3>3, <3>4
  <2>3. QED BY <2>1, <2>2
<1>6. QED BY <1>1, <1>4, <1>5

--------------------------------------------------------------------------------
(* Pushing a key to the front.                                             *)

(* What pushFront leaves in every field. *)
LEMMA PushFields ==
  ASSUME NEW l, NEW S, Linked(l, S), NEW k \in Key \ S
  PROVE  LET m == PushFront(l, k)
         IN  /\ m \in Lists
             /\ m.head = k
             /\ m.tail = IF S = {} THEN k ELSE l.tail
             /\ m.prev[k] = Nil /\ m.next[k] = l.head
             /\ \A j \in Key \ {k} :
                  /\ m.prev[j] = IF j = l.head THEN k ELSE l.prev[j]
                  /\ m.next[j] = l.next[j]
<1> DEFINE m == PushFront(l, k)
           q == [l.prev EXCEPT ![k] = Nil]
<1>1. /\ l.prev \in [Key -> Pointer] /\ l.next \in [Key -> Pointer]
      /\ l.head \in Pointer /\ l.tail \in Pointer /\ k \in Pointer
      /\ l.head # k
  BY NilIsNoKey DEF Linked, Lists, Pointer
<1>2. /\ m.head = k
      /\ m.tail = IF l.tail = Nil THEN k ELSE l.tail
      /\ m.prev = Assign(q, l.head, k)
      /\ m.next = [l.next EXCEPT ![k] = l.head]
      /\ m = [head |-> m.head, tail |-> m.tail, prev |-> m.prev, next |-> m.next]
  BY DEF PushFront
<1>3. /\ q \in [Key -> Pointer]
      /\ q[k] = Nil
      /\ \A j \in Key \ {k} : q[j] = l.prev[j]
  BY <1>1 DEF Pointer
<1>4. /\ m.prev \in [Key -> Pointer]
      /\ \A j \in Key : m.prev[j] = IF j = l.head THEN k ELSE q[j]
  <2> HIDE DEF q, m
  <2>1. QED BY <1>1, <1>2, <1>3, NilIsNoKey DEF Assign, Pointer
<1>5. /\ m.next \in [Key -> Pointer]
      /\ m.next[k] = l.head
      /\ \A j \in Key \ {k} : m.next[j] = l.next[j]
  BY <1>1, <1>2
<1>6. m.tail = IF S = {} THEN k ELSE l.tail
  BY <1>2 DEF Linked
<1>7. m \in Lists
  <2>1. m.head \in Pointer /\ m.tail \in Pointer
    BY <1>1, <1>2
  <2> HIDE DEF m, q
  <2>2. QED BY <1>2, <1>4, <1>5, <2>1 DEF Lists
<1>8. QED BY <1>1, <1>2, <1>3, <1>4, <1>5, <1>6, <1>7

(* The pushed key comes first, the others keep their order. *)
LEMMA PushKeepsOrder ==
  ASSUME NEW l, NEW S, NEW u, Linked(l, S), Sorted(l, S, u), Ranks(S, u),
         NEW n \in Nat, \A j \in S : u[j] <= n,
         NEW k \in Key \ S,
         NEW w, \A j \in S : w[j] = u[j], w[k] = n + 1
  PROVE  Linked(PushFront(l, k), S \cup {k}) /\ Sorted(PushFront(l, k), S \cup {k}, w)
<1> DEFINE T == S \cup {k}
<1>1. PICK m : m = PushFront(l, k)
  OBVIOUS
<1>2. /\ m \in Lists
      /\ m.head = k
      /\ m.tail = IF S = {} THEN k ELSE l.tail
      /\ m.prev[k] = Nil /\ m.next[k] = l.head
      /\ \A j \in Key \ {k} :
           /\ m.prev[j] = IF j = l.head THEN k ELSE l.prev[j]
           /\ m.next[j] = l.next[j]
  BY <1>1, PushFields
<1>3. S \subseteq Key /\ k # Nil /\ T \subseteq Key /\ Nil \notin S
  BY NilIsNoKey DEF Linked
<1>4. Linked(m, T)
  <2>1. m.head \in T /\ m.tail \in T /\ m.head # Nil /\ m.tail # Nil /\ T # {}
    BY <1>2, <1>3 DEF Linked
  <2>2. ASSUME NEW j \in Key \ T PROVE m.prev[j] = Nil /\ m.next[j] = Nil
    <3>1. j \in Key \ S /\ j # k /\ j # l.head
      BY NilIsNoKey DEF Linked
    <3>2. l.prev[j] = Nil /\ l.next[j] = Nil
      BY <3>1 DEF Linked
    <3>3. QED BY <1>2, <3>1, <3>2
  <2>3. ASSUME NEW j \in T
        PROVE  /\ m.prev[j] \in T \cup {Nil}
               /\ m.next[j] \in T \cup {Nil}
               /\ m.prev[j] = Nil <=> j = m.head
               /\ m.next[j] = Nil <=> j = m.tail
    BY <1>2, <1>3 DEF Linked
  <2>4. ASSUME NEW i \in T, NEW j \in T PROVE m.next[i] = j <=> m.prev[j] = i
    BY <1>2, <1>3 DEF Linked
  <2>5. QED BY <1>2, <1>3, <2>1, <2>2, <2>3, <2>4 DEF Linked
<1>5. Sorted(m, T, w)
  <2> SUFFICES ASSUME NEW i \in T, m.next[i] # Nil
               PROVE  /\ w[m.next[i]] < w[i]
                      /\ \A j \in T : ~(w[m.next[i]] < w[j] /\ w[j] < w[i])
    BY DEF Sorted
  <2>1. \A j \in S : w[j] \in Nat /\ w[j] < w[k]
    BY DEF Ranks
  <2>2. CASE i = k
    <3>1. S # {} /\ m.next[i] = l.head /\ l.head \in S
      BY <1>2, <2>2 DEF Linked
    <3>2. \A j \in S : u[j] <= u[l.head]
      BY <3>1, HeadIsGreatest
    <3>3. \A j \in S : w[j] <= w[l.head]
      BY <3>1, <3>2
    <3>4. QED BY <2>1, <2>2, <3>1, <3>3
  <2>3. CASE i \in S
    <3>1. m.next[i] = l.next[i] /\ l.next[i] \in S
      BY <1>2, <1>3, <2>3 DEF Linked
    <3>2. w[l.next[i]] < w[i] /\ \A j \in S : ~(w[l.next[i]] < w[j] /\ w[j] < w[i])
      BY <2>3, <3>1 DEF Sorted
    <3>3. ~(w[k] < w[i])
      BY <2>1, <2>3
    <3>4. QED BY <3>1, <3>2, <3>3
  <2>4. QED BY <2>2, <2>3
<1>6. QED BY <1>1, <1>4, <1>5

--------------------------------------------------------------------------------
(* Touching a key.                                                         *)

(* The touched key comes first, the others keep their order. *)
LEMMA TouchKeepsOrder ==
  ASSUME NEW l, NEW S, NEW u, Linked(l, S), Sorted(l, S, u), Ranks(S, u),
         NEW n \in Nat, \A j \in S : u[j] <= n,
         NEW k \in S,
         NEW w, \A j \in S \ {k} : w[j] = u[j], w[k] = n + 1
  PROVE  Linked(Touch(l, k), S) /\ Sorted(Touch(l, k), S, w)
<1>1. CASE l.head = k
  <2>1. Touch(l, k) = l
    BY <1>1 DEF Touch
  <2>2. \A j \in S : u[j] <= u[k]
    BY <1>1, HeadIsGreatest
  <2>3. \A j \in S : u[j] \in Nat
    BY DEF Ranks
  <2>4. Sorted(l, S, w)
    <3> SUFFICES ASSUME NEW i \in S, l.next[i] # Nil
                 PROVE  /\ w[l.next[i]] < w[i]
                        /\ \A j \in S : ~(w[l.next[i]] < w[j] /\ w[j] < w[i])
      BY DEF Sorted
    <3>1. l.next[i] \in S /\ l.next[i] # k
      BY <1>1, NilIsNoKey DEF Linked
    <3>2. u[l.next[i]] < u[i] /\ \A j \in S : ~(u[l.next[i]] < u[j] /\ u[j] < u[i])
      BY <3>1 DEF Sorted
    <3>3. w[l.next[i]] = u[l.next[i]]
      BY <3>1
    <3>4. CASE i = k
      <4>1. \A j \in S \ {k} : ~(u[l.next[i]] < u[j])
        <5> SUFFICES ASSUME NEW j \in S \ {k}, u[l.next[i]] < u[j] PROVE FALSE
          OBVIOUS
        <5>1. u[j] # u[k]
          BY DEF Ranks
        <5>2. u[j] < u[k]
          BY <2>2, <2>3, <5>1
        <5>3. QED BY <3>2, <3>4, <5>2
      <4>2. u[l.next[i]] < n + 1 /\ w[i] = n + 1
        BY <2>3, <3>1, <3>4
      <4>3. QED BY <2>3, <3>1, <3>3, <3>4, <4>1, <4>2
    <3>5. CASE i # k
      <4>1. w[i] = u[i] /\ ~(w[k] < w[i])
        BY <2>3, <3>5
      <4>2. QED BY <3>2, <3>3, <4>1
    <3>6. QED BY <3>4, <3>5
  <2>5. QED BY <2>1, <2>4
<1>2. CASE l.head # k
  <2> DEFINE R == S \ {k}
             m == Unlink(l, k)
  <2>1. Touch(l, k) = PushFront(m, k)
    BY <1>2 DEF Touch
  <2>2. Linked(m, R) /\ Sorted(m, R, u)
    BY UnlinkKeepsOrder
  <2>3. Ranks(R, u) /\ k \in Key \ R /\ R \cup {k} = S
    BY DEF Ranks, Linked
  <2> HIDE DEF m
  <2>4. Linked(PushFront(m, k), R \cup {k}) /\ Sorted(PushFront(m, k), R \cup {k}, w)
    BY <2>2, <2>3, PushKeepsOrder
  <2>5. QED BY <2>1, <2>3, <2>4
<1>3. QED BY <1>1, <1>2

--------------------------------------------------------------------------------
(* The invariant.                                                          *)

(* The call that last used each resident key. *)
Used == [k \in DOMAIN keys |-> keys[k].used]

(* The list orders the resident keys by the call that last used them, and  *)
(* no two by the same call.                                                *)
OrderOK ==
  /\ Linked(list, DOMAIN keys)
  /\ Sorted(list, DOMAIN keys, Used)
  /\ Ranks(DOMAIN keys, Used)
  /\ \A k \in DOMAIN keys : Used[k] <= audit.calls

(* One goroutine at most is under the mutex, and no call returned after it *)
(* read the clock.                                                         *)
MutexOK ==
  \A g \in Goroutine :
    /\ pc[g] = "locked" <=> holder = g
    /\ pc[g] = "locked" => latest <= now[g]

(* The calls under way fit the bound on calls. *)
CallsOK == audit.calls + Cardinality(Pending) <= MaxCalls

ListInvariant == TypeOK /\ MutexOK /\ CallsOK /\ OrderOK

(* A bound key is a key. *)
LEMMA BoundKeyIsKey == \A i \in Id : BoundKey(i) \in Key
  BY DigestAssumption DEF BoundKey, Key

(* A full map holds a key, so that the list has a tail to evict. *)
LEMMA FullMapHasKeys == MapFull => DOMAIN keys # {}
<1>1. Cardinality({}) = 0 /\ MaxKeys > 0 /\ MaxKeys \in Nat
  BY FS_EmptySet, MaxKeysAssumption
<1>2. QED BY <1>1 DEF MapFull

(* What each way to finish a call does to the ranks, and with them to the  *)
(* order of the list.                                                      *)
LEMMA ResidentKeepsOrder ==
  ASSUME TypeOK, OrderOK, NEW g \in Goroutine, NEW k \in Key, AllowResident(g, k)
  PROVE  DOMAIN keys' = DOMAIN keys /\ OrderOK'
<1> DEFINE S == DOMAIN keys
           n == audit.calls
           e == Charged(keys[k], now[g], n + 1)
<1>1. /\ k \in S /\ n \in Nat
      /\ list' = Touch(list, k)
      /\ keys' = [keys EXCEPT ![k] = e]
      /\ audit'.calls = n + 1
  BY DEF AllowResident, TypeOK, Audit, Audited
<1>2. e.used = n + 1
  BY DEF Charged
<1>3. DOMAIN keys' = S
  BY <1>1
<1>4. \A j \in S : keys'[j] = IF j = k THEN e ELSE keys[j]
  BY <1>1
<1>5. Used'[k] = n + 1 /\ \A j \in S \ {k} : Used'[j] = Used[j]
  <2> HIDE DEF e
  <2>1. QED BY <1>1, <1>2, <1>3, <1>4 DEF Used
<1>6. /\ Linked(list, S) /\ Sorted(list, S, Used) /\ Ranks(S, Used)
      /\ \A j \in S : Used[j] <= n
  BY DEF OrderOK
<1> HIDE DEF S, n, e
<1>7. \A l, w : w[k] = n + 1 /\ (\A j \in S \ {k} : w[j] = Used[j]) /\ l = Touch(list, k)
                => Linked(l, S) /\ Sorted(l, S, w)
  BY <1>1, <1>6, TouchKeepsOrder
<1>8. Linked(list', S) /\ Sorted(list', S, Used')
  BY <1>1, <1>5, <1>7
<1>9. Ranks(S, Used') /\ \A j \in S : Used'[j] <= n + 1
  <2>1. \A j \in S : Used[j] \in Nat
    BY <1>6 DEF Ranks
  <2>2. \A i, j \in S : Used[i] = Used[j] => i = j
    BY <1>6 DEF Ranks
  <2>3. QED BY <1>1, <1>5, <1>6, <2>1, <2>2 DEF Ranks
<1>10. QED BY <1>1, <1>3, <1>8, <1>9 DEF OrderOK, S

(* A key pushed in front of a list in order. *)
LEMMA UnseenKeepsOrder ==
  ASSUME NEW g, NEW k \in Key, NEW paid, NEW n \in Nat, n = audit.calls,
         NEW S \in SUBSET DOMAIN keys, k \notin S,
         NEW l, Linked(l, S), Sorted(l, S, Used), Ranks(S, Used),
         \A j \in S : Used[j] <= n,
         list' = PushFront(l, k),
         keys' = WithMinted(S, k, g, paid),
         audit'.calls = n + 1
  PROVE  DOMAIN keys' = S \cup {k} /\ OrderOK'
<1> DEFINE e == Charged(Minted(now[g], paid), now[g], n + 1)
           T == S \cup {k}
<1>1. /\ DOMAIN keys' = T
      /\ \A j \in T : keys'[j] = IF j = k THEN e ELSE keys[j]
  BY DEF WithMinted
<1>2. e.used = n + 1
  BY DEF Charged
<1> HIDE DEF e
<1>3. Used'[k] = n + 1 /\ \A j \in S : Used'[j] = Used[j]
  BY <1>1, <1>2 DEF Used
<1>4. \A w : w[k] = n + 1 /\ (\A j \in S : w[j] = Used[j])
                => Linked(PushFront(l, k), T) /\ Sorted(PushFront(l, k), T, w)
  BY PushKeepsOrder
<1>5. Linked(list', T) /\ Sorted(list', T, Used')
  BY <1>3, <1>4
<1>6. Ranks(T, Used') /\ \A j \in T : Used'[j] <= n + 1
  <2>1. \A j \in S : Used[j] \in Nat
    BY DEF Ranks
  <2>2. \A i, j \in S : Used[i] = Used[j] => i = j
    BY DEF Ranks
  <2>3. QED BY <1>3, <2>1, <2>2 DEF Ranks
<1>7. QED BY <1>1, <1>5, <1>6 DEF OrderOK

(* Every return of allow leaves the list in the order of the map. *)
LEMMA AllowKeepsOrder ==
  ASSUME TypeOK, OrderOK, NEW g \in Goroutine, Allow(g)
  PROVE  OrderOK'
<1> DEFINE k == BoundKey(id[g])
           S == DOMAIN keys
           n == audit.calls
<1>1. k \in Key /\ n \in Nat
  BY BoundKeyIsKey DEF TypeOK, Audit
<1>2. /\ Linked(list, S) /\ Sorted(list, S, Used) /\ Ranks(S, Used)
      /\ \A j \in S : Used[j] <= n
  BY DEF OrderOK
<1>3. \/ AllowResident(g, k)
      \/ AllowUnseen(g, k)
      \/ RefuseUnseen(g, k)
      \/ AllowEvicting(g, k)
  BY DEF Allow
<1> HIDE DEF k
<1>4. CASE AllowResident(g, k)
  BY <1>1, <1>4, ResidentKeepsOrder
<1>5. CASE AllowUnseen(g, k)
  <2>1. /\ k \notin S
        /\ list' = PushFront(list, k)
        /\ keys' = WithMinted(S, k, g, FALSE)
        /\ audit'.calls = n + 1
    BY <1>5 DEF AllowUnseen, Audited
  <2>2. QED BY <1>1, <1>2, <2>1, UnseenKeepsOrder
<1>6. CASE RefuseUnseen(g, k)
  <2>1. /\ UNCHANGED <<keys, list>>
        /\ audit'.calls = n + 1
    BY <1>1, <1>6 DEF RefuseUnseen, TypeOK, Audit
  <2>2. Used' = Used
    BY <2>1 DEF Used
  <2>3. \A j \in S : Used[j] \in Nat
    BY <1>2 DEF Ranks
  <2>4. \A j \in S : Used[j] <= n + 1
    BY <1>1, <1>2, <2>3
  <2>5. QED BY <1>2, <2>1, <2>2, <2>4 DEF OrderOK
<1>7. CASE AllowEvicting(g, k)
  <2>1. /\ k \notin S
        /\ MapFull
        /\ list' = PushFront(EvictOldest(list), k)
        /\ keys' = WithMinted(S \ {list.tail}, k, g, TRUE)
        /\ audit'.calls = n + 1
    BY <1>7 DEF AllowEvicting, Audited
  <2>2. list.tail \in S /\ list.tail # Nil
    BY <1>2, <2>1, FullMapHasKeys DEF Linked
  <2> DEFINE T == S \ {list.tail}
             l == Unlink(list, list.tail)
  <2>3. EvictOldest(list) = l
    BY <2>2 DEF EvictOldest
  <2>4. Linked(l, T) /\ Sorted(l, T, Used)
    BY <1>1, <1>2, <2>2, UnlinkKeepsOrder
  <2>5. Ranks(T, Used) /\ (\A j \in T : Used[j] <= n) /\ k \notin T
    BY <1>2, <2>1 DEF Ranks
  <2> HIDE DEF l
  <2>6. QED BY <1>1, <2>1, <2>3, <2>4, <2>5, UnseenKeepsOrder
<1>8. QED BY <1>3, <1>4, <1>5, <1>6, <1>7

--------------------------------------------------------------------------------
(* The steps.                                                              *)

(* The goroutine under the mutex holds an instant between the latest call  *)
(* and the clock, which is all that its call needs to know of time.        *)
LEMMA LockedNow ==
  ASSUME TypeOK, MutexOK, NEW g \in Goroutine, pc[g] = "locked"
  PROVE  /\ latest \in Nat /\ now[g] \in Nat /\ clock \in Nat
         /\ latest <= now[g] /\ now[g] <= clock /\ clock <= MaxClock
  BY BoundsAssumption DEF TypeOK, MutexOK

(* The critical section keeps the types: its instant is no earlier than the*)
(* latest one, and the mutex keeps every other goroutine out.              *)
LEMMA AllowKeepsTypes ==
  ASSUME TypeOK, MutexOK, OrderOK, NEW g \in Goroutine, Allow(g)
  PROVE  TypeOK'
<1> DEFINE k == BoundKey(id[g])
           n == audit.calls
           t == now[g]
<1>1. k \in Key /\ n \in Nat /\ n + 1 \in Nat
  BY BoundKeyIsKey DEF TypeOK, Audit
<1>2. /\ latest \in Nat /\ t \in Nat /\ clock \in Nat
      /\ latest <= t /\ t <= clock /\ clock <= MaxClock
  BY LockedNow DEF Allow
<1>3. /\ \/ AllowResident(g, k)
         \/ AllowUnseen(g, k)
         \/ RefuseUnseen(g, k)
         \/ AllowEvicting(g, k)
      /\ latest' = t
      /\ holder' = Nil
      /\ pc' = [pc EXCEPT ![g] = "idle"]
      /\ UNCHANGED <<clock, id, now>>
  BY DEF Allow
<1>4. /\ clock' \in 0 .. MaxClock
      /\ pc' \in [Goroutine -> {"idle", "waiting", "locked"}]
      /\ id' \in [Goroutine -> Id]
      /\ now' \in [Goroutine -> 0 .. clock']
      /\ holder' \in Goroutine \cup {Nil}
      /\ latest' \in 0 .. clock'
  BY <1>2, <1>3 DEF TypeOK
<1>5. /\ DOMAIN keys' \subseteq Key
      /\ list' \in Lists
  BY AllowKeepsOrder DEF OrderOK, Linked
<1>6. /\ Entry(latest) \subseteq Entry(t)
      /\ Bucket(latest) \subseteq Bucket(t)
      /\ \A e \in Entry(latest) : Charged(e, t, n + 1) \in Entry(t)
      /\ \A paid \in BOOLEAN : Charged(Minted(t, paid), t, n + 1) \in Entry(t)
      /\ Taken(admission, t) \in Bucket(t)
  BY <1>1, <1>2, BucketsKeepTypes DEF TypeOK
<1>7. \A j \in DOMAIN keys : keys[j] \in Entry(latest) /\ keys[j] \in Entry(t)
  BY <1>6 DEF TypeOK
<1>8. audit \in Audit /\ admission \in Bucket(latest) /\ admission \in Bucket(t)
  BY <1>6 DEF TypeOK
<1>9. \A e, mint : Audited(audit, e, t, mint) \in Audit
  <2>1. ASSUME NEW l \in Nat, NEW a \in Nat, NEW f \in Nat
        PROVE  [calls |-> audit.calls + 1, mints |-> audit.mints + l,
                admitted |-> audit.admitted + a, flood |-> audit.flood + f] \in Audit
    BY <1>8 DEF Audit
  <2>2. \A yes : One(yes) \in Nat
    BY DEF One
  <2>3. QED BY <2>1, <2>2, Zenon DEF Audited
<1> HIDE DEF k, n, t
<1>10. /\ \A j \in DOMAIN keys' : keys'[j] \in Entry(t)
       /\ admission' \in Bucket(t)
       /\ audit' \in Audit
  <2>1. CASE AllowResident(g, k)
    <3>1. /\ k \in DOMAIN keys
          /\ keys' = [keys EXCEPT ![k] = Charged(keys[k], t, n + 1)]
          /\ audit' = Audited(audit, keys[k], t, FALSE)
          /\ admission' = admission
      BY <2>1 DEF AllowResident, n, t
    <3>2. QED BY <1>6, <1>7, <1>8, <1>9, <3>1
  <2>2. ASSUME NEW S \in SUBSET DOMAIN keys, NEW paid \in BOOLEAN,
               keys' = WithMinted(S, k, g, paid)
        PROVE  \A j \in DOMAIN keys' : keys'[j] \in Entry(t)
    <3> DEFINE c == Charged(Minted(t, paid), t, n + 1)
    <3>1. keys' = [j \in S \cup {k} |-> IF j = k THEN c ELSE keys[j]]
      BY <2>2 DEF WithMinted, n, t
    <3>2. c \in Entry(t)
      BY <1>6
    <3> HIDE DEF c
    <3>3. QED BY <1>7, <3>1, <3>2
  <2>3. CASE AllowUnseen(g, k)
    <3>1. /\ keys' = WithMinted(DOMAIN keys, k, g, FALSE)
          /\ audit' = Audited(audit, Minted(t, FALSE), t, FALSE)
          /\ admission' = admission
      BY <2>3 DEF AllowUnseen, t
    <3>2. QED BY <1>8, <1>9, <2>2, <3>1
  <2>4. CASE RefuseUnseen(g, k)
    <3>1. /\ keys' = keys
          /\ admission' = Taken(admission, t)
          /\ audit' = [audit EXCEPT !.calls = @ + 1]
      BY <2>4 DEF RefuseUnseen, t
    <3>2. audit' \in Audit
      BY <1>8, <3>1 DEF Audit
    <3>3. QED BY <1>6, <1>7, <3>1, <3>2
  <2>5. CASE AllowEvicting(g, k)
    <3>1. /\ keys' = WithMinted(DOMAIN keys \ {list.tail}, k, g, TRUE)
          /\ admission' = Taken(admission, t)
          /\ audit' = Audited(audit, Minted(t, TRUE), t, TRUE)
      BY <2>5 DEF AllowEvicting, t
    <3>2. QED BY <1>6, <1>9, <2>2, <3>1
  <2>6. QED BY <1>3, <2>1, <2>3, <2>4, <2>5
<1>11. heard' \in [Key -> Nat]
  <2>1. heard' = [heard EXCEPT ![k] = IF k \in DOMAIN keys' THEN n + 1 ELSE @]
    BY Zenon DEF Allow, Hears, k, n
  <2>2. heard \in [Key -> Nat]
    BY DEF TypeOK
  <2>3. QED BY <1>1, <2>1, <2>2
<1>12. QED
  BY <1>3, <1>4, <1>5, <1>10, <1>11 DEF TypeOK, Lists

(* The invariant holds of the empty list.                                  *)
LEMMA ListInit == Init => ListInvariant
<1> SUFFICES ASSUME Init PROVE ListInvariant
  OBVIOUS
<1>1. keys = [k \in {} |-> FullBucket(0)] /\ DOMAIN keys = {}
  BY DEF Init
<1>2. 0 \in 0 .. 0 /\ 0 \in 0 .. MaxClock /\ Capacity \in 0 .. Capacity
  BY BoundsAssumption, CapacityHoldsOne
<1>3. admission \in Bucket(0) /\ audit \in Audit
  BY <1>2 DEF Init, FullBucket, Bucket, Audit
<1>4. list \in Lists
  BY DEF Init, Lists, Pointer
<1>5. TypeOK
  BY <1>1, <1>2, <1>3, <1>4 DEF Init, TypeOK, Lists
<1>6. MutexOK
  BY NilAssumption DEF Init, MutexOK
<1>7. CallsOK
  <2>1. Pending = {}
    BY DEF Init, Pending
  <2>2. Cardinality(Pending) = 0 /\ audit.calls = 0
    BY <2>1, FS_EmptySet DEF Init
  <2>3. QED BY <2>2, BoundsAssumption DEF CallsOK
<1>8. OrderOK
  BY <1>1, <1>4 DEF Init, OrderOK, Linked, Sorted, Ranks
<1>9. QED BY <1>5, <1>6, <1>7, <1>8 DEF ListInvariant

(* The calls under way are counted: one more at Call, one less at the      *)
(* return of allow, which counts a finished call instead.                  *)
LEMMA PendingCount ==
  ASSUME TypeOK, NEW g \in Goroutine, NEW s \in {"idle", "waiting", "locked"},
         pc' = [pc EXCEPT ![g] = s]
  PROVE  /\ Cardinality(Pending) \in Nat
         /\ pc[g] = "idle" /\ s # "idle"
              => Cardinality(Pending') = Cardinality(Pending) + 1
         /\ pc[g] # "idle" /\ s # "idle"
              => Cardinality(Pending') = Cardinality(Pending)
         /\ pc[g] # "idle" /\ s = "idle"
              => /\ Cardinality(Pending') = Cardinality(Pending) - 1
                 /\ Cardinality(Pending) > 0
<1>1. IsFiniteSet(Pending)
  BY IdAssumption, FS_Subset DEF Pending
<1>2. \A h \in Goroutine : pc'[h] = IF h = g THEN s ELSE pc[h]
  BY DEF TypeOK
<1>3. Cardinality(Pending) \in Nat
  BY <1>1, FS_CardinalityType
<1>4. CASE pc[g] = "idle" /\ s # "idle"
  <2>1. Pending' = Pending \cup {g} /\ g \notin Pending
    BY <1>2, <1>4 DEF Pending
  <2>2. QED BY <1>1, <1>3, <1>4, <2>1, FS_AddElement
<1>5. CASE pc[g] # "idle" /\ s # "idle"
  <2>1. Pending' = Pending
    BY <1>2, <1>5 DEF Pending
  <2>2. QED BY <1>3, <1>5, <2>1
<1>6. CASE pc[g] # "idle" /\ s = "idle"
  <2>1. Pending' = Pending \ {g} /\ g \in Pending
    BY <1>2, <1>6 DEF Pending
  <2>2. Cardinality(Pending') = Cardinality(Pending) - 1
    BY <1>1, <2>1, FS_RemoveElement
  <2>3. Cardinality(Pending) # 0
    BY <1>1, <2>1, FS_EmptySet
  <2>4. QED BY <1>3, <1>6, <2>2, <2>3
<1>7. QED BY <1>3, <1>4, <1>5, <1>6

(* No step of any goroutine breaks it.                                     *)
LEMMA ListStep == ListInvariant /\ [Next]_vars => ListInvariant'
<1> SUFFICES ASSUME ListInvariant, [Next]_vars PROVE ListInvariant'
  OBVIOUS
<1> USE DEF ListInvariant
<1>1. ASSUME NEW g \in Goroutine, NEW i \in Id, Call(g, i) PROVE ListInvariant'
  <2>1. /\ pc[g] = "idle"
        /\ audit.calls + Cardinality(Pending) < MaxCalls
        /\ pc' = [pc EXCEPT ![g] = "waiting"]
        /\ id' = [id EXCEPT ![g] = i]
        /\ UNCHANGED <<clock, now, holder, keys, list, admission, latest, audit, heard>>
    BY <1>1 DEF Call, limiter
  <2>2. TypeOK'
    BY <2>1 DEF TypeOK
  <2>3. MutexOK'
    BY <2>1 DEF MutexOK, TypeOK
  <2>4. CallsOK'
    <3>1. Cardinality(Pending) \in Nat /\ Cardinality(Pending') = Cardinality(Pending) + 1
      BY <2>1, PendingCount
    <3>2. QED BY <2>1, <3>1, BoundsAssumption DEF CallsOK, TypeOK, Audit
  <2>5. OrderOK'
    BY <2>1 DEF OrderOK, Used
  <2>6. QED BY <2>2, <2>3, <2>4, <2>5
<1>2. ASSUME NEW g \in Goroutine, Lock(g) PROVE ListInvariant'
  <2>1. /\ pc[g] = "waiting"
        /\ holder = Nil
        /\ holder' = g
        /\ now' = [now EXCEPT ![g] = clock]
        /\ pc' = [pc EXCEPT ![g] = "locked"]
        /\ UNCHANGED <<clock, id, keys, list, admission, latest, audit, heard>>
    BY <1>2 DEF Lock, limiter
  <2>2. clock \in 0 .. clock
    BY DEF TypeOK
  <2>3. TypeOK'
    BY <2>1, <2>2 DEF TypeOK
  <2>4. MutexOK'
    <3>1. \A h \in Goroutine : pc[h] # "locked"
      BY <2>1, NilAssumption DEF MutexOK
    <3>2. \A h \in Goroutine : pc'[h] = "locked" <=> h = g
      BY <2>1, <3>1 DEF TypeOK
    <3>3. latest' <= now'[g]
      BY <2>1, BoundsAssumption DEF TypeOK
    <3>4. QED BY <2>1, <3>2, <3>3 DEF MutexOK
  <2>5. CallsOK'
    <3>1. Cardinality(Pending') = Cardinality(Pending)
      BY <2>1, PendingCount
    <3>2. QED BY <2>1, <3>1 DEF CallsOK
  <2>6. OrderOK'
    BY <2>1 DEF OrderOK, Used
  <2>7. QED BY <2>3, <2>4, <2>5, <2>6
<1>3. ASSUME NEW g \in Goroutine, Allow(g) PROVE ListInvariant'
  <2>1. /\ pc[g] = "locked"
        /\ latest' = now[g]
        /\ holder' = Nil
        /\ pc' = [pc EXCEPT ![g] = "idle"]
        /\ UNCHANGED <<clock, id, now>>
        /\ audit'.calls = audit.calls + 1
    <3> DEFINE k == BoundKey(id[g])
    <3>1. \/ AllowResident(g, k)
          \/ AllowUnseen(g, k)
          \/ RefuseUnseen(g, k)
          \/ AllowEvicting(g, k)
      BY <1>3 DEF Allow
    <3> HIDE DEF k
    <3>2. (\E e, mint : audit' = Audited(audit, e, now[g], mint))
             \/ audit' = [audit EXCEPT !.calls = @ + 1]
      BY <3>1, Zenon DEF AllowResident, AllowUnseen, RefuseUnseen, AllowEvicting
    <3>3. audit'.calls = audit.calls + 1
      BY <3>2 DEF Audited, TypeOK, Audit
    <3>4. QED BY <1>3, <3>3, Zenon DEF Allow
  <2>2. TypeOK'
    BY <1>3, AllowKeepsTypes
  <2>3. MutexOK'
    <3>1. holder = g
      BY <2>1 DEF MutexOK
    <3>2. \A h \in Goroutine : pc'[h] # "locked"
      BY <2>1, <3>1 DEF MutexOK, TypeOK
    <3>3. QED BY <2>1, <3>2, NilAssumption DEF MutexOK
  <2>4. CallsOK'
    <3>1. /\ Cardinality(Pending) \in Nat
          /\ Cardinality(Pending') = Cardinality(Pending) - 1
      BY <2>1, PendingCount
    <3>2. QED BY <2>1, <3>1, BoundsAssumption DEF CallsOK, TypeOK, Audit
  <2>5. OrderOK'
    BY <1>3, AllowKeepsOrder
  <2>6. QED BY <2>2, <2>3, <2>4, <2>5
<1>4. CASE Tick
  <2>1. /\ clock < MaxClock
        /\ clock' = clock + 1
        /\ UNCHANGED <<pc, id, now, holder, keys, list, admission, latest, audit, heard>>
    BY <1>4 DEF Tick, limiter
  <2>2. clock' \in 0 .. MaxClock /\ 0 .. clock \subseteq 0 .. clock'
    BY <2>1, BoundsAssumption DEF TypeOK
  <2>3. TypeOK'
    BY <2>1, <2>2 DEF TypeOK
  <2>4. MutexOK' /\ OrderOK'
    BY <2>1 DEF MutexOK, OrderOK, Used
  <2>5. CallsOK'
    BY <2>1 DEF CallsOK, Pending
  <2>6. QED BY <2>3, <2>4, <2>5
<1>5. CASE UNCHANGED vars
  <2>1. UNCHANGED <<clock, pc, id, now, holder, keys, list, admission, latest, audit, heard>>
    BY <1>5 DEF vars, limiter
  <2>2. TypeOK' /\ MutexOK' /\ OrderOK'
    BY <2>1 DEF TypeOK, MutexOK, OrderOK, Used
  <2>3. CallsOK'
    BY <2>1 DEF CallsOK, Pending
  <2>4. QED BY <2>2, <2>3
<1>6. QED BY <1>1, <1>2, <1>3, <1>4, <1>5 DEF Next

(* The invariant holds of every behaviour.                                 *)
LEMMA ListInvariantHolds == Spec => []ListInvariant
<1>1. Init => ListInvariant
  BY ListInit
<1>2. ListInvariant /\ [Next]_vars => ListInvariant'
  BY ListStep
<1>3. QED BY <1>1, <1>2, PTL DEF Spec

(* The types of the goroutines, the mutex, the map and the list hold in    *)
(* every state.                                                            *)
THEOREM TypeCorrect == Spec => []TypeOK
<1>1. ListInvariant => TypeOK
  BY DEF ListInvariant
<1>2. QED BY <1>1, ListInvariantHolds, PTL

(* However the calls of allow interleave, the doubly linked list is at     *)
(* every instant the recency order of the map: touch, pushFront, unlink    *)
(* and evictOldest leave no dangling and no missing pointer, and the tail  *)
(* is the key idle the longest.                                            *)
THEOREM RecencyCorrect == Spec => []ListIsRecencyOrder
<1>1. ListInvariant => ListIsRecencyOrder
  <2> SUFFICES ASSUME ListInvariant PROVE ListIsRecencyOrder
    OBVIOUS
  <2> DEFINE S == DOMAIN keys
  <2>1. /\ list.head = Nil <=> S = {}
        /\ list.tail = Nil <=> S = {}
        /\ S # {} => {list.head, list.tail} \subseteq S
        /\ \A k \in Key \ S : list.prev[k] = Nil /\ list.next[k] = Nil
    BY DEF ListInvariant, OrderOK, Linked
  <2>2. ASSUME NEW k \in S
        PROVE  /\ list.prev[k] = Nil <=> k = list.head
               /\ list.next[k] = Nil <=> k = list.tail
               /\ \A j \in S : list.next[k] = j <=> list.prev[j] = k
               /\ list.next[k] # Nil => list.next[k] \in S
    BY DEF ListInvariant, OrderOK, Linked
  <2>3. ASSUME NEW k \in S, list.next[k] # Nil
        PROVE  /\ keys[list.next[k]].used < keys[k].used
               /\ \A j \in S : ~(/\ keys[list.next[k]].used < keys[j].used
                                /\ keys[j].used < keys[k].used)
    <3>1. \A j \in S : Used[j] = keys[j].used
      BY DEF Used
    <3>2. list.next[k] \in S
      BY <2>2, <2>3
    <3>3. /\ Used[list.next[k]] < Used[k]
          /\ \A j \in S : ~(Used[list.next[k]] < Used[j] /\ Used[j] < Used[k])
      BY <2>3 DEF ListInvariant, OrderOK, Sorted
    <3>4. QED BY <3>1, <3>2, <3>3
  <2>4. QED BY <2>1, <2>2, <2>3 DEF ListIsRecencyOrder
<1>2. QED BY <1>1, ListInvariantHolds, PTL

(* What the history knows of the map: the call that charged an entry last  *)
(* is the last in which its key had a bucket, and no call is still to come.*)
HeardOK ==
  /\ \A k \in DOMAIN keys : heard[k] = Used[k]
  /\ \A k \in Key : heard[k] <= audit.calls
  /\ ForgetsTheIdlest

(* Every way to finish a call keeps it.  A refused call is heard and       *)
(* touched alike; the tail, which ranks lowest, makes room.                *)
LEMMA AllowKeepsHeard ==
  ASSUME ListInvariant, HeardOK, NEW g \in Goroutine, Allow(g)
  PROVE  HeardOK'
<1> DEFINE k == BoundKey(id[g])
           S == DOMAIN keys
           n == audit.calls
<1>1. /\ k \in Key /\ n \in Nat /\ S \subseteq Key
      /\ heard \in [Key -> Nat]
  BY BoundKeyIsKey DEF ListInvariant, TypeOK, Audit
<1>2. /\ \A j \in S : heard[j] = Used[j]
      /\ \A j \in Key : heard[j] <= n
      /\ \A i \in Key \ S, j \in S : heard[i] < heard[j]
  BY DEF HeardOK, ForgetsTheIdlest
<1>3. /\ \/ AllowResident(g, k)
         \/ AllowUnseen(g, k)
         \/ RefuseUnseen(g, k)
         \/ AllowEvicting(g, k)
      /\ heard' = [heard EXCEPT ![k] = IF k \in DOMAIN keys' THEN n + 1 ELSE @]
  BY Zenon DEF Allow, Hears
<1> HIDE DEF k
<1>4. /\ heard'[k] = IF k \in DOMAIN keys' THEN n + 1 ELSE heard[k]
      /\ \A j \in Key \ {k} : heard'[j] = heard[j]
  BY <1>1, <1>3
<1>5. ASSUME NEW e, NEW mint, audit' = Audited(audit, e, now[g], mint)
      PROVE  audit'.calls = n + 1
  BY <1>5 DEF Audited
<1>6. CASE AllowResident(g, k)
  <2>1. /\ k \in S /\ DOMAIN keys' = S
        /\ keys' = [keys EXCEPT ![k] = Charged(keys[k], now[g], n + 1)]
        /\ audit'.calls = n + 1
    BY <1>6, <1>5 DEF AllowResident
  <2>2. Charged(keys[k], now[g], n + 1).used = n + 1
    BY DEF Charged
  <2>3. \A j \in S : Used'[j] = IF j = k THEN n + 1 ELSE Used[j]
    <3> DEFINE c == Charged(keys[k], now[g], n + 1)
    <3> HIDE DEF c
    <3>1. \A j \in S : keys'[j] = IF j = k THEN c ELSE keys[j]
      BY <2>1 DEF c
    <3>2. c.used = n + 1
      BY <2>2 DEF c
    <3>3. QED BY <2>1, <3>1, <3>2 DEF Used
  <2>4. heard'[k] = n + 1
    BY <1>4, <2>1
  <2>5. \A j \in S : heard'[j] = Used'[j]
    BY <1>1, <1>2, <1>4, <2>3, <2>4
  <2>6. \A j \in Key : heard'[j] <= n + 1
    BY <1>1, <1>2, <1>4, <2>4
  <2>7. \A i \in Key \ S, j \in S : heard'[i] < heard'[j]
    BY <1>1, <1>2, <1>4, <2>1, <2>4
  <2>8. QED BY <2>1, <2>5, <2>6, <2>7 DEF HeardOK, ForgetsTheIdlest
<1>7. ASSUME NEW T \in SUBSET S, NEW paid, k \notin S,
             keys' = WithMinted(T, k, g, paid), audit'.calls = n + 1,
             \A i \in S \ T, j \in T : heard[i] < heard[j]
      PROVE  HeardOK'
  <2> DEFINE c == Charged(Minted(now[g], paid), now[g], n + 1)
  <2>1. /\ DOMAIN keys' = T \cup {k}
        /\ \A j \in T \cup {k} : keys'[j] = IF j = k THEN c ELSE keys[j]
    BY <1>7 DEF WithMinted
  <2>2. c.used = n + 1
    BY DEF Charged
  <2> HIDE DEF c
  <2>3. Used'[k] = n + 1 /\ \A j \in T : Used'[j] = Used[j]
    BY <1>7, <2>1, <2>2 DEF Used
  <2>4. heard'[k] = n + 1
    BY <1>4, <2>1
  <2>5. \A j \in DOMAIN keys' : heard'[j] = Used'[j]
    BY <1>1, <1>2, <1>4, <1>7, <2>1, <2>3, <2>4
  <2>6. \A j \in Key : heard'[j] <= n + 1
    BY <1>1, <1>2, <1>4, <2>4
  <2>7. \A i \in Key \ (T \cup {k}), j \in T \cup {k} : heard'[i] < heard'[j]
    <3>1. \A i \in Key \ (T \cup {k}) : heard'[i] = heard[i] /\ heard[i] \in Nat /\ heard[i] <= n
      BY <1>1, <1>2, <1>4
    <3>2. \A j \in T : heard'[j] = heard[j]
      BY <1>1, <1>4, <1>7
    <3>3. \A i \in Key \ (T \cup {k}), j \in T : heard[i] < heard[j]
      BY <1>2, <1>7
    <3>4. QED BY <1>1, <2>4, <3>1, <3>2, <3>3
  <2>8. QED BY <1>7, <2>1, <2>5, <2>6, <2>7 DEF HeardOK, ForgetsTheIdlest
<1>8. CASE AllowUnseen(g, k)
  <2>1. /\ k \notin S
        /\ keys' = WithMinted(S, k, g, FALSE)
        /\ audit'.calls = n + 1
    BY <1>8, <1>5 DEF AllowUnseen
  <2>2. QED BY <1>7, <2>1
<1>9. CASE RefuseUnseen(g, k)
  <2>1. /\ keys' = keys /\ k \notin S
        /\ audit'.calls = n + 1
    BY <1>1, <1>9 DEF RefuseUnseen, ListInvariant, TypeOK, Audit
  <2>2. \A j \in Key : heard'[j] = heard[j]
    BY <1>4, <2>1
  <2>3. Used' = Used
    BY <2>1 DEF Used
  <2>4. \A j \in Key : heard'[j] <= n + 1
    BY <1>1, <1>2, <2>2
  <2>5. QED BY <1>1, <1>2, <2>1, <2>2, <2>3, <2>4 DEF HeardOK, ForgetsTheIdlest
<1>10. CASE AllowEvicting(g, k)
  <2> DEFINE v == list.tail
  <2>1. /\ k \notin S /\ MapFull
        /\ keys' = WithMinted(S \ {v}, k, g, TRUE)
        /\ audit'.calls = n + 1
    BY <1>10, <1>5 DEF AllowEvicting
  <2>2. S # {}
    BY <2>1, FullMapHasKeys
  <2>3. Ranks(S, Used) /\ v \in S /\ \A j \in S : Used[v] <= Used[j]
    BY <2>2, TailIsLeast DEF ListInvariant, OrderOK
  <2> HIDE DEF v
  <2>4. \A j \in S \ {v} : heard[v] < heard[j]
    BY <1>2, <2>3 DEF Ranks
  <2>5. S \ {v} \in SUBSET S /\ \A i \in S \ (S \ {v}) : i = v
    OBVIOUS
  <2> DEFINE T == S \ {v}
  <2>6. \A i \in S \ T, j \in T : heard[i] < heard[j]
    BY <2>4, <2>5
  <2> HIDE DEF T
  <2>7. T \in SUBSET S /\ keys' = WithMinted(T, k, g, TRUE)
    BY <2>1, <2>5 DEF T
  <2>8. QED BY <1>7, <2>1, <2>6, <2>7
<1>11. QED BY <1>3, <1>6, <1>8, <1>9, <1>10

(* A tenant that keeps calling is never forgotten for one that is idle:    *)
(* the key that evictOldest drops, through the links that touch, pushFront *)
(* and unlink left, is the one whose last call is the longest ago, however *)
(* the calls interleave and whether they were admitted or refused.         *)
THEOREM IdlestCorrect == Spec => []ForgetsTheIdlest
<1>1. Init => HeardOK
  BY DEF Init, HeardOK, ForgetsTheIdlest
<1>2. ListInvariant /\ HeardOK /\ [Next]_vars => HeardOK'
  <2> SUFFICES ASSUME ListInvariant, HeardOK, [Next]_vars PROVE HeardOK'
    OBVIOUS
  <2>1. ASSUME UNCHANGED <<keys, audit, heard>> PROVE HeardOK'
    BY <2>1 DEF HeardOK, ForgetsTheIdlest, Used
  <2>2. ASSUME NEW g \in Goroutine, Allow(g) PROVE HeardOK'
    BY <2>2, AllowKeepsHeard
  <2>3. CASE ~\E g \in Goroutine : Allow(g)
    BY <2>1, <2>3 DEF Next, Call, Lock, Tick, vars, limiter
  <2>4. QED BY <2>2, <2>3
<1>3. HeardOK => ForgetsTheIdlest
  BY DEF HeardOK
<1>4. QED BY <1>1, <1>2, <1>3, ListInvariantHolds, PTL DEF Spec

--------------------------------------------------------------------------------
(* The promise.                                                            *)

(* The promise speaks of buckets in the same words: its operators are the  *)
(* ones of TokenBucket, instantiated.                                      *)
LEMMA SameWords ==
  /\ \A e, t, call : Promise!Charged(e, t, call) = Charged(e, t, call)
  /\ \A b, t : Promise!Taken(b, t) = Taken(b, t)
  /\ \A b, t : Promise!Admits(b, t) <=> Admits(b, t)
  /\ \A t, paid : Promise!Minted(t, paid) = Minted(t, paid)
  /\ \A a, e, t, mint : Promise!Audited(a, e, t, mint) = Audited(a, e, t, mint)
  /\ \A t : Promise!FullBucket(t) = FullBucket(t)
  /\ Promise!MapFull <=> MapFull
<1>1. ASSUME NEW e, NEW t, NEW call, NEW paid, NEW a, NEW mint
      PROVE  /\ Promise!Charged(e, t, call) = Charged(e, t, call)
             /\ Promise!Taken(e, t) = Taken(e, t)
             /\ Promise!Admits(e, t) <=> Admits(e, t)
             /\ Promise!Minted(t, paid) = Minted(t, paid)
             /\ Promise!Audited(a, e, t, mint) = Audited(a, e, t, mint)
             /\ Promise!FullBucket(t) = FullBucket(t)
             /\ Promise!MapFull <=> MapFull
  <2>1. Promise!Capacity = Capacity
    BY DEF Promise!Capacity, Capacity
  <2>2. Promise!Refilled(e, t) = Refilled(e, t)
    BY <2>1, Zenon DEF Promise!Refilled, Refilled
  <2>3. Promise!Admits(e, t) <=> Admits(e, t)
    BY <2>2, Zenon DEF Promise!Admits, Admits
  <2>4. Promise!Taken(e, t) = Taken(e, t)
    BY <2>2, <2>3 DEF Promise!Taken, Taken
  <2>5. /\ Promise!One(Promise!Admits(e, t)) = One(Admits(e, t))
        /\ Promise!One(mint) = One(mint)
        /\ Promise!One(e.paid /\ Promise!Admits(e, t)) = One(e.paid /\ Admits(e, t))
    BY <2>3, Zenon DEF Promise!One, One
  <2>6. Promise!Charged(e, t, call) = Charged(e, t, call)
    <3>1. (IF Promise!Admits(e, t) THEN t ELSE Taken(e, t).admittedAt)
            = (IF Admits(e, t) THEN t ELSE Taken(e, t).admittedAt)
      BY <2>3, Zenon
    <3>2. QED BY <2>4, <2>5, <3>1, Zenon DEF Promise!Charged, Charged
  <2>7. Promise!Minted(t, paid) = Minted(t, paid)
    BY <2>1 DEF Promise!Minted, Minted
  <2>8. Promise!Audited(a, e, t, mint) = Audited(a, e, t, mint)
    BY <2>5, Zenon DEF Promise!Audited, Audited
  <2>9. Promise!FullBucket(t) = FullBucket(t)
    BY <2>1 DEF Promise!FullBucket, FullBucket
  <2>10. Promise!MapFull <=> MapFull
    <3>1. Promise!Cardinality(DOMAIN keys) = Cardinality(DOMAIN keys)
      BY Zenon DEF Promise!Cardinality, Cardinality
    <3>2. QED BY <3>1, Zenon DEF Promise!MapFull, MapFull
  <2>11. QED BY <2>3, <2>4, <2>6, <2>7, <2>8, <2>9, <2>10
<1>2. QED BY <1>1, Zenon

(* Every return of allow is one call of the promise, for the bound key of  *)
(* the tenant id at the instant read under the mutex.  The tail of the     *)
(* list, which evictOldest drops, is the promise's idlest entry.           *)
LEMMA AllowIsPromised ==
  ASSUME ListInvariant, NEW g \in Goroutine, Allow(g)
  PROVE  Promise!Next
<1> DEFINE k == BoundKey(id[g])
           t == now[g]
           n == audit.calls
<1>1. k \in Key /\ n \in Nat
  BY BoundKeyIsKey DEF ListInvariant, TypeOK, Audit
<1>2. t \in latest .. MaxClock
  BY LockedNow, BoundsAssumption DEF ListInvariant, Allow
<1>3. n < MaxCalls
  <2>1. pc[g] # "idle" /\ pc' = [pc EXCEPT ![g] = "idle"]
    BY DEF Allow
  <2>2. Cardinality(Pending) > 0 /\ Cardinality(Pending) \in Nat
    BY <2>1, PendingCount DEF ListInvariant
  <2>3. QED BY <1>1, <2>2, BoundsAssumption DEF ListInvariant, CallsOK
<1>4. /\ \/ AllowResident(g, k)
         \/ AllowUnseen(g, k)
         \/ RefuseUnseen(g, k)
         \/ AllowEvicting(g, k)
      /\ latest' = t
  BY DEF Allow
<1> HIDE DEF k
<1>5. CASE AllowResident(g, k)
  <2>1. Promise!AllowResident(k, t)
    BY <1>5, SameWords DEF AllowResident, Promise!AllowResident
  <2>2. QED BY <1>1, <1>2, <1>3, <1>4, <2>1 DEF Promise!Next, Promise!Allow
<1>6. CASE AllowUnseen(g, k)
  <2>1. Promise!AllowUnseen(k, t)
    <3> DEFINE m == Minted(t, FALSE)
               c == Charged(m, t, n + 1)
    <3>1. /\ Promise!Minted(t, FALSE) = m
          /\ Promise!Charged(m, t, n + 1) = c
          /\ Promise!Audited(audit, m, t, FALSE) = Audited(audit, m, t, FALSE)
          /\ Promise!MapFull <=> MapFull
      BY SameWords
    <3>2. keys' = [j \in DOMAIN keys \cup {k} |-> IF j = k THEN c ELSE keys[j]]
      BY <1>6 DEF AllowUnseen, WithMinted
    <3>3. /\ k \notin DOMAIN keys
          /\ ~MapFull
          /\ audit' = Audited(audit, m, t, FALSE)
          /\ UNCHANGED admission
      BY <1>6 DEF AllowUnseen
    <3> HIDE DEF m, c
    <3>4. QED BY <3>1, <3>2, <3>3, Zenon DEF Promise!AllowUnseen, n
  <2>2. QED BY <1>1, <1>2, <1>3, <1>4, <2>1 DEF Promise!Next, Promise!Allow
<1>7. CASE RefuseUnseen(g, k)
  <2>1. Promise!RefuseUnseen(k, t)
    BY <1>7, SameWords DEF RefuseUnseen, Promise!RefuseUnseen, MapFull, Promise!MapFull
  <2>2. QED BY <1>1, <1>2, <1>3, <1>4, <2>1 DEF Promise!Next, Promise!Allow
<1>8. CASE AllowEvicting(g, k)
  <2>1. Promise!IsIdlest(list.tail)
    <3>1. DOMAIN keys # {}
      BY <1>8, FullMapHasKeys DEF AllowEvicting
    <3>2. list.tail \in DOMAIN keys /\ \A j \in DOMAIN keys : Used[list.tail] <= Used[j]
      BY <3>1, TailIsLeast DEF ListInvariant, OrderOK
    <3>3. QED BY <3>2 DEF Promise!IsIdlest, Used
  <2>2. Promise!AllowEvicting(k, t)
    <3> DEFINE m == Minted(t, TRUE)
               c == Charged(m, t, n + 1)
    <3>1. /\ Promise!Minted(t, TRUE) = m
          /\ Promise!Charged(m, t, n + 1) = c
          /\ Promise!Audited(audit, m, t, TRUE) = Audited(audit, m, t, TRUE)
          /\ Promise!Admits(admission, t) <=> Admits(admission, t)
          /\ Promise!Taken(admission, t) = Taken(admission, t)
          /\ Promise!MapFull <=> MapFull
      BY SameWords
    <3>2. keys' = [j \in (DOMAIN keys \ {list.tail}) \cup {k} |->
                     IF j = k THEN c ELSE keys[j]]
      BY <1>8 DEF AllowEvicting, WithMinted
    <3>3. /\ k \notin DOMAIN keys
          /\ MapFull
          /\ Admits(admission, t)
          /\ admission' = Taken(admission, t)
          /\ audit' = Audited(audit, m, t, TRUE)
      BY <1>8 DEF AllowEvicting
    <3>4. list.tail \in DOMAIN keys
      BY <2>1 DEF Promise!IsIdlest
    <3> HIDE DEF m, c
    <3>5. QED BY <2>1, <3>1, <3>2, <3>3, <3>4, Zenon DEF Promise!AllowEvicting, n
  <2>3. QED BY <1>1, <1>2, <1>3, <1>4, <2>2 DEF Promise!Next, Promise!Allow
<1>9. QED BY <1>4, <1>5, <1>6, <1>7, <1>8

(* The limiter as it is written, with its goroutines, its mutex and its    *)
(* linked list, does what RateLimiter promises: whatever the interleaving, *)
(* the calls of allow act one at a time, in the order of the instants they *)
(* read.  What is proved of RateLimiter thereby holds of the code's list.  *)
THEOREM ListImplementsPromise == Spec => ImplementsPromise
<1>1. Init => Promise!Init
  BY SameWords DEF Init, Promise!Init
<1>2. ListInvariant /\ [Next]_vars => [Promise!Next]_Promise!vars
  <2> SUFFICES ASSUME ListInvariant, [Next]_vars
               PROVE  Promise!Next \/ UNCHANGED <<latest, keys, admission, audit>>
    BY DEF Promise!vars
  <2>1. ASSUME NEW g \in Goroutine, NEW i \in Id, Call(g, i)
        PROVE  UNCHANGED <<latest, keys, admission, audit>>
    BY <2>1 DEF Call, limiter
  <2>2. ASSUME NEW g \in Goroutine, Lock(g)
        PROVE  UNCHANGED <<latest, keys, admission, audit>>
    BY <2>2 DEF Lock, limiter
  <2>3. ASSUME NEW g \in Goroutine, Allow(g) PROVE Promise!Next
    BY <2>3, AllowIsPromised
  <2>4. CASE Tick
    BY <2>4 DEF Tick, limiter
  <2>5. CASE UNCHANGED vars
    BY <2>5 DEF vars, limiter
  <2>6. QED BY <2>1, <2>2, <2>3, <2>4, <2>5 DEF Next
<1>3. QED
  BY <1>1, <1>2, ListInvariantHolds, PTL DEF Spec, ImplementsPromise, Promise!Spec
================================================================================
