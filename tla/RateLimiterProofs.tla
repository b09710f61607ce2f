--------------------------- MODULE RateLimiterProofs ---------------------------
(***************************************************************************)
(* Proofs about RateLimiter, for every set of keys, capacity, rate and     *)
(* number of calls.                                                        *)
(***************************************************************************)
EXTENDS RateLimiter, FiniteSetTheorems, TLAPS

--------------------------------------------------------------------------------
(* Arithmetic.                                                             *)

(* A bucket holds at least one request's worth. *)
LEMMA CapacityHoldsOne ==
  Capacity \in Nat /\ Cost \in Nat /\ Cost > 0 /\ Capacity >= Cost
<1>1. Burst \in Nat /\ Burst >= 1 /\ Cost \in Nat /\ Cost >= 1
  BY CostAssumption, BurstAssumption
<1>2. ASSUME NEW m \in Nat, NEW n \in Nat, m >= 1 PROVE m * n \in Nat /\ m * n >= n
  BY <1>2, SMT
<1>3. QED BY <1>1, <1>2 DEF Capacity

(* One more request costs one more Cost. *)
LEMMA OneMore ==
  ASSUME NEW n \in Nat
  PROVE  n * Cost \in Nat /\ (n + 1) * Cost = n * Cost + Cost
<1>1. ASSUME NEW c \in Nat PROVE n * c \in Nat /\ (n + 1) * c = n * c + c
  BY SMT
<1>2. QED BY <1>1, CapacityHoldsOne

--------------------------------------------------------------------------------
(* The bucket and the entry.                                               *)

(* A yes counts one, a no nothing.                                         *)
LEMMA OneIsNat ==
  ASSUME NEW yes
  PROVE  One(yes) \in Nat /\ (yes => One(yes) = 1) /\ (~yes => One(yes) = 0)
  BY DEF One

(* The audit's counters stay counters.                                     *)
LEMMA AuditedAudit ==
  ASSUME NEW a \in Audit, NEW e, NEW now, NEW mint
  PROVE  Audited(a, e, now, mint) \in Audit
<1>1. ASSUME NEW l \in Nat, NEW m \in Nat, NEW n \in Nat
      PROVE  [calls |-> a.calls + 1, mints |-> a.mints + l,
              admitted |-> a.admitted + m, flood |-> a.flood + n] \in Audit
  BY DEF Audit
<1>2. /\ One(mint) \in Nat
      /\ One(Admits(e, now)) \in Nat
      /\ One(e.paid /\ Admits(e, now)) \in Nat
  BY OneIsNat
<1>3. QED BY <1>1, <1>2, Zenon DEF Audited

(* Refilling earns at most the time elapsed and stays within the burst. *)
LEMMA RefillBounds ==
  ASSUME NEW b, b.tokens \in 0 .. Capacity, b.last \in Nat,
         NEW now \in Nat, b.last <= now
  PROVE  /\ Refilled(b, now) \in 0 .. Capacity
         /\ Refilled(b, now) >= b.tokens
         /\ Refilled(b, now) <= b.tokens + (now - b.last)
         /\ \/ Refilled(b, now) = Capacity
            \/ Refilled(b, now) = b.tokens + (now - b.last)
  BY CapacityHoldsOne DEF Refilled

(* Asked for a token, a bucket stays a bucket, and gives out no more than  *)
(* what it held and earned.                                                *)
LEMMA TakenBucket ==
  ASSUME NEW clk \in Nat, NEW b \in Bucket(clk), NEW now \in Nat, clk <= now
  PROVE  /\ Taken(b, now) \in Bucket(now)
         /\ Taken(b, now).last = now
         /\ Taken(b, now).tokens =
              IF Admits(b, now) THEN Refilled(b, now) - Cost ELSE Refilled(b, now)
<1>1. /\ b.tokens \in 0 .. Capacity /\ b.last \in Nat /\ b.last <= now
      /\ b = [tokens |-> b.tokens, last |-> b.last]
  BY DEF Bucket
<1>2. Refilled(b, now) \in 0 .. Capacity
  BY <1>1, RefillBounds
<1>3. (IF Admits(b, now) THEN Refilled(b, now) - Cost ELSE Refilled(b, now))
        \in 0 .. Capacity
  BY <1>2, CapacityHoldsOne DEF Admits
<1>4. now \in 0 .. now
  OBVIOUS
<1>5. QED
  BY <1>3, <1>4 DEF Bucket, Taken

(* The same of an entry, with what allow records of the call. *)
LEMMA ChargedEntry ==
  ASSUME NEW clk \in Nat, NEW e \in Entry(clk), NEW now \in Nat, clk <= now,
         NEW call \in Nat
  PROVE  LET f == Charged(e, now, call)
         IN  /\ f \in Entry(now)
             /\ f.used = call /\ f.last = now /\ f.born = e.born
             /\ f.paid = e.paid
             /\ f.tokens = IF Admits(e, now) THEN Refilled(e, now) - Cost
                                             ELSE Refilled(e, now)
             /\ f.served = e.served + One(Admits(e, now))
             /\ f.admittedAt = IF Admits(e, now) THEN now ELSE e.admittedAt
<1>1. /\ e.tokens \in 0 .. Capacity /\ e.last \in Nat /\ e.last <= now
      /\ e.served \in Nat /\ e.born \in 0 .. now /\ e.admittedAt \in 0 .. now
      /\ e.paid \in BOOLEAN /\ e.used \in Nat
  BY DEF Entry
<1>2. Refilled(e, now) \in 0 .. Capacity
  BY <1>1, RefillBounds
<1>3. (IF Admits(e, now) THEN Refilled(e, now) - Cost ELSE Refilled(e, now))
        \in 0 .. Capacity
  BY <1>2, CapacityHoldsOne DEF Admits
<1>4. now \in 0 .. now
  OBVIOUS
<1>5. e.served + One(Admits(e, now)) \in Nat
  BY <1>1 DEF One
<1>6. (IF Admits(e, now) THEN now ELSE e.admittedAt) \in 0 .. now
  BY <1>1, <1>4
<1>7. Charged(e, now, call) \in Entry(now)
  BY <1>1, <1>3, <1>4, <1>5, <1>6 DEF Entry, Taken, Charged
<1>8. QED
  BY <1>7 DEF Entry, Taken, Charged

(* A minted entry is an entry. *)
LEMMA MintedEntry ==
  ASSUME NEW now \in Nat, NEW paid \in BOOLEAN
  PROVE  Minted(now, paid) \in Entry(now)
  BY CapacityHoldsOne DEF Minted, Entry

(* Entries and buckets of an instant are entries and buckets of any later. *)
LEMMA LaterEntry ==
  ASSUME NEW clk \in Nat, NEW now \in Nat, clk <= now
  PROVE  Entry(clk) \subseteq Entry(now) /\ Bucket(clk) \subseteq Bucket(now)
<1>1. 0 .. clk \subseteq 0 .. now
  OBVIOUS
<1>2. QED BY <1>1 DEF Entry, Bucket

--------------------------------------------------------------------------------
(* What one call may do to the map: every entry after it is one that was   *)
(* there before, or the caller's, charged for this call.                   *)

Before(k, now) == {Minted(now, FALSE), Minted(now, TRUE)}
                    \cup (IF k \in DOMAIN keys THEN {keys[k]} ELSE {})

(* A call charges the caller's entry, or one minted for it, and leaves     *)
(* every other entry that stays as it was.                                 *)
LEMMA AllowChangesCaller ==
  ASSUME NEW k \in Key, NEW now \in clock .. MaxClock, Allow(k, now)
  PROVE  /\ clock' = now
         /\ DOMAIN keys' \subseteq DOMAIN keys \cup {k}
         /\ \A j \in DOMAIN keys' :
              \/ j \in DOMAIN keys /\ keys'[j] = keys[j] /\ (RefuseUnseen(k, now) \/ j # k)
              \/ j = k /\ \E e \in Before(k, now) :
                           keys'[j] = Charged(e, now, audit.calls + 1)
         /\ admission' = admission \/ admission' = Taken(admission, now)
<1>1. CASE AllowResident(k, now)
  BY <1>1 DEF AllowResident, Before, Allow
<1>2. CASE AllowUnseen(k, now)
  BY <1>2 DEF AllowUnseen, Before, Allow
<1>3. CASE RefuseUnseen(k, now)
  BY <1>3 DEF RefuseUnseen, Allow
<1>4. CASE AllowEvicting(k, now)
  BY <1>4 DEF AllowEvicting, Before, Allow
<1>5. QED
  BY <1>1, <1>2, <1>3, <1>4 DEF Allow

(* The caller's entry is well formed before it is charged. *)
LEMMA BeforeIsEntry ==
  ASSUME TypeOK, NEW k \in Key, NEW now \in clock .. MaxClock,
         NEW e \in Before(k, now)
  PROVE  e \in Entry(now)
<1>1. clock \in Nat /\ now \in Nat /\ clock <= now
  BY BoundsAssumption DEF TypeOK
<1>2. CASE k \in DOMAIN keys /\ e = keys[k]
  <2>1. e \in Entry(clock)
    BY <1>2 DEF TypeOK
  <2>2. QED BY <2>1, <1>1, LaterEntry
<1>3. CASE \E paid \in BOOLEAN : e = Minted(now, paid)
  BY <1>1, <1>3, MintedEntry
<1>4. QED
  BY <1>2, <1>3 DEF Before

--------------------------------------------------------------------------------

(* Type correctness: no bucket goes into debt, over its burst or into the  *)
(* future, whatever the calls and their instants.                          *)
THEOREM TypeCorrect == Spec => []TypeOK
<1>1. Init => TypeOK
  BY CapacityHoldsOne, BoundsAssumption
     DEF Init, TypeOK, FullBucket, Bucket, Audit
<1>2. TypeOK /\ [Next]_vars => TypeOK'
  <2> SUFFICES ASSUME TypeOK, [Next]_vars PROVE TypeOK'
    OBVIOUS
  <2>1. ASSUME NEW k \in Key, NEW now \in clock .. MaxClock, Allow(k, now)
        PROVE  TypeOK'
    <3>1. /\ clock \in Nat /\ now \in Nat /\ clock <= now /\ clock' = now
          /\ now \in 0 .. MaxClock
      BY <2>1, BoundsAssumption DEF TypeOK, Allow
    <3>2. audit.calls + 1 \in Nat
      BY DEF TypeOK, Audit
    <3>3. DOMAIN keys' \subseteq Key
      BY <2>1, AllowChangesCaller DEF TypeOK
    <3>4. ASSUME NEW j \in DOMAIN keys' PROVE keys'[j] \in Entry(clock')
      <4>1. CASE j \in DOMAIN keys /\ keys'[j] = keys[j]
        BY <4>1, <3>1, LaterEntry DEF TypeOK
      <4>2. ASSUME NEW e \in Before(k, now),
                   keys'[j] = Charged(e, now, audit.calls + 1)
            PROVE  keys'[j] \in Entry(clock')
        BY <4>2, <3>1, <3>2, BeforeIsEntry, ChargedEntry
      <4>3. QED
        BY <2>1, <4>1, <4>2, AllowChangesCaller
    <3>5. admission' \in Bucket(clock')
      <4>1. Taken(admission, now) \in Bucket(now)
        BY <3>1, TakenBucket DEF TypeOK
      <4>2. admission \in Bucket(now)
        BY <3>1, LaterEntry DEF TypeOK
      <4>3. QED
        BY <2>1, <3>1, <4>1, <4>2, AllowChangesCaller
    <3>6. audit' \in Audit
      <4>1. ASSUME NEW e, NEW mint PROVE Audited(audit, e, now, mint) \in Audit
        BY AuditedAudit DEF TypeOK
      <4>2. CASE RefuseUnseen(k, now)
        BY <4>2 DEF RefuseUnseen, TypeOK, Audit
      <4>3. CASE AllowResident(k, now)
        <5>1. audit' = Audited(audit, keys[k], now, FALSE)
          BY <4>3, Zenon DEF AllowResident
        <5>2. QED BY <4>1, <5>1, Zenon
      <4>4. CASE AllowUnseen(k, now)
        <5>1. audit' = Audited(audit, Minted(now, FALSE), now, FALSE)
          BY <4>4, Zenon DEF AllowUnseen
        <5>2. QED BY <4>1, <5>1, Zenon
      <4>5. CASE AllowEvicting(k, now)
        <5>1. audit' = Audited(audit, Minted(now, TRUE), now, TRUE)
          BY <4>5, Zenon DEF AllowEvicting
        <5>2. QED BY <4>1, <5>1, Zenon
      <4>6. QED
        BY <2>1, <4>2, <4>3, <4>4, <4>5 DEF Allow
    <3>7. QED
      BY <3>1, <3>3, <3>4, <3>5, <3>6 DEF TypeOK
  <2>2. CASE UNCHANGED vars
    BY <2>2 DEF vars, TypeOK
  <2>3. QED
    BY <2>1, <2>2 DEF Next
<1>3. QED
  BY <1>1, <1>2, PTL DEF Spec

--------------------------------------------------------------------------------
(* The rate of one bucket.                                                 *)

(* One call leaves an entry within its rate, and charges a refusal nothing. *)
LEMMA ChargedWithinRate ==
  ASSUME NEW clk \in Nat, NEW e \in Entry(clk), NEW now \in Nat, clk <= now,
         NEW call \in Nat, EntryWithinRate(e), EntryKeepsPace(e)
  PROVE  LET f == Charged(e, now, call)
         IN  EntryWithinRate(f) /\ EntryKeepsPace(f)
<1> DEFINE f == Charged(e, now, call)
<1>1. /\ e.tokens \in 0 .. Capacity /\ e.last \in Nat /\ e.last <= now
      /\ e.served \in Nat /\ e.born \in Nat /\ e.admittedAt \in Nat
  BY DEF Entry
<1>2. /\ f.last = now /\ f.born = e.born
      /\ f.tokens = IF Admits(e, now) THEN Refilled(e, now) - Cost
                                      ELSE Refilled(e, now)
      /\ f.served = e.served + One(Admits(e, now))
      /\ f.admittedAt = IF Admits(e, now) THEN now ELSE e.admittedAt
  BY ChargedEntry
<1>3. /\ Refilled(e, now) \in 0 .. Capacity
      /\ Refilled(e, now) <= e.tokens + (now - e.last)
      /\ \/ Refilled(e, now) = Capacity
         \/ Refilled(e, now) = e.tokens + (now - e.last)
  BY <1>1, RefillBounds
<1>4. /\ e.served * Cost \in Nat
      /\ (e.served + 1) * Cost = e.served * Cost + Cost
  BY <1>1, OneMore
<1>5. CASE Admits(e, now)
  <2>1. /\ f.tokens = Refilled(e, now) - Cost /\ f.served = e.served + 1
        /\ f.admittedAt = now /\ Refilled(e, now) >= Cost
    BY <1>2, <1>5, OneIsNat DEF Admits
  <2>2. EntryWithinRate(f)
    BY <1>1, <1>2, <1>3, <1>4, <2>1, CapacityHoldsOne DEF EntryWithinRate
  <2>3. EntryKeepsPace(f)
    BY <1>2, <1>3, <2>1, CapacityHoldsOne DEF EntryKeepsPace
  <2>4. QED BY <2>2, <2>3
<1>6. CASE ~Admits(e, now)
  <2>1. /\ f.tokens = Refilled(e, now) /\ f.served = e.served
        /\ f.admittedAt = e.admittedAt
    BY <1>1, <1>2, <1>6, OneIsNat
  <2>2. EntryWithinRate(f)
    BY <1>1, <1>2, <1>3, <1>4, <2>1, CapacityHoldsOne DEF EntryWithinRate
  <2>3. EntryKeepsPace(f)
    BY <1>1, <1>2, <1>3, <2>1, CapacityHoldsOne DEF EntryKeepsPace
  <2>4. QED BY <2>2, <2>3
<1>7. QED BY <1>5, <1>6

(* So does a call that mints the entry first. *)
LEMMA MintedWithinRate ==
  ASSUME NEW now \in Nat, NEW paid \in BOOLEAN
  PROVE  EntryWithinRate(Minted(now, paid)) /\ EntryKeepsPace(Minted(now, paid))
  BY CapacityHoldsOne DEF EntryWithinRate, EntryKeepsPace, Minted

(* The two are invariant together. *)
LEMMA RateAndPace == Spec => [](KeyWithinRate /\ RefusalsAreNotCharged)
<1> DEFINE RateInv == KeyWithinRate /\ RefusalsAreNotCharged
<1>1. Init => RateInv
  BY DEF Init, KeyWithinRate, RefusalsAreNotCharged
<1>2. TypeOK /\ RateInv /\ [Next]_vars => RateInv'
  <2> SUFFICES ASSUME TypeOK, RateInv, [Next]_vars PROVE RateInv'
    OBVIOUS
  <2>1. ASSUME NEW k \in Key, NEW now \in clock .. MaxClock, Allow(k, now),
               NEW j \in DOMAIN keys'
        PROVE  EntryWithinRate(keys'[j]) /\ EntryKeepsPace(keys'[j])
    <3>1. now \in Nat /\ audit.calls + 1 \in Nat
      BY <2>1, BoundsAssumption DEF TypeOK, Audit
    <3>2. CASE j \in DOMAIN keys /\ keys'[j] = keys[j]
      BY <3>2 DEF KeyWithinRate, RefusalsAreNotCharged
    <3>3. ASSUME NEW e \in Before(k, now),
                 keys'[j] = Charged(e, now, audit.calls + 1)
          PROVE  EntryWithinRate(keys'[j]) /\ EntryKeepsPace(keys'[j])
      <4>1. e \in Entry(now)
        BY <3>3, BeforeIsEntry
      <4>2. EntryWithinRate(e) /\ EntryKeepsPace(e)
        BY <3>1, <3>3, MintedWithinRate
           DEF Before, KeyWithinRate, RefusalsAreNotCharged
      <4>3. QED
        BY <3>1, <3>3, <4>1, <4>2, ChargedWithinRate
    <3>4. QED
      BY <2>1, <3>2, <3>3, AllowChangesCaller
  <2>2. CASE UNCHANGED vars
    BY <2>2 DEF vars, KeyWithinRate, RefusalsAreNotCharged
  <2>3. QED
    BY <2>1, <2>2 DEF Next, KeyWithinRate, RefusalsAreNotCharged
<1>3. QED
  BY <1>1, <1>2, TypeCorrect, PTL DEF Spec

(* Every bucket admits no more than its burst and its rate allow, for      *)
(* every number of keys and however the calls interleave.                  *)
THEOREM RateCorrect == Spec => []KeyWithinRate
  BY RateAndPace, PTL

(* No refusal is charged to the bucket that refused: it holds what it      *)
(* earned since the last request it admitted.                              *)
THEOREM RefusalCorrect == Spec => []RefusalsAreNotCharged
  BY RateAndPace, PTL

(* The churn of the key space keeps to the configured rate and burst: each *)
(* eviction spent a token of the one admission bucket.                     *)
THEOREM ChurnCorrect == Spec => []MintsWithinRate
<1>1. Init => MintsWithinRate
  BY CapacityHoldsOne DEF Init, MintsWithinRate, FullBucket
<1>2. TypeOK /\ MintsWithinRate /\ [Next]_vars => MintsWithinRate'
  <2> SUFFICES ASSUME TypeOK, MintsWithinRate, [Next]_vars PROVE MintsWithinRate'
    OBVIOUS
  <2>1. ASSUME NEW k \in Key, NEW now \in clock .. MaxClock, Allow(k, now)
        PROVE  MintsWithinRate'
    <3>1. /\ clock \in Nat /\ now \in Nat /\ clock <= now
          /\ admission \in Bucket(clock) /\ audit.mints \in Nat
      BY <2>1, BoundsAssumption DEF TypeOK, Audit
    <3>2. /\ admission.tokens \in 0 .. Capacity /\ admission.last \in Nat
          /\ admission.last <= now
      BY <3>1 DEF Bucket
    <3>3. Refilled(admission, now) \in 0 .. Capacity
          /\ Refilled(admission, now) <= admission.tokens + (now - admission.last)
      BY <3>1, <3>2, RefillBounds
    <3>4. audit.mints * Cost \in Nat
          /\ (audit.mints + 1) * Cost = audit.mints * Cost + Cost
      BY <3>1, OneMore
    <3>5. audit.mints * Cost + admission.tokens <= Capacity + admission.last
      BY DEF MintsWithinRate
    <3>6. CASE audit'.mints = audit.mints /\ UNCHANGED admission
      BY <3>5, <3>6 DEF MintsWithinRate
    <3>7. CASE RefuseUnseen(k, now)
      <4>1. audit'.mints = audit.mints /\ admission'.last = now
            /\ admission'.tokens = Refilled(admission, now)
        BY <3>1, <3>7, TakenBucket DEF RefuseUnseen, TypeOK, Audit
      <4>2. QED
        BY <3>1, <3>2, <3>3, <3>4, <3>5, <4>1, CapacityHoldsOne
           DEF MintsWithinRate
    <3>8. CASE AllowEvicting(k, now)
      <4>1. /\ Admits(admission, now)
            /\ admission' = Taken(admission, now)
            /\ audit' = Audited(audit, Minted(now, TRUE), now, TRUE)
        BY <3>8, Zenon DEF AllowEvicting
      <4>2. audit'.mints = audit.mints + 1
        BY <4>1 DEF Audited, One
      <4>3. /\ admission'.last = now
            /\ admission'.tokens = Refilled(admission, now) - Cost
        BY <3>1, <4>1, TakenBucket
      <4>4. QED
        BY <3>1, <3>2, <3>3, <3>4, <3>5, <4>2, <4>3, CapacityHoldsOne
           DEF MintsWithinRate
    <3>9. CASE AllowResident(k, now) \/ AllowUnseen(k, now)
      <4>1. UNCHANGED admission
        BY <3>9 DEF AllowResident, AllowUnseen
      <4>2. \E e : audit' = Audited(audit, e, now, FALSE)
        BY <3>9, Zenon DEF AllowResident, AllowUnseen
      <4>3. audit'.mints = audit.mints
        BY <3>1, <4>2 DEF Audited, One
      <4>4. QED BY <3>6, <4>1, <4>3
    <3>10. QED
      BY <2>1, <3>7, <3>8, <3>9 DEF Allow
  <2>2. CASE UNCHANGED vars
    BY <2>2 DEF vars, MintsWithinRate
  <2>3. QED
    BY <2>1, <2>2 DEF Next
<1>3. QED
  BY <1>1, <1>2, TypeCorrect, PTL DEF Spec

--------------------------------------------------------------------------------
(* The map.                                                                *)

(* max_keys bounds the map whatever keys the callers cycle through.        *)
THEOREM MemoryCorrect == Spec => []BoundedMemory
<1>1. Init => BoundedMemory
  BY MaxKeysAssumption, FS_EmptySet DEF Init, BoundedMemory
<1>2. TypeOK /\ BoundedMemory /\ [Next]_vars => BoundedMemory'
  <2> SUFFICES ASSUME TypeOK, BoundedMemory, [Next]_vars PROVE BoundedMemory'
    OBVIOUS
  <2> DEFINE S == DOMAIN keys
  <2>1. IsFiniteSet(S) /\ Cardinality(S) \in Nat /\ MaxKeys \in Nat
    BY KeyAssumption, MaxKeysAssumption, FS_Subset, FS_CardinalityType DEF TypeOK
  <2>2. ASSUME NEW k \in Key, NEW now \in clock .. MaxClock, Allow(k, now)
        PROVE  Cardinality(DOMAIN keys') <= MaxKeys
    <3>1. CASE AllowResident(k, now) \/ RefuseUnseen(k, now)
      <4>1. DOMAIN keys' = S
        BY <3>1 DEF AllowResident, RefuseUnseen
      <4>2. QED BY <4>1 DEF BoundedMemory
    <3>2. CASE AllowUnseen(k, now)
      <4>1. DOMAIN keys' = S \cup {k} /\ k \notin S /\ ~(Cardinality(S) >= MaxKeys)
        BY <3>2 DEF AllowUnseen, MapFull
      <4>2. Cardinality(S \cup {k}) = Cardinality(S) + 1
        BY <2>1, <4>1, FS_AddElement
      <4>3. QED BY <2>1, <4>1, <4>2
    <3>3. CASE AllowEvicting(k, now)
      <4>1. PICK v \in S : DOMAIN keys' = (S \ {v}) \cup {k} /\ k \notin S
        BY <3>3 DEF AllowEvicting
      <4>2. IsFiniteSet(S \ {v}) /\ Cardinality(S \ {v}) = Cardinality(S) - 1
        BY <2>1, FS_RemoveElement
      <4>3. Cardinality((S \ {v}) \cup {k}) = Cardinality(S)
        BY <2>1, <4>1, <4>2, FS_AddElement
      <4>4. QED BY <4>1, <4>3 DEF BoundedMemory
    <3>4. QED
      BY <2>2, <3>1, <3>2, <3>3 DEF Allow
  <2>3. CASE UNCHANGED vars
    BY <2>3 DEF vars, BoundedMemory
  <2>4. QED
    BY <2>2, <2>3 DEF Next, BoundedMemory
<1>3. QED
  BY <1>1, <1>2, TypeCorrect, PTL DEF Spec

--------------------------------------------------------------------------------
(* All keys together.  The sum over the resident keys that the argument    *)
(* needs is the size of a finite set of units, one row per key.            *)

Rows(f) == {p \in (DOMAIN f) \X Nat : p[2] \in 1 .. f[p[1]]}

(* Rows of at most n units take at most n units per key. *)
LEMMA RowsBound ==
  ASSUME NEW n \in Nat, NEW S, IsFiniteSet(S), NEW f \in [S -> 0 .. n]
  PROVE  /\ IsFiniteSet(Rows(f))
         /\ Cardinality(Rows(f)) \in Nat
         /\ Cardinality(Rows(f)) <= Cardinality(S) * n
<1>1. IsFiniteSet(1 .. n) /\ Cardinality(1 .. n) = n
  BY FS_Interval
<1>2. IsFiniteSet(S \X (1 .. n)) /\ Cardinality(S \X (1 .. n)) = Cardinality(S) * n
  BY <1>1, FS_Product
<1>3. Rows(f) \subseteq S \X (1 .. n)
  <2>1. ASSUME NEW p \in S \X Nat, p[2] \in 1 .. f[p[1]] PROVE p \in S \X (1 .. n)
    <3>1. PICK k \in S, i \in Nat : p = <<k, i>>
      OBVIOUS
    <3>2. f[k] \in 0 .. n /\ i \in 1 .. f[k]
      BY <2>1, <3>1
    <3>3. i \in 1 .. n
      BY <3>2
    <3>4. QED BY <3>1, <3>3
  <2>2. QED BY <2>1 DEF Rows
<1>4. QED BY <1>2, <1>3, FS_Subset, FS_CardinalityType

(* A further key adds its row. *)
LEMMA RowAdded ==
  ASSUME NEW n \in Nat, NEW S, IsFiniteSet(S), NEW f \in [S -> 0 .. n],
         NEW k, k \notin S, NEW g \in [S \cup {k} -> 0 .. n],
         \A j \in S : g[j] = f[j]
  PROVE  Cardinality(Rows(g)) = Cardinality(Rows(f)) + g[k]
<1> DEFINE R == {k} \X (1 .. g[k])
<1>1. g[k] \in Nat
  OBVIOUS
<1>2. IsFiniteSet(R) /\ Cardinality(R) = g[k]
  <2>1. IsFiniteSet(1 .. g[k]) /\ Cardinality(1 .. g[k]) = g[k]
    BY <1>1, FS_Interval
  <2>2. IsFiniteSet({k}) /\ Cardinality({k}) = 1
    BY FS_Singleton
  <2>3. /\ IsFiniteSet({k} \X (1 .. g[k]))
        /\ Cardinality({k} \X (1 .. g[k])) = Cardinality({k}) * Cardinality(1 .. g[k])
    BY <2>1, <2>2, FS_Product, Zenon
  <2>4. Cardinality(R) = 1 * g[k]
    BY <2>1, <2>2, <2>3, Zenon
  <2>5. QED BY <1>1, <2>3, <2>4
<1>3. IsFiniteSet(Rows(f)) /\ Cardinality(Rows(f)) \in Nat
  BY RowsBound
<1>4. Rows(g) = Rows(f) \cup R
  <2>1. ASSUME NEW j, NEW i
        PROVE  <<j, i>> \in Rows(g) <=> <<j, i>> \in Rows(f) \cup R
    <3>1. <<j, i>> \in Rows(g) <=> j \in S \cup {k} /\ i \in Nat /\ i \in 1 .. g[j]
      BY DEF Rows
    <3>2. <<j, i>> \in Rows(f) <=> j \in S /\ i \in Nat /\ i \in 1 .. f[j]
      BY DEF Rows
    <3>3. <<j, i>> \in R <=> j = k /\ i \in 1 .. g[k]
      OBVIOUS
    <3>4. i \in 1 .. g[k] => i \in Nat
      BY <1>1
    <3> HIDE DEF R
    <3>5. QED BY <3>1, <3>2, <3>3, <3>4
  <2>2. \A p \in Rows(g) : \E j, i : p = <<j, i>>
    BY DEF Rows
  <2>3. \A p \in Rows(f) \cup R : \E j, i : p = <<j, i>>
    BY DEF Rows
  <2> HIDE DEF R
  <2>4. QED BY <2>1, <2>2, <2>3
<1>5. Rows(f) \cap R = {}
  BY DEF Rows
<1> HIDE DEF R
<1>6. Cardinality(Rows(f) \cap R) = 0
  BY <1>5, FS_EmptySet
<1>7. Cardinality(Rows(f) \cup R)
         = Cardinality(Rows(f)) + Cardinality(R) - Cardinality(Rows(f) \cap R)
  BY <1>2, <1>3, FS_Union, Zenon
<1>8. QED BY <1>1, <1>2, <1>3, <1>4, <1>6, <1>7

(* A key that takes another's place, or its own, replaces that row. *)
LEMMA RowReplaced ==
  ASSUME NEW n \in Nat, NEW S, IsFiniteSet(S), NEW f \in [S -> 0 .. n],
         NEW v \in S, NEW k, k \notin S \ {v},
         NEW g \in [(S \ {v}) \cup {k} -> 0 .. n],
         \A j \in S \ {v} : g[j] = f[j]
  PROVE  Cardinality(Rows(g)) = Cardinality(Rows(f)) - f[v] + g[k]
<1> DEFINE R == S \ {v}
           h == [j \in R |-> f[j]]
<1>1. /\ h \in [R -> 0 .. n]
      /\ \A j \in R : h[j] = f[j]
      /\ v \notin R /\ R \cup {v} = S
      /\ f[v] \in Nat /\ g[k] \in Nat
  OBVIOUS
<1>2. IsFiniteSet(R)
  BY FS_Subset
<1> HIDE DEF h, R
<1>3. Cardinality(Rows(f)) = Cardinality(Rows(h)) + f[v]
  BY <1>1, <1>2, RowAdded, SMTT(30)
<1>4. k \notin R /\ g \in [R \cup {k} -> 0 .. n] /\ \A j \in R : g[j] = h[j]
  BY <1>1 DEF R
<1>5. Cardinality(Rows(g)) = Cardinality(Rows(h)) + g[k]
  <2>1. h \in [R -> 0 .. n] /\ k \notin R /\ g \in [R \cup {k} -> 0 .. n]
    BY <1>1, <1>4
  <2>2. \A j \in R : g[j] = h[j]
    BY <1>4
  <2>3. QED BY <1>2, <2>1, <2>2, RowAdded, SMTT(90)
<1>6. Cardinality(Rows(h)) \in Nat
  BY <1>1, <1>2, RowsBound
<1>7. QED BY <1>1, <1>3, <1>5, <1>6

(* What the bucket of an entry can have given since the clock started: it  *)
(* was full once, and earned no more than a unit a tick.                   *)
GivenBy(e) == Capacity + e.last - e.tokens
Given == [k \in DOMAIN keys |-> GivenBy(keys[k])]

(* All that was admitted was given by a bucket that an admission token has *)
(* replaced since, or by a resident one.                                   *)
GivenInvariant ==
  audit.admitted * Cost <= Capacity * audit.mints + Cardinality(Rows(Given))

(* What a bucket has given is at most its burst and the time that has      *)
(* passed.                                                                 *)
LEMMA GivenBounds ==
  ASSUME NEW now \in Nat, NEW e \in Entry(now)
  PROVE  GivenBy(e) \in Nat /\ GivenBy(e) <= Capacity + now /\ GivenBy(e) >= e.last
  BY CapacityHoldsOne DEF GivenBy, Entry

(* An admitted request is given by the bucket that admits it. *)
LEMMA ChargedGives ==
  ASSUME NEW clk \in Nat, NEW e \in Entry(clk), NEW now \in Nat, clk <= now,
         NEW call \in Nat
  PROVE  /\ Charged(e, now, call) \in Entry(now)
         /\ Admits(e, now) => GivenBy(Charged(e, now, call)) >= GivenBy(e) + Cost
         /\ GivenBy(Charged(e, now, call)) >= GivenBy(e)
<1> DEFINE f == Charged(e, now, call)
<1>1. /\ f \in Entry(now) /\ f.last = now
      /\ f.tokens = IF Admits(e, now) THEN Refilled(e, now) - Cost ELSE Refilled(e, now)
  BY ChargedEntry
<1>2. e.tokens \in 0 .. Capacity /\ e.last \in Nat /\ e.last <= now
  BY DEF Entry
<1>3. /\ Refilled(e, now) \in 0 .. Capacity
      /\ Refilled(e, now) <= e.tokens + (now - e.last)
  BY <1>2, RefillBounds
<1> HIDE DEF f
<1>4. /\ Admits(e, now) => GivenBy(f) >= GivenBy(e) + Cost
      /\ GivenBy(f) >= GivenBy(e)
  BY <1>1, <1>2, <1>3, CapacityHoldsOne DEF GivenBy
<1>5. QED BY <1>1, <1>4 DEF f

(* What a call adds to the left of the invariant.                          *)
LEMMA AdmittedAfter ==
  ASSUME NEW a \in Audit, NEW e, NEW now, NEW mint \in BOOLEAN
  PROVE  LET b == Audited(a, e, now, mint)
         IN  /\ b.admitted * Cost = a.admitted * Cost + (IF Admits(e, now) THEN Cost ELSE 0)
             /\ Capacity * b.mints = Capacity * a.mints + (IF mint THEN Capacity ELSE 0)
             /\ a.admitted * Cost \in Nat /\ Capacity * a.mints \in Nat
<1> DEFINE b == Audited(a, e, now, mint)
<1>1. a.admitted \in Nat /\ a.mints \in Nat
  BY DEF Audit
<1>2. b.admitted = a.admitted + One(Admits(e, now)) /\ b.mints = a.mints + One(mint)
  BY DEF Audited
<1> HIDE DEF b
<1>3. /\ a.admitted * Cost \in Nat
      /\ (a.admitted + 1) * Cost = a.admitted * Cost + Cost
  BY <1>1, OneMore
<1>4. ASSUME NEW c \in Nat, NEW m \in Nat
      PROVE  c * m \in Nat /\ c * (m + 1) = c * m + c
  BY SMT
<1>5. Capacity * a.mints \in Nat /\ Capacity * (a.mints + 1) = Capacity * a.mints + Capacity
  BY <1>1, <1>4, CapacityHoldsOne
<1>6. b.admitted * Cost = a.admitted * Cost + (IF Admits(e, now) THEN Cost ELSE 0)
  <2>1. CASE Admits(e, now)
    BY <1>2, <1>3, <2>1, OneIsNat
  <2>2. CASE ~Admits(e, now)
    <3>1. b.admitted = a.admitted
      BY <1>1, <1>2, <2>2, OneIsNat
    <3>2. QED BY <1>3, <2>2, <3>1
  <2>3. QED BY <2>1, <2>2
<1>7. Capacity * b.mints = Capacity * a.mints + (IF mint THEN Capacity ELSE 0)
  <2>1. CASE mint
    BY <1>2, <1>5, <2>1, OneIsNat
  <2>2. CASE ~mint
    <3>1. b.mints = a.mints
      BY <1>1, <1>2, <2>2, OneIsNat
    <3>2. QED BY <1>5, <2>2, <3>1
  <2>3. QED BY <2>1, <2>2
<1>8. QED BY <1>3, <1>5, <1>6, <1>7 DEF b

(* Every call keeps the account. *)
LEMMA GivenStep == TypeOK /\ GivenInvariant /\ [Next]_vars /\ TypeOK' => GivenInvariant'
<1> SUFFICES ASSUME TypeOK, GivenInvariant, [Next]_vars, TypeOK'
             PROVE  GivenInvariant'
  OBVIOUS
<1> DEFINE S == DOMAIN keys
           n == Capacity + MaxClock
<1>1. /\ IsFiniteSet(S) /\ n \in Nat /\ clock \in Nat /\ clock <= MaxClock
      /\ \A j \in S : keys[j] \in Entry(clock)
      /\ audit \in Audit /\ admission \in Bucket(clock)
  BY KeyAssumption, FS_Subset, CapacityHoldsOne, BoundsAssumption DEF TypeOK
<1>2. Given \in [S -> 0 .. n] /\ \A j \in S : Given[j] = GivenBy(keys[j])
  <2>1. ASSUME NEW j \in S PROVE GivenBy(keys[j]) \in 0 .. n
    BY <1>1, GivenBounds, CapacityHoldsOne, BoundsAssumption
  <2>2. QED BY <2>1 DEF Given
<1>3. /\ Given' \in [DOMAIN keys' -> 0 .. n]
      /\ \A j \in DOMAIN keys' : Given'[j] = GivenBy(keys'[j])
  <2>1. ASSUME NEW j \in DOMAIN keys' PROVE GivenBy(keys'[j]) \in 0 .. n
    <3>1. /\ clock' \in Nat /\ clock' <= MaxClock
          /\ keys'[j] \in Entry(clock')
      BY BoundsAssumption DEF TypeOK
    <3>2. GivenBy(keys'[j]) \in Nat /\ GivenBy(keys'[j]) <= Capacity + clock'
      BY <3>1, GivenBounds
    <3>3. QED BY <3>1, <3>2, CapacityHoldsOne, BoundsAssumption
  <2>2. QED BY <2>1 DEF Given
<1>4. audit.admitted * Cost <= Capacity * audit.mints + Cardinality(Rows(Given))
  BY DEF GivenInvariant
<1>5. Cardinality(Rows(Given)) \in Nat
  BY <1>1, <1>2, RowsBound
<1>6. ASSUME NEW v \in S, NEW k, NEW g, k \notin S \ {v},
             g \in [(S \ {v}) \cup {k} -> 0 .. n],
             \A j \in S \ {v} : g[j] = Given[j]
      PROVE  Cardinality(Rows(g)) = Cardinality(Rows(Given)) - Given[v] + g[k]
  <2> DEFINE f == Given
  <2>1. f \in [S -> 0 .. n] /\ \A j \in S \ {v} : g[j] = f[j]
    BY <1>2, <1>6
  <2> HIDE DEF f, n, S
  <2>2. Cardinality(Rows(g)) = Cardinality(Rows(f)) - f[v] + g[k]
    BY <1>1, <1>6, <2>1, RowReplaced, SMTT(90)
  <2>3. QED BY <2>2 DEF f
<1>7. ASSUME NEW k \in Key, NEW now \in clock .. MaxClock, Allow(k, now)
      PROVE  GivenInvariant'
  <2> DEFINE call == audit.calls + 1
  <2>1. now \in Nat /\ clock <= now /\ call \in Nat
    BY <1>1 DEF Audit
  <2> HIDE DEF call, n, S
  <2>2. CASE AllowResident(k, now)
    <3> DEFINE e == keys[k]
               f == Charged(e, now, call)
    <3>1. /\ k \in S
          /\ keys' = [keys EXCEPT ![k] = f]
          /\ audit' = Audited(audit, e, now, FALSE)
      BY <2>2 DEF AllowResident, call, S
    <3>2. /\ DOMAIN keys' = (S \ {k}) \cup {k}
          /\ keys'[k] = f
          /\ \A j \in S \ {k} : keys'[j] = keys[j]
      BY <3>1 DEF S
    <3> HIDE DEF f
    <3>3. Given'[k] = GivenBy(f) /\ \A j \in S \ {k} : Given'[j] = Given[j]
      BY <1>2, <1>3, <3>2
    <3>4. Cardinality(Rows(Given')) = Cardinality(Rows(Given)) - Given[k] + GivenBy(f)
      <4>1. Given' \in [(S \ {k}) \cup {k} -> 0 .. n]
        BY <1>3, <3>2
      <4>2. k \notin S \ {k}
        OBVIOUS
      <4>3. Cardinality(Rows(Given')) = Cardinality(Rows(Given)) - Given[k] + Given'[k]
        BY <1>6, <3>1, <3>3, <4>1, <4>2
      <4>4. QED BY <3>3, <4>3
    <3>5. /\ e \in Entry(clock)
          /\ Admits(e, now) => GivenBy(f) >= GivenBy(e) + Cost
          /\ GivenBy(f) >= GivenBy(e)
          /\ f \in Entry(now)
      BY <1>1, <2>1, <3>1, ChargedGives DEF f
    <3>6. /\ GivenBy(e) \in Nat /\ GivenBy(f) \in Nat
          /\ Given[k] = GivenBy(e)
      BY <1>1, <1>2, <2>1, <3>1, <3>5, GivenBounds
    <3>7. /\ audit'.admitted * Cost
               = audit.admitted * Cost + (IF Admits(e, now) THEN Cost ELSE 0)
          /\ Capacity * audit'.mints = Capacity * audit.mints
          /\ audit.admitted * Cost \in Nat /\ Capacity * audit.mints \in Nat
      <4>1. /\ audit'.admitted * Cost
                 = audit.admitted * Cost + (IF Admits(e, now) THEN Cost ELSE 0)
            /\ Capacity * audit'.mints
                 = Capacity * audit.mints + (IF FALSE THEN Capacity ELSE 0)
            /\ audit.admitted * Cost \in Nat /\ Capacity * audit.mints \in Nat
        <5> HIDE DEF e
        <5>1. FALSE \in BOOLEAN
          OBVIOUS
        <5>2. QED BY <1>1, <3>1, <5>1, AdmittedAfter, Zenon
      <4>2. QED BY <4>1
    <3> DEFINE x == audit.admitted * Cost
               y == Capacity * audit.mints
    <3> HIDE DEF e, x, y
    <3>8. x + (IF Admits(e, now) THEN Cost ELSE 0)
            <= y + (Cardinality(Rows(Given)) - GivenBy(e) + GivenBy(f))
      BY <1>4, <1>5, <3>5, <3>6, <3>7, CapacityHoldsOne DEF x, y
    <3>9. QED BY <3>4, <3>6, <3>7, <3>8 DEF GivenInvariant, x, y
  <2>3. ASSUME NEW paid \in BOOLEAN, NEW f,
               f = Charged(Minted(now, paid), now, call)
        PROVE  /\ GivenBy(f) \in Nat /\ GivenBy(f) >= now
               /\ Admits(Minted(now, paid), now) => GivenBy(f) >= now + Cost
    <3> DEFINE e == Minted(now, paid)
    <3>1. e \in Entry(now) /\ GivenBy(e) = now
      BY <2>1, MintedEntry, CapacityHoldsOne DEF GivenBy, Minted
    <3> HIDE DEF e
    <3>2. /\ f \in Entry(now)
          /\ Admits(e, now) => GivenBy(f) >= GivenBy(e) + Cost
          /\ GivenBy(f) >= GivenBy(e)
      BY <2>1, <2>3, <3>1, ChargedGives DEF e
    <3>3. GivenBy(f) \in Nat
      BY <2>1, <3>2, GivenBounds
    <3>4. QED BY <3>1, <3>2, <3>3 DEF e
  <2>4. CASE AllowUnseen(k, now)
    <3> DEFINE e == Minted(now, FALSE)
               f == Charged(e, now, call)
    <3>1. /\ k \notin S
          /\ keys' = [j \in S \cup {k} |-> IF j = k THEN f ELSE keys[j]]
          /\ audit' = Audited(audit, e, now, FALSE)
      BY <2>4 DEF AllowUnseen, call, S
    <3> HIDE DEF e, f
    <3>2. /\ DOMAIN keys' = S \cup {k}
          /\ keys'[k] = f
          /\ \A j \in S : keys'[j] = keys[j]
      BY <3>1
    <3>3. Given'[k] = GivenBy(f) /\ \A j \in S : Given'[j] = Given[j]
      BY <1>2, <1>3, <3>2
    <3>4. Cardinality(Rows(Given')) = Cardinality(Rows(Given)) + GivenBy(f)
      <4>1. Given' \in [S \cup {k} -> 0 .. n]
        BY <1>3, <3>2
      <4>2. Cardinality(Rows(Given')) = Cardinality(Rows(Given)) + Given'[k]
        BY <1>1, <1>2, <3>1, <3>3, <4>1, RowAdded, SMTT(30)
      <4>3. QED BY <3>3, <4>2
    <3>5. /\ GivenBy(f) \in Nat /\ GivenBy(f) >= now
          /\ Admits(e, now) => GivenBy(f) >= now + Cost
      BY <2>3 DEF e, f
    <3>6. /\ audit'.admitted * Cost
               = audit.admitted * Cost + (IF Admits(e, now) THEN Cost ELSE 0)
          /\ Capacity * audit'.mints = Capacity * audit.mints
          /\ audit.admitted * Cost \in Nat /\ Capacity * audit.mints \in Nat
      <4>1. /\ audit'.admitted * Cost
                 = audit.admitted * Cost + (IF Admits(e, now) THEN Cost ELSE 0)
            /\ Capacity * audit'.mints
                 = Capacity * audit.mints + (IF FALSE THEN Capacity ELSE 0)
            /\ audit.admitted * Cost \in Nat /\ Capacity * audit.mints \in Nat
        <5> HIDE DEF e
        <5>1. FALSE \in BOOLEAN
          OBVIOUS
        <5>2. QED BY <1>1, <3>1, <5>1, AdmittedAfter, Zenon
      <4>2. QED BY <4>1
    <3> DEFINE x == audit.admitted * Cost
               y == Capacity * audit.mints
    <3> HIDE DEF x, y
    <3>7. x + (IF Admits(e, now) THEN Cost ELSE 0)
            <= y + (Cardinality(Rows(Given)) + GivenBy(f))
      BY <1>4, <1>5, <2>1, <3>5, <3>6, CapacityHoldsOne DEF x, y
    <3>8. QED BY <3>4, <3>6, <3>7 DEF GivenInvariant, x, y
  <2>5. CASE RefuseUnseen(k, now)
    <3>1. keys' = keys /\ audit' = [audit EXCEPT !.calls = @ + 1]
      BY <2>5 DEF RefuseUnseen
    <3>2. Given' = Given /\ audit'.admitted = audit.admitted /\ audit'.mints = audit.mints
      BY <1>1, <3>1 DEF Given, Audit
    <3>3. QED BY <1>4, <3>2 DEF GivenInvariant
  <2>6. CASE AllowEvicting(k, now)
    <3> DEFINE e == Minted(now, TRUE)
               f == Charged(e, now, call)
    <3>1. PICK v \in S : keys' = [j \in (S \ {v}) \cup {k} |-> IF j = k THEN f ELSE keys[j]]
      BY <2>6 DEF AllowEvicting, call, S
    <3>2. k \notin S /\ audit' = Audited(audit, e, now, TRUE)
      BY <2>6, Zenon DEF AllowEvicting, S
    <3> HIDE DEF e, f
    <3>3. /\ DOMAIN keys' = (S \ {v}) \cup {k}
          /\ keys'[k] = f
          /\ \A j \in S \ {v} : keys'[j] = keys[j]
      BY <3>1, <3>2
    <3>4. Given'[k] = GivenBy(f) /\ \A j \in S \ {v} : Given'[j] = Given[j]
      BY <1>2, <1>3, <3>3
    <3>5. Cardinality(Rows(Given')) = Cardinality(Rows(Given)) - Given[v] + GivenBy(f)
      <4>1. Given' \in [(S \ {v}) \cup {k} -> 0 .. n]
        BY <1>3, <3>3
      <4>2. k \notin S \ {v}
        BY <3>2
      <4>3. Cardinality(Rows(Given')) = Cardinality(Rows(Given)) - Given[v] + Given'[k]
        BY <1>6, <3>4, <4>1, <4>2
      <4>4. QED BY <3>4, <4>3
    <3>6. /\ GivenBy(f) \in Nat /\ GivenBy(f) >= now
          /\ Admits(e, now) => GivenBy(f) >= now + Cost
      BY <2>3 DEF e, f
    <3>7. /\ Given[v] \in Nat /\ Given[v] <= Capacity + clock
      BY <1>1, <1>2, GivenBounds
    <3>8. /\ audit'.admitted * Cost
               = audit.admitted * Cost + (IF Admits(e, now) THEN Cost ELSE 0)
          /\ Capacity * audit'.mints = Capacity * audit.mints + Capacity
          /\ audit.admitted * Cost \in Nat /\ Capacity * audit.mints \in Nat
      BY <1>1, <3>2, AdmittedAfter
    <3> DEFINE x == audit.admitted * Cost
               y == Capacity * audit.mints
    <3> HIDE DEF x, y
    <3>9. x + (IF Admits(e, now) THEN Cost ELSE 0)
            <= y + Capacity + (Cardinality(Rows(Given)) - Given[v] + GivenBy(f))
      BY <1>1, <1>4, <1>5, <2>1, <3>6, <3>7, <3>8, CapacityHoldsOne DEF x, y
    <3>10. QED BY <3>5, <3>8, <3>9 DEF GivenInvariant, x, y
  <2>7. QED BY <1>7, <2>2, <2>4, <2>5, <2>6 DEF Allow
<1>8. CASE UNCHANGED vars
  BY <1>8 DEF vars, GivenInvariant, Given
<1>9. QED BY <1>7, <1>8 DEF Next

(* All keys together are admitted no more than a full bucket per slot of   *)
(* the map and per eviction, and one rate per slot: cycling through keys   *)
(* buys nothing beyond what admission tokens pay for.                      *)
THEOREM TotalCorrect == Spec => []TotalWithinSlots
<1>1. Init => GivenInvariant
  <2> SUFFICES ASSUME Init PROVE GivenInvariant
    OBVIOUS
  <2>1. Rows(Given) = {}
    BY DEF Init, Rows, Given
  <2>2. Cardinality(Rows(Given)) = 0
    BY <2>1, FS_EmptySet
  <2>3. audit.admitted = 0 /\ audit.mints = 0
    BY DEF Init
  <2>4. QED BY <2>2, <2>3, CapacityHoldsOne DEF GivenInvariant
<1>2. TypeOK /\ BoundedMemory /\ GivenInvariant => TotalWithinSlots
  <2> SUFFICES ASSUME TypeOK, BoundedMemory, GivenInvariant PROVE TotalWithinSlots
    OBVIOUS
  <2> DEFINE S == DOMAIN keys
             n == Capacity + clock
  <2>1. /\ IsFiniteSet(S) /\ Cardinality(S) \in Nat /\ Cardinality(S) <= MaxKeys
        /\ clock \in Nat /\ n \in Nat /\ audit.mints \in Nat /\ audit.admitted \in Nat
        /\ MaxKeys \in Nat
    BY KeyAssumption, MaxKeysAssumption, FS_Subset, FS_CardinalityType,
       CapacityHoldsOne, BoundsAssumption DEF TypeOK, Audit, BoundedMemory
  <2>2. Given \in [S -> 0 .. n]
    <3>1. ASSUME NEW j \in S PROVE GivenBy(keys[j]) \in 0 .. n
      BY <2>1, GivenBounds DEF TypeOK
    <3>2. QED BY <3>1 DEF Given
  <2> HIDE DEF n
  <2>3. Cardinality(Rows(Given)) \in Nat /\ Cardinality(Rows(Given)) <= Cardinality(S) * n
    BY <2>1, <2>2, RowsBound
  <2>4. ASSUME NEW a \in Nat, NEW b \in Nat, NEW c \in Nat, a <= b
        PROVE  a * c \in Nat /\ b * c \in Nat /\ a * c <= b * c
    BY <2>4, SMT
  <2>5. ASSUME NEW a \in Nat, NEW b \in Nat, NEW c \in Nat, NEW d \in Nat
        PROVE  /\ a * (b + c) = a * b + a * c
               /\ b * (a + d) = a * b + b * d
               /\ a * b \in Nat /\ a * c \in Nat /\ b * d \in Nat
    BY SMT
  <2>6. Cardinality(S) * n \in Nat /\ MaxKeys * n \in Nat /\ Cardinality(S) * n <= MaxKeys * n
    BY <2>1, <2>4
  <2>7. /\ Capacity * (MaxKeys + audit.mints) = Capacity * MaxKeys + Capacity * audit.mints
        /\ MaxKeys * (Capacity + clock) = Capacity * MaxKeys + MaxKeys * clock
        /\ Capacity * MaxKeys \in Nat /\ Capacity * audit.mints \in Nat
        /\ MaxKeys * clock \in Nat
    BY <2>1, <2>5, CapacityHoldsOne
  <2>8. audit.admitted * Cost \in Nat
    BY <2>1, OneMore
  <2>9. audit.admitted * Cost <= Capacity * audit.mints + Cardinality(Rows(Given))
    BY DEF GivenInvariant
  <2> DEFINE x == audit.admitted * Cost
             y == Capacity * audit.mints
             z == Capacity * MaxKeys
             w == MaxKeys * clock
             s == Cardinality(S) * n
             r == MaxKeys * n
  <2> HIDE DEF x, y, z, w, s, r
  <2>10. r = z + w
    BY <2>7 DEF r, z, w, n
  <2>11. x <= z + y + w
    BY <2>3, <2>6, <2>7, <2>8, <2>9, <2>10 DEF x, y, z, w, s, r
  <2>12. QED BY <2>7, <2>11 DEF TotalWithinSlots, x, y, z, w
<1>3. QED
  BY <1>1, <1>2, GivenStep, TypeCorrect, MemoryCorrect, PTL DEF Spec
================================================================================
