------------------------------ MODULE LimiterList ------------------------------
(***************************************************************************)
(* The limiter of authratelimitprocessor.go as it is written: goroutines   *)
(* that call allow() for the tenant id of their request, the mutex l.mu,   *)
(* the clock each call reads once it holds the mutex, and the doubly       *)
(* linked recency list (head, tail, prev, next) beside the map of entries. *)
(* It implements RateLimiter.                                              *)
(*                                                                         *)
(* An entry is identified with its key: allow never keeps a pointer to an  *)
(* entry outside the map and the list, and both only change under l.mu.    *)
(***************************************************************************)
EXTENDS TokenBucket, FiniteSets

CONSTANTS
  Id,         (* Tenant ids as the tenant processor resolves them.         *)
  OverLong,   (* The ids longer than maxKeyBytes.                          *)
  Digest,     (* The hex SHA-256 digest of each over-long id.              *)
  Goroutine,  (* The goroutines that serve requests.                       *)
  Nil,        (* The nil pointer, and the holder of a free mutex.          *)
  MaxKeys,    (* l.maxKeys: New() never passes less than 1.                *)
  MaxCalls,   (* Bound: number of calls of allow in a behaviour.           *)
  MaxClock    (* Bound: the last instant of a behaviour.                   *)

(* A digest is 64 characters, so it is not itself over-long, and SHA-256   *)
(* is taken to be free of collisions.                                      *)
ASSUME DigestAssumption ==
  /\ OverLong \subseteq Id
  /\ \A i \in OverLong : Digest[i] \in Id \ OverLong
  /\ \A i, j \in OverLong : Digest[i] = Digest[j] => i = j
ASSUME IdAssumption == IsFiniteSet(Id) /\ IsFiniteSet(Goroutine)
ASSUME NilAssumption == Nil \notin Id /\ Nil \notin Goroutine
ASSUME MaxKeysAssumption == MaxKeys \in Nat \ {0}
ASSUME BoundsAssumption  == MaxCalls \in Nat /\ MaxClock \in Nat

(* boundKey: an over-long id is replaced by its digest. *)
BoundKey(i) == IF i \in OverLong THEN Digest[i] ELSE i

Key == Id \ OverLong

VARIABLES
  clock,      (* The monotonic clock.                                      *)
  pc,         (* Where each goroutine is: idle, waiting for l.mu, locked.  *)
  id,         (* The tenant id of each goroutine's request.                *)
  now,        (* The instant each goroutine read in allow.                 *)
  holder,     (* The goroutine that holds l.mu, or Nil.                    *)
  keys,       (* l.keys.                                                   *)
  list,       (* l.head, l.tail and every entry's prev and next.           *)
  admission,  (* l.admission.                                              *)
  latest,     (* History: the instant of the latest call that returned.    *)
  audit,      (* History: see TokenBucket.                                 *)
  heard       (* History: the number of the last call in which each key    *)
              (* had a bucket, whether it admitted or refused; 0 if none.  *)

limiter == <<keys, list, admission, latest, audit, heard>>
vars == <<clock, pc, id, now, holder, limiter>>

Pointer == Key \cup {Nil}

TypeOK ==
  /\ clock \in 0 .. MaxClock
  /\ pc \in [Goroutine -> {"idle", "waiting", "locked"}]
  /\ id \in [Goroutine -> Id]
  /\ now \in [Goroutine -> 0 .. clock]
  /\ holder \in Goroutine \cup {Nil}
  /\ latest \in 0 .. clock
  /\ DOMAIN keys \subseteq Key
  /\ \A k \in DOMAIN keys : keys[k] \in Entry(latest)
  /\ list \in [head : Pointer, tail : Pointer,
               prev : [Key -> Pointer], next : [Key -> Pointer]]
  /\ admission \in Bucket(latest)
  /\ audit \in Audit
  /\ heard \in [Key -> Nat]

Init ==
  /\ clock = 0
  /\ pc = [g \in Goroutine |-> "idle"]
  /\ id \in [Goroutine -> Id]
  /\ now = [g \in Goroutine |-> 0]
  /\ holder = Nil
  /\ keys = [k \in {} |-> FullBucket(0)]
  /\ list = [head |-> Nil, tail |-> Nil,
             prev |-> [k \in Key |-> Nil], next |-> [k \in Key |-> Nil]]
  /\ admission = FullBucket(0)
  /\ latest = 0
  /\ audit = [calls |-> 0, mints |-> 0, admitted |-> 0, flood |-> 0]
  /\ heard = [k \in Key |-> 0]

--------------------------------------------------------------------------------
(* The recency list.                                                       *)

(* The assignment p.field = v, where field is f, if p is not nil. *)
Assign(f, p, v) == IF p = Nil THEN f ELSE [f EXCEPT ![p] = v]

PushFront(l, k) ==
  [head |-> k,
   tail |-> IF l.tail = Nil THEN k ELSE l.tail,
   prev |-> Assign([l.prev EXCEPT ![k] = Nil], l.head, k),
   next |-> [l.next EXCEPT ![k] = l.head]]

(* A mutation: unlink leaves the successor's prev alone. *)
UnlinkKeepsPrev(l, k) ==
  [head |-> IF l.prev[k] = Nil /\ l.head = k THEN l.next[k] ELSE l.head,
   tail |-> IF l.next[k] = Nil /\ l.tail = k THEN l.prev[k] ELSE l.tail,
   prev |-> [l.prev EXCEPT ![k] = Nil],
   next |-> [Assign(l.next, l.prev[k], l.next[k]) EXCEPT ![k] = Nil]]

Unlink(l, k) ==
  [head |-> IF l.prev[k] = Nil /\ l.head = k THEN l.next[k] ELSE l.head,
   tail |-> IF l.next[k] = Nil /\ l.tail = k THEN l.prev[k] ELSE l.tail,
   prev |-> [Assign(l.prev, l.next[k], l.prev[k]) EXCEPT ![k] = Nil],
   next |-> [Assign(l.next, l.prev[k], l.next[k]) EXCEPT ![k] = Nil]]

EvictOldest(l) == IF l.tail = Nil THEN l ELSE Unlink(l, l.tail)

(* A mutation: recency is not refreshed, the list is a queue. *)
NoTouch(l, k) == l

Touch(l, k) == IF l.head = k THEN l ELSE PushFront(Unlink(l, k), k)

--------------------------------------------------------------------------------
(* allow(), under the mutex.                                               *)

MapFull == Cardinality(DOMAIN keys) >= MaxKeys

(* A mutation: the entry is touched by the requests it admits only. *)
AllowResidentUntouched(g, k) ==
  /\ k \in DOMAIN keys
  /\ list' = IF Admits(keys[k], now[g]) THEN Touch(list, k) ELSE list
  /\ keys' = [keys EXCEPT ![k] = Charged(@, now[g], audit.calls + 1)]
  /\ audit' = Audited(audit, keys[k], now[g], FALSE)
  /\ UNCHANGED admission

(* The key's bucket decides.  Touched before it is asked for a token: a    *)
(* refused call is still activity.                                         *)
AllowResident(g, k) ==
  /\ k \in DOMAIN keys
  /\ list' = Touch(list, k)
  /\ keys' = [keys EXCEPT ![k] = Charged(@, now[g], audit.calls + 1)]
  /\ audit' = Audited(audit, keys[k], now[g], FALSE)
  /\ UNCHANGED admission

(* The entries after k got a new bucket in a map left with the keys kept. *)
WithMinted(kept, k, g, paid) ==
  [j \in kept \cup {k} |->
     IF j = k THEN Charged(Minted(now[g], paid), now[g], audit.calls + 1)
              ELSE keys[j]]

AllowUnseen(g, k) ==
  /\ k \notin DOMAIN keys
  /\ ~MapFull
  /\ list' = PushFront(list, k)
  /\ keys' = WithMinted(DOMAIN keys, k, g, FALSE)
  /\ audit' = Audited(audit, Minted(now[g], FALSE), now[g], FALSE)
  /\ UNCHANGED admission

RefuseUnseen(g, k) ==
  /\ k \notin DOMAIN keys
  /\ MapFull
  /\ ~Admits(admission, now[g])
  /\ admission' = Taken(admission, now[g])
  /\ audit' = [audit EXCEPT !.calls = @ + 1]
  /\ UNCHANGED <<keys, list>>

AllowEvicting(g, k) ==
  /\ k \notin DOMAIN keys
  /\ MapFull
  /\ Admits(admission, now[g])
  /\ admission' = Taken(admission, now[g])
  /\ list' = PushFront(EvictOldest(list), k)
  /\ keys' = WithMinted(DOMAIN keys \ {list.tail}, k, g, TRUE)
  /\ audit' = Audited(audit, Minted(now[g], TRUE), now[g], TRUE)

Pending == {g \in Goroutine : pc[g] # "idle"}

(* A request reaches the processor. *)
Call(g, i) ==
  /\ pc[g] = "idle"
  /\ audit.calls + Cardinality(Pending) < MaxCalls
  /\ pc' = [pc EXCEPT ![g] = "waiting"]
  /\ id' = [id EXCEPT ![g] = i]
  /\ UNCHANGED <<clock, now, holder, limiter>>

(* A mutation: the instant was read at some time before the mutex was won. *)
LockAfterClock(g) ==
  /\ pc[g] = "waiting"
  /\ holder = Nil
  /\ holder' = g
  /\ \E t \in 0 .. clock : now' = [now EXCEPT ![g] = t]
  /\ pc' = [pc EXCEPT ![g] = "locked"]
  /\ UNCHANGED <<clock, id, limiter>>

(* l.mu.Lock() returns, and time.Now() is read under it. *)
Lock(g) ==
  /\ pc[g] = "waiting"
  /\ holder = Nil
  /\ holder' = g
  /\ now' = [now EXCEPT ![g] = clock]
  /\ pc' = [pc EXCEPT ![g] = "locked"]
  /\ UNCHANGED <<clock, id, limiter>>

(* The history after a call for the key k: did it have a bucket? *)
Hears(k) ==
  heard' = [heard EXCEPT ![k] = IF k \in DOMAIN keys' THEN audit.calls + 1 ELSE @]

(* A mutation: an early return that skips the unlock.                      *)
AllowLeakingLock(g) ==
  LET k == BoundKey(id[g])
  IN  /\ pc[g] = "locked"
      /\ \/ AllowResident(g, k) /\ holder' = g
         \/ AllowUnseen(g, k) /\ holder' = Nil
         \/ RefuseUnseen(g, k) /\ holder' = Nil
         \/ AllowEvicting(g, k) /\ holder' = Nil
      /\ Hears(k)
      /\ latest' = now[g]
      /\ pc' = [pc EXCEPT ![g] = "idle"]
      /\ UNCHANGED <<clock, id, now>>

(* The rest of allow, up to the deferred unlock. *)
Allow(g) ==
  LET k == BoundKey(id[g])
  IN  /\ pc[g] = "locked"
      /\ \/ AllowResident(g, k)
         \/ AllowUnseen(g, k)
         \/ RefuseUnseen(g, k)
         \/ AllowEvicting(g, k)
      /\ Hears(k)
      /\ latest' = now[g]
      /\ holder' = Nil
      /\ pc' = [pc EXCEPT ![g] = "idle"]
      /\ UNCHANGED <<clock, id, now>>

Tick ==
  /\ clock < MaxClock
  /\ clock' = clock + 1
  /\ UNCHANGED <<pc, id, now, holder, limiter>>

Next ==
  \/ \E g \in Goroutine, i \in Id : Call(g, i)
  \/ \E g \in Goroutine : Lock(g)
  \/ \E g \in Goroutine : Allow(g)
  \/ Tick

Spec == Init /\ [][Next]_vars

(* A goroutine that holds l.mu runs on, and sync.Mutex hands itself to a   *)
(* goroutine that has waited for it too long, so no waiter starves.        *)
FairSpec == Spec /\ \A g \in Goroutine : WF_vars(Allow(g)) /\ SF_vars(Lock(g))

--------------------------------------------------------------------------------
(* Properties.                                                             *)

(* The list and the map agree: prev and next are inverse, head and tail    *)
(* are the ends, every resident key and no other is linked, and each next  *)
(* is the resident key used most recently before it.  So the tail, which   *)
(* evictOldest drops, is the key idle the longest.                         *)
ListIsRecencyOrder ==
  LET In == DOMAIN keys
      Before(j, k) == keys[j].used < keys[k].used
  IN  /\ list.head = Nil <=> In = {}
      /\ list.tail = Nil <=> In = {}
      /\ In # {} => {list.head, list.tail} \subseteq In
      /\ \A k \in Key \ In : list.prev[k] = Nil /\ list.next[k] = Nil
      /\ \A k \in In :
           /\ list.prev[k] = Nil <=> k = list.head
           /\ list.next[k] = Nil <=> k = list.tail
           /\ \A j \in In : list.next[k] = j <=> list.prev[j] = k
           /\ list.next[k] # Nil =>
                /\ list.next[k] \in In
                /\ Before(list.next[k], k)
                /\ ~\E j \in In : Before(list.next[k], j) /\ Before(j, k)

(* A bucket is only ever lost to make room by the key idle the longest:    *)
(* every key that has no bucket last had one in an earlier call than every *)
(* key that has one.  So a tenant that keeps calling, even if every call   *)
(* is refused, is not forgotten and handed a fresh bucket while there is   *)
(* an idler one (touch before take, and evictOldest at the tail).          *)
ForgetsTheIdlest ==
  \A j \in Key \ DOMAIN keys, k \in DOMAIN keys : heard[j] < heard[k]

(* The limiter does what RateLimiter promises: every return of allow is    *)
(* one call of the promise at the instant read under the mutex, and no     *)
(* other step changes anything the promise speaks of.                      *)
Promise == INSTANCE RateLimiter WITH clock <- latest
ImplementsPromise == Promise!Spec

(* No caller is left waiting for the mutex: every call returns.            *)
EveryCallReturns ==
  \A g \in Goroutine : pc[g] = "waiting" ~> pc[g] = "idle"
================================================================================
