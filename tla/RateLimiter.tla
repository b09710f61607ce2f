------------------------------ MODULE RateLimiter ------------------------------
(***************************************************************************)
(* What the limiter of authratelimitprocessor promises: a map of at most   *)
(* MaxKeys token buckets, one per rate-limit key.  A key that holds a      *)
(* bucket is limited by it alone; a key that holds none gets a full one    *)
(* while there is room, and after that only by winning a token from the    *)
(* shared admission bucket, at the expense of the key idle the longest.    *)
(*                                                                         *)
(* One step is one whole call of allow().  The recency list is abstracted  *)
(* by the number of the call that last used each key; LimiterList has the  *)
(* list, the mutex and the goroutines, and implements this module.         *)
(***************************************************************************)
EXTENDS TokenBucket, FiniteSets

CONSTANTS
  Key,       (* The rate-limit keys, after boundKey.                       *)
  MaxKeys,   (* l.maxKeys: New() never passes less than 1.                 *)
  MaxCalls,  (* Bound: number of calls of allow in a behaviour.            *)
  MaxClock   (* Bound: the last instant of a behaviour.                    *)

ASSUME KeyAssumption   == IsFiniteSet(Key)
ASSUME MaxKeysAssumption == MaxKeys \in Nat \ {0}
ASSUME BoundsAssumption  == MaxCalls \in Nat /\ MaxClock \in Nat

VARIABLES
  clock,      (* The instant of the latest call: the code reads time.Now() *)
              (* under the lock, so the instants of calls never decrease.  *)
  keys,       (* l.keys: the resident keys, each with its entry.           *)
  admission,  (* l.admission.                                              *)
  audit       (* History, read by the properties only.                     *)

vars == <<clock, keys, admission, audit>>

TypeOK ==
  /\ clock \in 0 .. MaxClock
  /\ DOMAIN keys \subseteq Key
  /\ \A k \in DOMAIN keys : keys[k] \in Entry(clock)
  /\ admission \in Bucket(clock)
  /\ audit \in Audit

Init ==
  /\ clock = 0
  /\ keys = [k \in {} |-> FullBucket(0)]
  /\ admission = FullBucket(0)
  /\ audit = [calls |-> 0, mints |-> 0, admitted |-> 0, flood |-> 0]

--------------------------------------------------------------------------------

(* A mutation: the comparison with the cap is off by one. *)
MapFullOffByOne == Cardinality(DOMAIN keys) > MaxKeys

MapFull == Cardinality(DOMAIN keys) >= MaxKeys

(* The entry at the tail of the recency list. *)
IsIdlest(v) ==
  /\ v \in DOMAIN keys
  /\ \A k \in DOMAIN keys : keys[v].used <= keys[k].used

(* The key holds a bucket: it is touched, even when the bucket refuses. *)
AllowResident(k, now) ==
  /\ k \in DOMAIN keys
  /\ keys' = [keys EXCEPT ![k] = Charged(@, now, audit.calls + 1)]
  /\ audit' = Audited(audit, keys[k], now, FALSE)
  /\ UNCHANGED admission

(* An unseen key while the map has room. *)
AllowUnseen(k, now) ==
  /\ k \notin DOMAIN keys
  /\ ~MapFull
  /\ keys' = [j \in DOMAIN keys \cup {k} |->
                IF j = k THEN Charged(Minted(now, FALSE), now, audit.calls + 1)
                         ELSE keys[j]]
  /\ audit' = Audited(audit, Minted(now, FALSE), now, FALSE)
  /\ UNCHANGED admission

(* An unseen key, a full map, and no admission token to win. *)
RefuseUnseen(k, now) ==
  /\ k \notin DOMAIN keys
  /\ MapFull
  /\ ~Admits(admission, now)
  /\ admission' = Taken(admission, now)
  /\ audit' = [audit EXCEPT !.calls = @ + 1]
  /\ UNCHANGED keys

(* An unseen key wins an admission token and the idlest key's place. *)
AllowEvicting(k, now) ==
  /\ k \notin DOMAIN keys
  /\ MapFull
  /\ Admits(admission, now)
  /\ admission' = Taken(admission, now)
  /\ \E v \in DOMAIN keys :
       /\ IsIdlest(v)
       /\ keys' = [j \in (DOMAIN keys \ {v}) \cup {k} |->
                     IF j = k THEN Charged(Minted(now, TRUE), now, audit.calls + 1)
                              ELSE keys[j]]
  /\ audit' = Audited(audit, Minted(now, TRUE), now, TRUE)

Allow(k, now) ==
  /\ audit.calls < MaxCalls
  /\ clock' = now
  /\ \/ AllowResident(k, now)
     \/ AllowUnseen(k, now)
     \/ RefuseUnseen(k, now)
     \/ AllowEvicting(k, now)

Next == \E k \in Key, now \in clock .. MaxClock : Allow(k, now)

Spec == Init /\ [][Next]_vars

--------------------------------------------------------------------------------
(* Properties.                                                             *)

(* max_keys bounds the memory whatever keys the callers cycle through: the *)
(* map never holds more than MaxKeys buckets.                              *)
BoundedMemory == Cardinality(DOMAIN keys) <= MaxKeys

(* A bucket admits, over its life, no more than its burst and the refill   *)
(* since it was minted, however its calls are spaced.                      *)
EntryWithinRate(e) == e.served * Cost + e.tokens <= Capacity + (e.last - e.born)
KeyWithinRate == \A k \in DOMAIN keys : EntryWithinRate(keys[k])

(* A key is never refused beyond its rate: refused calls in between do not *)
(* cost it the refill since the last request its bucket admitted.          *)
EntryKeepsPace(e) == e.tokens >= Capacity \/ e.tokens >= e.last - e.admittedAt
RefusalsAreNotCharged == \A k \in DOMAIN keys : EntryKeepsPace(keys[k])

(* Evicting buckets costs admission tokens, so the churn of the key space  *)
(* is capped at the configured rate and burst.                             *)
MintsWithinRate ==
  audit.mints * Cost + admission.tokens <= Capacity + admission.last

(* All keys together are admitted no more than a full bucket per slot and  *)
(* per paid mint, and one rate per slot.                                   *)
TotalWithinSlots ==
  audit.admitted * Cost <= Capacity * (MaxKeys + audit.mints) + MaxKeys * clock

(* What the comment on Config.MaxKeys and the README say of the flood of   *)
(* unseen keys past the cap: it "buys no more than the configured rate".   *)
FloodWithinRate == audit.flood * Cost <= Capacity + clock
================================================================================
