------------------------------ MODULE TokenBucket ------------------------------
(***************************************************************************)
(* The data of the limiter in authratelimitprocessor.go: the token bucket  *)
(* (type bucket and its method take), as operators on a record with the    *)
(* fields tokens and last, and the entries of the bucket map (type entry). *)
(* RateLimiter and LimiterList, the two levels of the limiter, share it.   *)
(*                                                                         *)
(* The code counts tokens in float64 and time in seconds, and refills      *)
(* elapsed*rate tokens.  Here time advances in ticks, and tokens are       *)
(* counted in the amount one tick refills: a request costs Cost units      *)
(* (the ticks that refill one token, 1/rate), and a bucket holds at most   *)
(* Burst requests' worth.  The arithmetic is exact where the code rounds.  *)
(***************************************************************************)
EXTENDS Integers

CONSTANTS
  Cost,   (* Units, i.e. ticks of refill, that one request takes: 1/rate.  *)
  Burst   (* Bucket size in requests; New() never passes less than 1.      *)

ASSUME CostAssumption  == Cost \in Nat \ {0}
ASSUME BurstAssumption == Burst \in Nat \ {0}

Capacity == Burst * Cost

(* What a bucket may hold at instant now: never a debt, never more than    *)
(* the burst, and never a refill time that lies in the future.             *)
Bucket(now) == [tokens : 0 .. Capacity, last : 0 .. now]

(* A new bucket starts full (newLimiter's admission, allow's new entry). *)
FullBucket(now) == [tokens |-> Capacity, last |-> now]

(* A mutation used to validate the properties: take forgets the ceiling. *)
UncappedRefilled(b, now) == b.tokens + (now - b.last)

(* The first half of take: refill by the time elapsed, up to the burst.    *)
Refilled(b, now) ==
  LET earned == b.tokens + (now - b.last)
  IN  IF earned > Capacity THEN Capacity ELSE earned

(* Whether take returns true. *)
Admits(b, now) == Refilled(b, now) >= Cost

(* A mutation: a refused request leaves the refill time behind, so the     *)
(* next call earns the same interval twice.                                *)
StaleTaken(b, now) ==
  LET left == Refilled(b, now)
  IN  IF Admits(b, now) THEN [b EXCEPT !.tokens = left - Cost, !.last = now]
                        ELSE [b EXCEPT !.tokens = left]

(* A mutation: a refused request resets the refill time but loses the      *)
(* refill itself.                                                          *)
ForgetfulTaken(b, now) ==
  IF Admits(b, now) THEN [b EXCEPT !.tokens = Refilled(b, now) - Cost, !.last = now]
                    ELSE [b EXCEPT !.last = now]

(* The bucket after take, whatever its verdict. *)
Taken(b, now) ==
  LET left == Refilled(b, now)
  IN  [b EXCEPT !.tokens = IF Admits(b, now) THEN left - Cost ELSE left,
                !.last   = now]

--------------------------------------------------------------------------------

(* An entry is a bucket with what the properties want to know of it: the   *)
(* call that last used the key, i.e. its place in the recency list; when   *)
(* the bucket was minted; when it last admitted a request and how many it  *)
(* has admitted; and whether an admission token paid for it.               *)
Entry(now) ==
  [tokens : 0 .. Capacity, last : 0 .. now, used : Nat, born : 0 .. now,
   admittedAt : 0 .. now, served : Nat, paid : BOOLEAN]

Minted(now, paid) ==
  [tokens |-> Capacity, last |-> now, used |-> 0, born |-> now,
   admittedAt |-> now, served |-> 0, paid |-> paid]

One(yes) == IF yes THEN 1 ELSE 0

(* e after the call number call moved it to the front of the recency list  *)
(* and asked it for a token.                                               *)
Charged(e, now, call) ==
  [Taken(e, now) EXCEPT !.used       = call,
                        !.admittedAt = IF Admits(e, now) THEN now ELSE @,
                        !.served     = @ + One(Admits(e, now))]

(* What the properties count over all calls.                               *)
Audit == [calls : Nat,      (* calls of allow                              *)
          mints : Nat,      (* buckets minted at an admission token's cost *)
          admitted : Nat,   (* requests admitted                           *)
          flood : Nat]      (* of those, the ones a paid bucket admitted   *)

(* The audit after a call that the entry e decides; mint says whether the  *)
(* call spent an admission token on e.                                     *)
Audited(audit, e, now, mint) ==
  [calls    |-> audit.calls + 1,
   mints    |-> audit.mints + One(mint),
   admitted |-> audit.admitted + One(Admits(e, now)),
   flood    |-> audit.flood + One(e.paid /\ Admits(e, now))]
================================================================================
