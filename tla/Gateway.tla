------------------------------ MODULE Gateway ------------------------------
(***************************************************************************)
(* The gateway's rate limiter: a bucket for each client and path, filled   *)
(* when it is first asked for after its reset time and never in between.   *)
(* Time goes in ticks, any number of requests fit into one.  A request     *)
(* that is refused (429) changes nothing here.                             *)
(***************************************************************************)
EXTENDS Integers

CONSTANTS
  Keys,     \* limiter keys: account or client address, with the path
  Rate,     \* MemoryLimiter.rate, requests per window
  Window,   \* MemoryLimiter.window, in ticks
  NoBucket  \* a key that has not been asked for yet

VARIABLES
  bucket,  \* MemoryLimiter.buckets; left is the time until reset, -1 when past
  since    \* history: since[k][n], what k got through now and n ticks back

-----------------------------------------------------------------------------

Bucket == [tokens : 0..Rate, left : -1..Window]

(* Mutant of NeedsBucket: an old bucket is never replaced.                 *)
NeedsFirstBucket(k) == bucket[k] = NoBucket

NeedsBucket(k) == bucket[k] = NoBucket \/ bucket[k].left < 0

Refuses(k) == ~NeedsBucket(k) /\ bucket[k].tokens <= 0

(* Mutant of Fresh: the request that opens the bucket costs nothing.       *)
FreshFull == [tokens |-> Rate, left |-> Window]

Fresh == [tokens |-> Rate - 1, left |-> Window]

Spend(b) == [b EXCEPT !.tokens = @ - 1]

(* The limiter lets a request through, to be proxied, or to be answered    *)
(* with 404.                                                               *)
Pass(k) ==
  /\ ~Refuses(k)
  /\ bucket' = [bucket EXCEPT ![k] =
       IF NeedsBucket(k) THEN Fresh ELSE Spend(bucket[k])]
  /\ since' = [since EXCEPT ![k] = [n \in 0..Window |-> @[n] + 1]]

Tick ==
  /\ bucket' = [k \in Keys |->
       IF NeedsBucket(k) THEN bucket[k] ELSE [bucket[k] EXCEPT !.left = @ - 1]]
  /\ since' = [k \in Keys |->
       [n \in 0..Window |-> IF n = 0 THEN 0 ELSE since[k][n - 1]]]

GInit ==
  /\ bucket = [k \in Keys |-> NoBucket]
  /\ since = [k \in Keys |-> [n \in 0..Window |-> 0]]

-----------------------------------------------------------------------------
(* Properties.                                                             *)

GTypeOK ==
  /\ bucket \in [Keys -> Bucket \cup {NoBucket}]
  /\ since \in [Keys -> [0..Window -> Nat]]

LetThrough(k) == since[k][Window]

(* However a client places its requests around a reset, fewer than twice   *)
(* the rate get through in any interval of the length of the window.       *)
BurstBounded == \A k \in Keys : LetThrough(k) < 2 * Rate

(* A client is refused only when it has had its full rate within the last  *)
(* window: whoever has been quiet that long is never refused.              *)
RefusedOnlyWhenServed == \A k \in Keys : Refuses(k) => LetThrough(k) >= Rate
=============================================================================
