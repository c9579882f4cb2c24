---------------------------- MODULE RateLimiter ----------------------------
(***************************************************************************)
(* The rate limiter shared by every Actix worker thread                    *)
(* (src/middleware/rate_limit.rs): a sharded map from (handler, client     *)
(* key) to a token bucket, an atomic counter that shadows the size of the  *)
(* map, and a cleanup that evicts a batch of buckets when the counter      *)
(* reaches MAX_LIMITERS.                                                   *)
(*                                                                         *)
(* A worker runs check_rate_limit in the steps other workers can observe:  *)
(*   Arrive      derive the key, refuse a long one, load LIMITER_COUNT;    *)
(*   CleanShard  one shard of DashMap::retain, under that shard's lock;    *)
(*   Check       entry().or_insert_with() and limiter.check(), both under  *)
(*               the shard lock held by the returned guard.                *)
(* Time is counted in replenishment intervals of the quota (1 / rps).      *)
(***************************************************************************)
EXTENDS Integers, FiniteSets, Sequences

CONSTANTS
  Workers,       \* Actix worker threads
  Requests,      \* requests that may arrive: a handler and its key candidates
  None,          \* an absent header
  Unknown,       \* the text "unknown"
  LongClients,   \* client keys longer than MAX_KEY_LENGTH
  Burst,         \* Burst[h]: the burst configured for handler h, may be 0
  Shards,        \* number of shards of the DashMap
  ShardOf,       \* ShardOf[k]: the shard that stores key k
  MaxLimiters,   \* MAX_LIMITERS
  Watched,       \* the key whose history is recorded; any key
  MaxTime,       \* bound on the clock
  MaxFills       \* bound on how often the watched bucket is created

(***************************************************************************)
(* The rate-limit key.  A request carries the header values the key may    *)
(* come from, in the order the code tries them: x-forwarded-for,           *)
(* x-real-ip, remote-addr and the peer address for the "ip" key type, one  *)
(* header for any other key type.  A value is the sequence of its          *)
(* comma-separated parts.  The first value present wins, of an address     *)
(* only the first part is kept, and without any the key is "unknown".      *)
(***************************************************************************)
ClientKey(r) ==
  LET found == {i \in DOMAIN r.candidates : r.candidates[i] # None}
      value == r.candidates[CHOOSE i \in found : \A j \in found : i <= j]
  IN  CASE found = {} -> <<Unknown>>
        [] found # {} /\ r.keyType = "ip" -> <<Head(value)>>
        [] OTHER -> value

\* The bucket is private to the handler.
KeyOf(r) == <<r.handler, ClientKey(r)>>

Keys == {KeyOf(r) : r \in Requests}

\* rps.max(1) and burst.max(1): a configured burst of 0 still admits one.
BurstOf(k) == IF Burst[k[1]] < 1 THEN 1 ELSE Burst[k[1]]

\* (MAX_LIMITERS as f64 * 0.2) as usize
ToRemove == MaxLimiters \div 5

ASSUME RateLimiterAssumption ==
  /\ IsFiniteSet(Workers)
  /\ IsFiniteSet(Requests)
  /\ Shards \in Nat \ {0}
  /\ ShardOf \in [Keys -> 1..Shards]
  /\ MaxLimiters \in Nat \ (0..4)
  /\ MaxTime \in Nat
  /\ MaxFills \in Nat
  /\ None \notin Keys
  /\ Watched \in Keys
  /\ \A k \in Keys : Burst[k[1]] \in Nat

VARIABLES
  limiters,      \* IP_LIMITERS: the keys that have a bucket
  tokens,        \* tokens[k]: cells left in the bucket of k
  count,         \* LIMITER_COUNT
  pc,            \* pc[w]: where worker w is in check_rate_limit
  key,           \* key[w]: the limiter key of the request w serves
  shard,         \* shard[w]: the shard retain visits next
  removed,       \* removed[w]: entries this cleanup has evicted
  now,           \* clock, in replenishment intervals
  fills,         \* history: how often Watched got a full new bucket
  admitted       \* history: requests of Watched let through

vars == <<limiters, tokens, count, pc, key, shard, removed, now, fills,
          admitted>>

AtLimit_OffByOne == count > MaxLimiters

\* current_count >= MAX_LIMITERS
AtLimit == count >= MaxLimiters

\* The entries retain visits while it holds the lock of shard s.
InShard(s) == {k \in limiters : ShardOf[k] = s}

Init ==
  /\ limiters = {}
  /\ tokens = [k \in Keys |-> 0]
  /\ count = 0
  /\ pc = [w \in Workers |-> "idle"]
  /\ key = [w \in Workers |-> None]
  /\ shard = [w \in Workers |-> 1]
  /\ removed = [w \in Workers |-> 0]
  /\ now = 0
  /\ fills = 0
  /\ admitted = 0

(***************************************************************************)
(* A request reaches check_rate_limit.  A key that is too long is answered *)
(* 400 with no state touched; otherwise the counter is loaded and decides  *)
(* whether this worker cleans up before it looks its bucket up.            *)
(***************************************************************************)
Arrive(w, r) ==
  /\ pc[w] = "idle"
  /\ ClientKey(r) \notin LongClients
  /\ KeyOf(r) = Watched => fills < MaxFills
  /\ key' = [key EXCEPT ![w] = KeyOf(r)]
  /\ pc' = [pc EXCEPT ![w] = IF AtLimit THEN "cleanup" ELSE "entry"]
  /\ UNCHANGED <<limiters, tokens, count, shard, removed, now, fills, admitted>>

CountWithout_Forgotten(victims) == count

\* One fetch_sub per evicted entry.
CountWithout(victims) == count - Cardinality(victims)

(***************************************************************************)
(* One shard of IP_LIMITERS.retain: the closure sees the entries in hash   *)
(* order, so which of them go is arbitrary; it stops evicting once         *)
(* to_remove are gone.  The counter is decremented entry by entry under    *)
(* the shard lock; other workers only compare it with MAX_LIMITERS, so     *)
(* taking the decrements of one shard together hides no behaviour.         *)
(***************************************************************************)
CleanShard(w) ==
  /\ pc[w] = "cleanup"
  /\ \E victims \in SUBSET InShard(shard[w]) :
       /\ \/ Cardinality(victims) = ToRemove - removed[w]
          \/ /\ victims = InShard(shard[w])
             /\ Cardinality(victims) <= ToRemove - removed[w]
       /\ limiters' = limiters \ victims
       /\ count' = CountWithout(victims)
       /\ tokens' = [k \in Keys |-> IF k \in victims THEN 0 ELSE tokens[k]]
       /\ IF shard[w] = Shards
            THEN /\ pc' = [pc EXCEPT ![w] = "entry"]
                 /\ shard' = [shard EXCEPT ![w] = 1]
                 /\ removed' = [removed EXCEPT ![w] = 0]
            ELSE /\ shard' = [shard EXCEPT ![w] = @ + 1]
                 /\ removed' = [removed EXCEPT ![w] = @ + Cardinality(victims)]
                 /\ UNCHANGED pc
  /\ UNCHANGED <<key, now, fills, admitted>>

CellsIn_Refilled(k) == BurstOf(k)

\* or_insert_with: a missing bucket is created full and counted.
CellsIn(k) == IF k \in limiters THEN tokens[k] ELSE BurstOf(k)

\* limiter.check() takes one cell if there is one; a refused request costs
\* nothing.
CellsAfter(k) == IF CellsIn(k) > 0 THEN CellsIn(k) - 1 ELSE 0

(***************************************************************************)
(* The bucket of the key is found or created, and one cell is asked of it. *)
(* With a cell left the request passes, otherwise it is answered 429; a    *)
(* bucket created here is never empty.                                     *)
(***************************************************************************)
Check(w) ==
  LET k == key[w] IN
  /\ pc[w] = "entry"
  /\ pc' = [pc EXCEPT ![w] = "idle"]
  /\ limiters' = limiters \cup {k}
  /\ count' = IF k \in limiters THEN count ELSE count + 1
  /\ fills' = IF k = Watched /\ k \notin limiters THEN fills + 1 ELSE fills
  /\ tokens' = [tokens EXCEPT ![k] = CellsAfter(k)]
  /\ admitted' = IF k = Watched /\ CellsIn(k) > 0 THEN admitted + 1 ELSE admitted
  /\ key' = [key EXCEPT ![w] = None]
  /\ UNCHANGED <<shard, removed, now>>

(***************************************************************************)
(* The governor crate's bucket: one cell comes back per interval, up to    *)
(* the burst.                                                              *)
(***************************************************************************)
Replenish ==
  /\ now < MaxTime
  /\ now' = now + 1
  /\ tokens' = [k \in Keys |->
                  IF k \in limiters /\ tokens[k] < BurstOf(k)
                    THEN tokens[k] + 1 ELSE tokens[k]]
  /\ UNCHANGED <<limiters, count, pc, key, shard, removed, fills, admitted>>

Next ==
  \/ \E w \in Workers :
       \/ \E r \in Requests : Arrive(w, r)
       \/ CleanShard(w)
       \/ Check(w)
  \/ Replenish

Spec == Init /\ [][Next]_vars
-----------------------------------------------------------------------------
\* Every variable has its type; in particular the usize counter
\* LIMITER_COUNT never goes below zero, where it would wrap.
TypeOK ==
  /\ limiters \subseteq Keys
  /\ tokens \in [Keys -> Nat]
  /\ count \in Nat
  /\ pc \in [Workers -> {"idle", "cleanup", "entry"}]
  /\ key \in [Workers -> Keys \cup {None}]
  /\ shard \in [Workers -> 1..Shards]
  /\ removed \in [Workers -> Nat]
  /\ now \in Nat
  /\ fills \in Nat
  /\ admitted \in Nat

(***************************************************************************)
(* LIMITER_COUNT, which is what the memory bound is decided on, is the     *)
(* size of the map whatever the interleaving of insertions and cleanups.   *)
(***************************************************************************)
CountIsSize == count = Cardinality(limiters)

(***************************************************************************)
(* The check of LIMITER_COUNT and the insertion are not atomic, so         *)
(* MAX_LIMITERS can be exceeded, but only by the workers that were between *)
(* the two: at most one bucket per worker beyond MAX_LIMITERS - 1.         *)
(***************************************************************************)
MapBounded ==
  Cardinality(limiters) <= MaxLimiters - 1 + Cardinality(Workers)

(***************************************************************************)
(* The token bucket seen by one client across evictions.  Every time the   *)
(* cleanup drops the bucket of a key, the next request of that key gets a  *)
(* fresh full one, so what a key has been admitted is bounded by one burst *)
(* per creation plus one request per interval, and by no less.             *)
(***************************************************************************)
AdmissionBound ==
  admitted <= BurstOf(Watched) * fills + now
=============================================================================
