------------------------- MODULE RateLimiterProofs -------------------------
(***************************************************************************)
(* Invariance proofs for RateLimiter, for any number of workers, keys and  *)
(* shards, any limit and any quota.                                        *)
(***************************************************************************)
EXTENDS RateLimiter, FiniteSetTheorems, TLAPS

\* A worker past the entry of check_rate_limit holds the key it derived.
Serving == \A w \in Workers : pc[w] # "idle" => key[w] \in Keys

\* Cells the watched key can still draw from the bucket it has.
CellsLeft == IF Watched \in limiters THEN tokens[Watched] ELSE 0

\* Every request admitted and every cell still in the bucket was paid for by
\* a creation of the bucket or by an interval that passed.
CreditPaid == admitted + CellsLeft <= BurstOf(Watched) * fills + now

IndInv ==
  /\ TypeOK
  /\ Serving
  /\ IsFiniteSet(limiters)
  /\ CountIsSize
  /\ CreditPaid

USE DEF AtLimit, CountWithout, CellsAfter

\* The burst a bucket is created with is a positive number of cells.
LEMMA BurstPositive == \A k \in Keys : BurstOf(k) \in Nat /\ BurstOf(k) >= 1
  BY RateLimiterAssumption DEF BurstOf

\* What one more creation adds to the credit of the watched key.
LEMMA OneMoreFill ==
  \A b \in Nat, n \in Nat : b * (n + 1) = b * n + b /\ b * n \in Nat
  OBVIOUS

\* The requests name the keys.
LEMMA KeyOfRequest == \A r \in Requests : KeyOf(r) \in Keys
  BY DEF Keys

\* The server starts with no bucket, which satisfies the invariant.
LEMMA InitIndInv == Init => IndInv
  <1> SUFFICES ASSUME Init PROVE IndInv
    OBVIOUS
  <1>1. TypeOK
    <2>1. 1 \in 1..Shards
      BY RateLimiterAssumption
    <2> QED
      BY <2>1 DEF Init, TypeOK
  <1>2. Serving
    BY DEF Init, Serving
  <1>3. IsFiniteSet(limiters) /\ CountIsSize
    BY FS_EmptySet DEF Init, CountIsSize
  <1>4. CreditPaid
    BY RateLimiterAssumption, BurstPositive DEF Init, CreditPaid, CellsLeft
  <1> QED
    BY <1>1, <1>2, <1>3, <1>4 DEF IndInv

\* A request that arrives changes neither the buckets nor the counter.
LEMMA ArriveIndInv ==
  ASSUME IndInv, NEW w \in Workers, NEW r \in Requests, Arrive(w, r)
  PROVE  IndInv'
  <1>1. TypeOK'
    BY KeyOfRequest DEF IndInv, TypeOK, Arrive
  <1>2. Serving'
    BY KeyOfRequest DEF IndInv, TypeOK, Serving, Arrive
  <1>3. IsFiniteSet(limiters)' /\ CountIsSize'
    BY DEF IndInv, CountIsSize, Arrive
  <1>4. CreditPaid'
    BY DEF IndInv, CreditPaid, CellsLeft, Arrive
  <1> QED
    BY <1>1, <1>2, <1>3, <1>4 DEF IndInv

\* Evicting part of a shard takes exactly the victims off the counter, and
\* can only destroy credit of the watched key.
LEMMA CleanShardIndInv ==
  ASSUME IndInv, NEW w \in Workers, CleanShard(w)
  PROVE  IndInv'
  <1>1. PICK victims \in SUBSET InShard(shard[w]) :
          /\ limiters' = limiters \ victims
          /\ count' = count - Cardinality(victims)
          /\ tokens' = [k \in Keys |-> IF k \in victims THEN 0 ELSE tokens[k]]
          /\ IF shard[w] = Shards
               THEN /\ pc' = [pc EXCEPT ![w] = "entry"]
                    /\ shard' = [shard EXCEPT ![w] = 1]
                    /\ removed' = [removed EXCEPT ![w] = 0]
               ELSE /\ shard' = [shard EXCEPT ![w] = @ + 1]
                    /\ removed' = [removed EXCEPT ![w] = @ + Cardinality(victims)]
                    /\ UNCHANGED pc
    BY DEF CleanShard
  <1>2. pc[w] = "cleanup" /\ UNCHANGED <<key, now, fills, admitted>>
    BY DEF CleanShard
  <1>3. victims \subseteq limiters
    BY DEF InShard
  <1>4. IsFiniteSet(victims) /\ Cardinality(victims) \in Nat
    BY <1>3, FS_Subset, FS_CardinalityType DEF IndInv
  <1>5. /\ IsFiniteSet(limiters \ victims)
        /\ Cardinality(limiters \ victims)
             = Cardinality(limiters) - Cardinality(victims)
    <2>1. limiters \cap victims = victims
      BY <1>3
    <2> QED
      BY <2>1, FS_Difference DEF IndInv
  <1>6. IsFiniteSet(limiters)' /\ CountIsSize'
    BY <1>1, <1>5 DEF IndInv, CountIsSize
  <1>7. count' \in Nat
    BY <1>6, FS_CardinalityType DEF CountIsSize
  <1>8. TypeOK'
    <2>1. shard' \in [Workers -> 1..Shards]
      BY <1>1, RateLimiterAssumption DEF IndInv, TypeOK
    <2>2. removed' \in [Workers -> Nat]
      BY <1>1, <1>4 DEF IndInv, TypeOK
    <2>3. tokens' \in [Keys -> Nat] /\ limiters' \subseteq Keys
      BY <1>1 DEF IndInv, TypeOK
    <2>4. pc' \in [Workers -> {"idle", "cleanup", "entry"}]
      BY <1>1 DEF IndInv, TypeOK
    <2> QED
      BY <1>2, <1>7, <2>1, <2>2, <2>3, <2>4 DEF IndInv, TypeOK
  <1>9. Serving'
    BY <1>1, <1>2 DEF IndInv, TypeOK, Serving
  <1>10. CreditPaid'
    <2>1. CellsLeft' <= CellsLeft /\ CellsLeft' \in Nat /\ CellsLeft \in Nat
      BY <1>1, RateLimiterAssumption DEF CellsLeft, IndInv, TypeOK
    <2>2. BurstOf(Watched) * fills \in Nat
      BY OneMoreFill, BurstPositive, RateLimiterAssumption DEF IndInv, TypeOK
    <2> QED
      BY <1>2, <2>1, <2>2 DEF IndInv, TypeOK, CreditPaid
  <1> QED
    BY <1>6, <1>8, <1>9, <1>10 DEF IndInv

\* Looking a bucket up counts it when it is created, and moves one cell from
\* the credit to the admitted requests.
LEMMA CheckIndInv ==
  ASSUME IndInv, NEW w \in Workers, Check(w)
  PROVE  IndInv'
  <1> DEFINE k == key[w]
  <1>1. k \in Keys /\ CellsIn(k) \in Nat /\ BurstOf(k) \in Nat
    BY BurstPositive DEF Check, IndInv, Serving, TypeOK, CellsIn
  <1>2. IsFiniteSet(limiters)' /\ CountIsSize'
    BY FS_AddElement DEF Check, IndInv, CountIsSize
  <1>3. TypeOK'
    <2>1. count' \in Nat /\ limiters' \subseteq Keys
      BY <1>1 DEF Check, IndInv, TypeOK
    <2>2. tokens' \in [Keys -> Nat]
      BY <1>1 DEF Check, IndInv, TypeOK
    <2>3. fills' \in Nat /\ admitted' \in Nat
      BY DEF Check, IndInv, TypeOK
    <2>4. /\ pc' \in [Workers -> {"idle", "cleanup", "entry"}]
          /\ key' \in [Workers -> Keys \cup {None}]
      BY DEF Check, IndInv, TypeOK
    <2> QED
      BY <2>1, <2>2, <2>3, <2>4 DEF Check, IndInv, TypeOK
  <1>4. Serving'
    BY DEF Check, IndInv, Serving, TypeOK
  <1>5. CreditPaid'
    <2>0. Watched \in Keys /\ BurstOf(Watched) \in Nat /\ BurstOf(Watched) >= 1
      BY RateLimiterAssumption, BurstPositive
    <2>1. /\ BurstOf(Watched) * fills \in Nat
          /\ BurstOf(Watched) * (fills + 1)
               = BurstOf(Watched) * fills + BurstOf(Watched)
      BY <2>0, OneMoreFill DEF IndInv, TypeOK
    <2>2. CASE k # Watched
      <3>1. CellsLeft' = CellsLeft
        BY <1>1, <2>0, <2>2 DEF Check, CellsLeft, IndInv, TypeOK
      <3> QED
        BY <2>2, <3>1 DEF Check, IndInv, CreditPaid
    <2>3. CASE k = Watched /\ k \in limiters
      <3>1. CellsLeft = tokens[k] /\ fills' = fills /\ CellsIn(k) = tokens[k]
        BY <2>3 DEF CellsLeft, Check, CellsIn
      <3>2. CellsLeft' = IF tokens[k] > 0 THEN tokens[k] - 1 ELSE 0
        BY <1>1, <2>3, <3>1 DEF CellsLeft, Check, IndInv, TypeOK
      <3>3. admitted' = IF tokens[k] > 0 THEN admitted + 1 ELSE admitted
        BY <2>3, <3>1 DEF Check
      <3>4. now' = now /\ tokens[k] \in Nat /\ admitted \in Nat /\ now \in Nat
        BY <1>1 DEF Check, IndInv, TypeOK
      <3> QED
        BY <2>1, <3>1, <3>2, <3>3, <3>4 DEF IndInv, CreditPaid
    <2>4. CASE k = Watched /\ k \notin limiters
      <3>1. CellsLeft = 0 /\ fills' = fills + 1 /\ CellsIn(k) = BurstOf(Watched)
        BY <2>4 DEF CellsLeft, Check, CellsIn
      <3>2. CellsLeft' = BurstOf(Watched) - 1
        BY <1>1, <2>0, <2>4, <3>1 DEF CellsLeft, Check, IndInv, TypeOK
      <3>3. admitted' = admitted + 1
        BY <2>0, <2>4, <3>1 DEF Check
      <3>4. now' = now /\ admitted \in Nat /\ now \in Nat
        BY DEF Check, IndInv, TypeOK
      <3> QED
        BY <2>0, <2>1, <3>1, <3>2, <3>3, <3>4 DEF IndInv, CreditPaid
    <2> QED
      BY <2>2, <2>3, <2>4
  <1> QED
    BY <1>2, <1>3, <1>4, <1>5 DEF IndInv

\* An interval adds at most the cell it pays for.
LEMMA ReplenishIndInv ==
  ASSUME IndInv, Replenish
  PROVE  IndInv'
  <1>1. TypeOK'
    BY DEF Replenish, IndInv, TypeOK
  <1>2. Serving' /\ IsFiniteSet(limiters)' /\ CountIsSize'
    BY DEF Replenish, IndInv, Serving, CountIsSize
  <1>3. CreditPaid'
    <2>1. CellsLeft' <= CellsLeft + 1 /\ CellsLeft \in Nat /\ CellsLeft' \in Nat
      BY RateLimiterAssumption DEF Replenish, CellsLeft, IndInv, TypeOK
    <2>2. BurstOf(Watched) * fills \in Nat
      BY OneMoreFill, BurstPositive, RateLimiterAssumption DEF IndInv, TypeOK
    <2> QED
      BY <2>1, <2>2 DEF Replenish, IndInv, TypeOK, CreditPaid
  <1> QED
    BY <1>1, <1>2, <1>3 DEF IndInv

\* Every step of every worker preserves the invariant.
LEMMA NextIndInv == IndInv /\ [Next]_vars => IndInv'
  <1> SUFFICES ASSUME IndInv, [Next]_vars PROVE IndInv'
    OBVIOUS
  <1>1. CASE UNCHANGED vars
    BY <1>1 DEF vars, IndInv, TypeOK, Serving, CountIsSize, CreditPaid, CellsLeft
  <1>2. CASE Next
    BY <1>2, ArriveIndInv, CleanShardIndInv, CheckIndInv, ReplenishIndInv DEF Next
  <1> QED
    BY <1>1, <1>2

\* The invariant holds of every behaviour of the limiter.
LEMMA SpecIndInv == Spec => []IndInv
  BY InitIndInv, NextIndInv, PTL DEF Spec

\* check_rate_limit and its cleanup keep every variable in its type, so the
\* usize LIMITER_COUNT never wraps, for any number of workers.
THEOREM TypeCorrect == Spec => []TypeOK
  <1>1. IndInv => TypeOK
    BY DEF IndInv
  <1> QED
    BY <1>1, SpecIndInv, PTL

\* LIMITER_COUNT is the number of buckets in IP_LIMITERS in every state, for
\* any number of workers that insert and clean up at once.
THEOREM CounterMatchesMap == Spec => []CountIsSize
  <1>1. IndInv => CountIsSize
    BY DEF IndInv
  <1> QED
    BY <1>1, SpecIndInv, PTL

\* A key is admitted at most one burst per bucket created for it plus one
\* request per replenishment interval, whatever the cleanups do meanwhile.
THEOREM AdmissionIsBounded == Spec => []AdmissionBound
  <1>1. IndInv => AdmissionBound
    <2>1. IndInv => CellsLeft \in Nat
      BY RateLimiterAssumption DEF IndInv, TypeOK, CellsLeft
    <2>2. IndInv => BurstOf(Watched) * fills \in Nat
      BY OneMoreFill, BurstPositive, RateLimiterAssumption DEF IndInv, TypeOK
    <2> QED
      BY <2>1, <2>2 DEF IndInv, TypeOK, CreditPaid, AdmissionBound
  <1> QED
    BY <1>1, SpecIndInv, PTL
-----------------------------------------------------------------------------
(***************************************************************************)
(* The bound on the map.  A worker that loaded a count below the limit may *)
(* insert; one that loaded a higher count sweeps the shards first, and     *)
(* makes room for its own bucket only if it evicts something.  It may      *)
(* evict nothing: other workers can empty each shard just before it comes. *)
(* What bounds the map then is the part of it the sweep has passed, which  *)
(* nobody has filled but the workers that may still insert.                *)
(***************************************************************************)

\* Between two cleanups a worker's loop variables are reset.
Resting == \A w \in Workers : pc[w] # "cleanup" => shard[w] = 1 /\ removed[w] = 0

\* The buckets in the shards before s.
Past(s) == {k \in limiters : ShardOf[k] < s}

\* w has evicted something, or has not reached s in a sweep of its own.
Pays(w, s) == pc[w] = "cleanup" /\ (removed[w] > 0 \/ shard[w] >= s)

\* The workers that may insert, or will have paid for it by the time they do.
Coming(s) == {w \in Workers : pc[w] = "entry" \/ Pays(w, s)}

Room(s) ==
  Cardinality(Past(s)) + Cardinality(Coming(s))
    <= MaxLimiters - 1 + Cardinality(Workers)

\* w sweeps, has evicted nothing and visits s next.
Visits(w, s) == pc[w] = "cleanup" /\ removed[w] = 0 /\ shard[w] = s

\* There is room before every shard a sweep without evictions has come to,
\* and in the whole map.
Behind ==
  \A s \in 1..(Shards + 1) :
    (s = Shards + 1 \/ \E w \in Workers : Visits(w, s)) => Room(s)

SweepInv == IndInv /\ Resting /\ Behind

\* Adding one element makes a finite set larger by one at most.
LEMMA AddedOne ==
  ASSUME NEW S, NEW x, IsFiniteSet(S)
  PROVE  Cardinality(S \cup {x}) <= Cardinality(S) + 1
  <1>1. Cardinality(S) \in Nat
    BY FS_CardinalityType
  <1>2. Cardinality(S \cup {x}) = IF x \in S THEN Cardinality(S) ELSE Cardinality(S) + 1
    BY FS_AddElement
  <1> QED
    BY <1>1, <1>2

\* The sets counted are finite, and no larger than the map and the workers.
LEMMA Counted ==
  ASSUME IndInv, NEW s
  PROVE  /\ IsFiniteSet(Past(s)) /\ IsFiniteSet(Coming(s))
         /\ Cardinality(Past(s)) \in Nat /\ Cardinality(Coming(s)) \in Nat
         /\ Cardinality(Workers) \in Nat
         /\ Cardinality(Past(s)) <= Cardinality(limiters)
         /\ Cardinality(Coming(s)) <= Cardinality(Workers)
  <1>1. Past(s) \subseteq limiters /\ Coming(s) \subseteq Workers
    BY DEF Past, Coming
  <1>2. IsFiniteSet(limiters) /\ IsFiniteSet(Workers)
    BY RateLimiterAssumption DEF IndInv
  <1>3. IsFiniteSet(Past(s)) /\ Cardinality(Past(s)) <= Cardinality(limiters)
    BY <1>1, <1>2, FS_Subset
  <1>4. IsFiniteSet(Coming(s)) /\ Cardinality(Coming(s)) <= Cardinality(Workers)
    BY <1>1, <1>2, FS_Subset
  <1> QED
    BY <1>2, <1>3, <1>4, FS_CardinalityType

\* The same after a step.
LEMMA CountedNext ==
  ASSUME IndInv', NEW s
  PROVE  /\ IsFiniteSet(Past(s)') /\ IsFiniteSet(Coming(s)')
         /\ Cardinality(Past(s)') \in Nat /\ Cardinality(Coming(s)') \in Nat
         /\ Cardinality(Workers) \in Nat
         /\ Cardinality(Past(s)') <= Cardinality(limiters')
         /\ Cardinality(Coming(s)') <= Cardinality(Workers)
  <1>1. Past(s)' \subseteq limiters' /\ Coming(s)' \subseteq Workers
    BY DEF Past, Coming
  <1>2. IsFiniteSet(limiters') /\ IsFiniteSet(Workers)
    BY RateLimiterAssumption DEF IndInv
  <1>3. IsFiniteSet(Past(s)') /\ Cardinality(Past(s)') <= Cardinality(limiters')
    BY <1>1, <1>2, FS_Subset
  <1>4. IsFiniteSet(Coming(s)') /\ Cardinality(Coming(s)') <= Cardinality(Workers)
    BY <1>1, <1>2, FS_Subset
  <1> QED
    BY <1>2, <1>3, <1>4, FS_CardinalityType

\* Room is kept when neither the buckets nor the workers to come grow.
LEMMA RoomKept ==
  ASSUME IndInv, IndInv', NEW s, NEW t, Room(s),
         Past(t)' \subseteq Past(s), Coming(t)' \subseteq Coming(s)
  PROVE  Room(t)'
  <1>1. Cardinality(Past(t)') <= Cardinality(Past(s))
    BY Counted, FS_Subset
  <1>2. Cardinality(Coming(t)') <= Cardinality(Coming(s))
    BY Counted, FS_Subset
  <1> QED
    BY <1>1, <1>2, Counted, CountedNext, RateLimiterAssumption DEF Room

\* Before the first shard there is no bucket, so there is always room.
LEMMA RoomAtFirst ==
  ASSUME IndInv'
  PROVE  Room(1)'
  <1>1. Past(1)' = {}
    BY RateLimiterAssumption DEF Past, IndInv, TypeOK
  <1>2. Cardinality(Past(1)') = 0
    BY <1>1, FS_EmptySet
  <1> QED
    BY <1>2, CountedNext, RateLimiterAssumption DEF Room

\* Nobody serves a request when the server starts.
LEMMA InitSweepInv == Init => SweepInv
  <1> SUFFICES ASSUME Init PROVE SweepInv
    OBVIOUS
  <1>1. IndInv
    BY InitIndInv
  <1>2. Resting
    BY DEF Init, Resting
  <1>3. ASSUME NEW s PROVE Room(s)
    <2>1. Past(s) = {} /\ Coming(s) = {}
      BY DEF Init, Past, Coming, Pays
    <2>2. Cardinality(Past(s)) = 0 /\ Cardinality(Coming(s)) = 0
      BY <2>1, FS_EmptySet
    <2> QED
      BY <1>1, <2>2, Counted, RateLimiterAssumption DEF Room
  <1> QED
    BY <1>1, <1>2, <1>3 DEF SweepInv, Behind

\* A worker that starts a sweep has no shard behind it; one that goes to its
\* bucket has read a count below the limit.
LEMMA ArriveSweepInv ==
  ASSUME SweepInv, IndInv', NEW w \in Workers, NEW r \in Requests, Arrive(w, r)
  PROVE  Resting' /\ Behind'
  <1>1. IndInv /\ Resting /\ Behind
    BY DEF SweepInv
  <1>2. /\ pc[w] = "idle" /\ shard[w] = 1 /\ removed[w] = 0
        /\ pc' = [pc EXCEPT ![w] = IF count >= MaxLimiters THEN "cleanup" ELSE "entry"]
        /\ UNCHANGED <<limiters, count, shard, removed>>
    BY <1>1 DEF Arrive, Resting
  <1>3. Resting'
    BY <1>1, <1>2 DEF Resting, IndInv, TypeOK
  <1>4. CASE count >= MaxLimiters
    <2> SUFFICES ASSUME NEW s \in 1..(Shards + 1),
                        (s = Shards + 1 \/ \E v \in Workers : Visits(v, s))'
                 PROVE  Room(s)'
      BY <1>3 DEF Behind
    <2>1. CASE s = 1
      BY <2>1, RoomAtFirst
    <2>2. CASE s # 1
      <3>1. s = Shards + 1 \/ \E v \in Workers : Visits(v, s)
        BY <1>1, <1>2, <2>2 DEF Visits, IndInv, TypeOK
      <3>2. Room(s)
        BY <1>1, <3>1 DEF Behind
      <3>3. Past(s)' = Past(s)
        BY <1>2 DEF Past
      <3>4. Coming(s)' \subseteq Coming(s)
        BY <1>1, <1>2, <1>4, <2>2 DEF Coming, Pays, IndInv, TypeOK
      <3> QED
        BY <1>1, <3>2, <3>3, <3>4, RoomKept
    <2> QED
      BY <2>1, <2>2
  <1>5. CASE ~(count >= MaxLimiters)
    <2>1. Cardinality(limiters') <= MaxLimiters - 1
      BY <1>1, <1>2, <1>5, RateLimiterAssumption DEF IndInv, TypeOK, CountIsSize
    <2>2. Cardinality(limiters') \in Nat
      BY FS_CardinalityType DEF IndInv
    <2>3. ASSUME NEW s PROVE Room(s)'
      BY <2>1, <2>2, CountedNext, RateLimiterAssumption DEF Room
    <2> QED
      BY <1>3, <2>3 DEF Behind
  <1> QED
    BY <1>3, <1>4, <1>5

\* The worker that inserts leaves the ones to come.
LEMMA CheckSweepInv ==
  ASSUME SweepInv, IndInv', NEW w \in Workers, Check(w)
  PROVE  Resting' /\ Behind'
  <1>1. IndInv /\ Resting /\ Behind
    BY DEF SweepInv
  <1>2. /\ pc[w] = "entry"
        /\ pc' = [pc EXCEPT ![w] = "idle"]
        /\ limiters' = limiters \cup {key[w]}
        /\ UNCHANGED <<shard, removed>>
    BY DEF Check
  <1>3. Resting'
    BY <1>1, <1>2 DEF Resting, IndInv, TypeOK
  <1> SUFFICES ASSUME NEW s \in 1..(Shards + 1),
                      (s = Shards + 1 \/ \E v \in Workers : Visits(v, s))'
               PROVE  Room(s)'
    BY <1>3 DEF Behind
  <1>4. s = Shards + 1 \/ \E v \in Workers : Visits(v, s)
    BY <1>1, <1>2 DEF Visits, IndInv, TypeOK
  <1>5. Room(s)
    BY <1>1, <1>4 DEF Behind
  <1>6. Coming(s)' = Coming(s) \ {w} /\ w \in Coming(s)
    BY <1>1, <1>2 DEF Coming, Pays, IndInv, TypeOK
  <1>7. Cardinality(Coming(s)') = Cardinality(Coming(s)) - 1
    BY <1>1, <1>6, Counted, FS_RemoveElement
  <1>8. Cardinality(Past(s)') <= Cardinality(Past(s)) + 1
    <2>1. Past(s)' \subseteq Past(s) \cup {key[w]}
      BY <1>2 DEF Past
    <2>2. IsFiniteSet(Past(s) \cup {key[w]})
      BY <1>1, Counted, FS_AddElement
    <2>3. Cardinality(Past(s) \cup {key[w]}) <= Cardinality(Past(s)) + 1
      BY <1>1, Counted, AddedOne
    <2>4. Cardinality(Past(s) \cup {key[w]}) \in Nat
      BY <2>2, FS_CardinalityType
    <2>5. Cardinality(Past(s)') <= Cardinality(Past(s) \cup {key[w]})
      BY <2>1, <2>2, FS_Subset
    <2> QED
      BY <1>1, <2>3, <2>4, <2>5, Counted, CountedNext
  <1> QED
    BY <1>1, <1>5, <1>7, <1>8, Counted, CountedNext, RateLimiterAssumption DEF Room

\* A sweep pays with what it evicts from a shard, or finds the shard empty
\* and has the same room behind it as before.
LEMMA CleanShardSweepInv ==
  ASSUME SweepInv, IndInv', NEW w \in Workers, CleanShard(w)
  PROVE  Resting' /\ Behind'
  <1> DEFINE t == shard[w]
  <1>1. IndInv /\ Resting /\ Behind
    BY DEF SweepInv
  <1>2. PICK victims \in SUBSET InShard(t) :
          /\ \/ Cardinality(victims) = ToRemove - removed[w]
             \/ victims = InShard(t)
          /\ limiters' = limiters \ victims
          /\ IF t = Shards
               THEN /\ pc' = [pc EXCEPT ![w] = "entry"]
                    /\ shard' = [shard EXCEPT ![w] = 1]
                    /\ removed' = [removed EXCEPT ![w] = 0]
               ELSE /\ shard' = [shard EXCEPT ![w] = @ + 1]
                    /\ removed' = [removed EXCEPT ![w] = @ + Cardinality(victims)]
                    /\ UNCHANGED pc
    BY DEF CleanShard
  <1>3. pc[w] = "cleanup" /\ t \in 1..Shards /\ removed[w] \in Nat
    BY <1>1 DEF CleanShard, IndInv, TypeOK
  <1>4. /\ victims \subseteq limiters /\ IsFiniteSet(victims)
        /\ Cardinality(victims) \in Nat
        /\ victims # {} => Cardinality(victims) > 0
    <2>1. victims \subseteq limiters
      BY DEF InShard
    <2>2. IsFiniteSet(victims)
      BY <1>1, <2>1, FS_Subset DEF IndInv
    <2> QED
      BY <2>1, <2>2, FS_EmptySet, FS_CardinalityType
  <1>5. Resting'
    BY <1>1, <1>2, <1>3, <1>4 DEF Resting, IndInv, TypeOK
  <1>6. \A s : Past(s)' \subseteq Past(s)
    BY <1>2 DEF Past
  <1> SUFFICES ASSUME NEW s \in 1..(Shards + 1),
                      (s = Shards + 1 \/ \E v \in Workers : Visits(v, s))'
               PROVE  Room(s)'
    BY <1>5 DEF Behind
  <1>7. CASE removed[w] > 0 \/ (victims # {} /\ s <= t)
    <2>1. w \in Coming(s)
      BY <1>3, <1>7 DEF Coming, Pays
    <2>2. Coming(s)' \subseteq Coming(s)
      BY <1>1, <1>2, <2>1 DEF Coming, Pays, IndInv, TypeOK
    <2>3. s = Shards + 1 \/ \E v \in Workers : Visits(v, s)
      BY <1>1, <1>2, <1>3, <1>4, <1>7 DEF Visits, IndInv, TypeOK
    <2>4. Room(s)
      BY <1>1, <2>3 DEF Behind
    <2> QED
      BY <1>1, <1>6, <2>2, <2>4, RoomKept
  <1>8. CASE removed[w] = 0 /\ victims # {} /\ s > t
    <2>1. s = Shards + 1 \/ \E v \in Workers : Visits(v, s)
      BY <1>1, <1>2, <1>3, <1>4, <1>8 DEF Visits, IndInv, TypeOK
    <2>2. Room(s)
      BY <1>1, <2>1 DEF Behind
    <2>3. Cardinality(Coming(s)') <= Cardinality(Coming(s)) + 1
      <3>1. Coming(s)' \subseteq Coming(s) \cup {w}
        BY <1>1, <1>2 DEF Coming, Pays, IndInv, TypeOK
      <3>2. IsFiniteSet(Coming(s) \cup {w})
        BY <1>1, Counted, FS_AddElement
      <3>3. Cardinality(Coming(s) \cup {w}) <= Cardinality(Coming(s)) + 1
        BY <1>1, Counted, AddedOne
      <3>4. Cardinality(Coming(s)') <= Cardinality(Coming(s) \cup {w})
        BY <3>1, <3>2, FS_Subset
      <3> QED
        BY <1>1, <3>2, <3>3, <3>4, Counted, CountedNext, FS_CardinalityType
    <2>4. Cardinality(Past(s)') = Cardinality(Past(s)) - Cardinality(victims)
      <3>1. Past(s)' = Past(s) \ victims
        BY <1>2 DEF Past
      <3>2. Past(s) \cap victims = victims
        BY <1>3, <1>8 DEF Past, InShard
      <3> QED
        BY <1>1, <3>1, <3>2, Counted, FS_Difference
    <2> QED
      BY <1>1, <1>4, <1>8, <2>2, <2>3, <2>4, Counted, CountedNext, RateLimiterAssumption
      DEF Room
  <1>9. CASE removed[w] = 0 /\ victims = {}
    <2>1. InShard(t) = {} /\ limiters' = limiters
      <3>1. Cardinality(victims) = 0 /\ ToRemove >= 1 /\ ToRemove \in Nat
        BY <1>9, FS_EmptySet, RateLimiterAssumption DEF ToRemove
      <3> QED
        BY <1>2, <1>9, <3>1
    <2>2. CASE s = t + 1
      <3>1. Room(t)
        <4>1. Visits(w, t) /\ t \in 1..(Shards + 1)
          BY <1>3, <1>9, RateLimiterAssumption DEF Visits
        <4> QED
          BY <1>1, <4>1 DEF Behind
      <3>2. Past(s)' \subseteq Past(t)
        <4>1. \A k \in limiters : ShardOf[k] \in 1..Shards /\ ShardOf[k] # t
          BY <1>1, <2>1, RateLimiterAssumption DEF InShard, IndInv, TypeOK
        <4> QED
          BY <1>3, <2>1, <2>2, <4>1 DEF Past
      <3>3. Coming(s)' \subseteq Coming(t)
        BY <1>1, <1>2, <1>3, <2>2 DEF Coming, Pays, IndInv, TypeOK
      <3> QED
        BY <1>1, <3>1, <3>2, <3>3, RoomKept
    <2>3. CASE s # t + 1
      <3>0. Cardinality(victims) = 0
        BY <1>9, FS_EmptySet
      <3>1. s = Shards + 1 \/ \E v \in Workers : Visits(v, s)
        BY <1>1, <1>2, <1>3, <2>3 DEF Visits, IndInv, TypeOK
      <3>2. Room(s)
        BY <1>1, <3>1 DEF Behind
      <3>3. Coming(s)' \subseteq Coming(s)
        BY <1>1, <1>2, <1>3, <1>9, <2>3, <3>0 DEF Coming, Pays, IndInv, TypeOK
      <3> QED
        BY <1>1, <1>6, <3>2, <3>3, RoomKept
    <2> QED
      BY <2>2, <2>3
  <1> QED
    BY <1>3, <1>7, <1>8, <1>9

\* Every step of every worker preserves the room behind the sweeps.
LEMMA NextSweepInv == SweepInv /\ [Next]_vars => SweepInv'
  <1> SUFFICES ASSUME SweepInv, [Next]_vars PROVE SweepInv'
    OBVIOUS
  <1>1. IndInv'
    BY NextIndInv DEF SweepInv
  <1>2. CASE UNCHANGED <<limiters, pc, shard, removed>>
    BY <1>1, <1>2
    DEF SweepInv, Resting, Behind, Visits, Room, Past, Coming, Pays
  <1>3. CASE Next
    BY <1>1, <1>2, <1>3, ArriveSweepInv, CleanShardSweepInv, CheckSweepInv
    DEF Next, Replenish, SweepInv
  <1> QED
    BY <1>2, <1>3 DEF vars

\* However its workers interleave, the limiter holds at most one bucket per
\* worker beyond MAX_LIMITERS - 1, although check_rate_limit loads the
\* counter, sweeps and inserts in separate steps.
THEOREM MapIsBounded == Spec => []MapBounded
  <1>1. SweepInv => MapBounded
    <2> SUFFICES ASSUME SweepInv PROVE MapBounded
      OBVIOUS
    <2>1. IndInv /\ Room(Shards + 1)
      BY RateLimiterAssumption DEF SweepInv, Behind
    <2>2. Past(Shards + 1) = limiters
      BY <2>1, RateLimiterAssumption DEF Past, IndInv, TypeOK
    <2> QED
      BY <2>1, <2>2, Counted, RateLimiterAssumption DEF Room, MapBounded
  <1> QED
    BY <1>1, InitSweepInv, NextSweepInv, PTL DEF Spec
=============================================================================
