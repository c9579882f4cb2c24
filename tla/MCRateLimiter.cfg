SPECIFICATION Spec
CONSTANTS
  Workers <- MCWorkers
  Requests <- MCRequests
  LongClients <- MCLong
  Burst <- MCBurst
  ShardOf <- MCShardOf
  A = {a1, a2}
  a0 = a0
  b0 = b0
  long = long
  Watched <- MCWatched
  B = {b1, b2, b3}
  w1 = w1
  w2 = w2
  None = None
  Unknown = Unknown
  Shards = 2
  MaxLimiters = 5
  MaxTime = 1
  MaxFills = 2
SYMMETRY Symmetry
INVARIANTS
  CountIsSize
  MapBounded
  AdmissionBound
