--------------------------- MODULE MCRateLimiter ---------------------------
(***************************************************************************)
(* A small instance of RateLimiter: seven keys over two shards, so that    *)
(* the map can grow to the bound that MAX_LIMITERS = 5 allows two workers  *)
(* (six) and beyond it if the code let it.                                 *)
(***************************************************************************)
EXTENDS RateLimiter, TLC

CONSTANTS A, B, a0, b0, long, w1, w2

MCWorkers == {w1, w2}

From(h, t, c) == [handler |-> h, keyType |-> t, candidates |-> c]

\* Every client reaches handler "h" through x-forwarded-for, the watched one
\* also through two proxies and by its peer address; one request of handler
\* "free" lacks the header its key comes from; one key is too long.
MCRequests ==
  {From("h", "ip", <<<<c>>, None, None, None>>) : c \in A \cup B \cup {a0}}
    \cup {From("h", "ip", <<<<a0, b0>>, None, <<b0>>, None>>),
          From("h", "ip", <<None, None, None, <<a0>>>>),
          From("h", "ip", <<None, <<long>>, None, None>>),
          From("free", "x-api-key", <<None>>)}

MCLong == {<<long>>}

\* The second handler is configured with burst 0.
MCBurst == [h \in {"h", "free"} |-> IF h = "h" THEN 1 ELSE 0]

MCShardOf == [k \in Keys |-> IF k[2][1] \in A \cup {a0} THEN 1 ELSE 2]

MCWatched == <<"h", <<a0>>>>

Symmetry == Permutations(A) \cup Permutations(B) \cup Permutations(MCWorkers)
=============================================================================
