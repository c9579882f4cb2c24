--------------------------- MODULE MCWsAdmission ---------------------------
(***************************************************************************)
(* Three workers, a limit of two connections, upgrades that succeed and    *)
(* one that fails at each check.                                           *)
(***************************************************************************)
EXTENDS WsAdmission, TLC

CONSTANTS w1, w2, w3, c1, c2, c3, c4, c5, o1, o2

MCWorkers == {w1, w2, w3}
MCConns == {c1, c2, c3, c4, c5}

MCCors == [allowAll |-> FALSE, origins |-> {}, patterns |-> {{o1}}]

Good == [upgrade |-> TRUE, rateLimited |-> FALSE, origin |-> o1,
         guards |-> "allow", scopeOk |-> TRUE, handshakeOk |-> TRUE]

MCUpgrades ==
  {Good,
   [Good EXCEPT !.origin = NoOrigin],
   [Good EXCEPT !.upgrade = FALSE],
   [Good EXCEPT !.rateLimited = TRUE],
   [Good EXCEPT !.origin = o2],
   [Good EXCEPT !.origin = BadOrigin],
   [Good EXCEPT !.guards = "unauthorized"],
   [Good EXCEPT !.guards = "forbidden"],
   [Good EXCEPT !.scopeOk = FALSE],
   [Good EXCEPT !.handshakeOk = FALSE]}

Symmetry == Permutations(MCWorkers) \cup Permutations(MCConns)
=============================================================================
