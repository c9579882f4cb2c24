---------------------------- MODULE WsAdmission ----------------------------
(***************************************************************************)
(* Admission of WebSocket connections                                      *)
(* (handle_websocket_upgrade_with_handler in src/websocket/handler.rs).    *)
(*                                                                         *)
(* The process-wide counter ACTIVE_WS_CONNECTIONS is loaded by the worker  *)
(* that serves an upgrade, compared with the limit, and incremented only   *)
(* after the rate limit, the origin and the guards have been checked; it   *)
(* is decremented by the error paths that follow and by the actor's        *)
(* stopped().  The handler has no await before the actor runs, so a worker *)
(* thread serves one upgrade at a time; the threads interleave.            *)
(***************************************************************************)
EXTENDS Integers, FiniteSets

CONSTANTS
  Workers,          \* Actix worker threads
  Conns,            \* identities of connections
  Upgrades,         \* requests that reach the upgrade handler
  MaxConnections,   \* config.max_connections
  Cors,             \* global CORS configuration, or NoCors
  NoCors,
  NoOrigin,         \* the Origin header is absent
  BadOrigin,        \* the Origin header is not text
  None

(***************************************************************************)
(* validate_origin and is_origin_allowed: without an Origin header the     *)
(* upgrade is same-origin; otherwise a CORS configuration has to allow it, *)
(* by allow_all_origins, by exact match or by a regular expression, and    *)
(* without a configuration nothing is allowed.  A pattern is the set of    *)
(* the origins it matches.                                                 *)
(***************************************************************************)
OriginAllowed(origin) ==
  \/ origin = NoOrigin
  \/ /\ origin # BadOrigin
     /\ Cors # NoCors
     /\ \/ Cors.allowAll
        \/ origin \in Cors.origins
        \/ \E pattern \in Cors.patterns : origin \in pattern

ASSUME WsAdmissionAssumption ==
  /\ IsFiniteSet(Workers)
  /\ Workers # {}
  /\ MaxConnections \in Nat
  /\ None \notin Upgrades

VARIABLES
  active,    \* ACTIVE_WS_CONNECTIONS
  pc,        \* pc[w]: where worker w is in the upgrade handler
  request,   \* request[w]: the upgrade w serves
  open       \* connections whose actor has started and not yet stopped

vars == <<active, pc, request, open>>

Init ==
  /\ active = 0
  /\ pc = [w \in Workers |-> "idle"]
  /\ request = [w \in Workers |-> None]
  /\ open = {}

Finish(w) ==
  /\ pc' = [pc EXCEPT ![w] = "idle"]
  /\ request' = [request EXCEPT ![w] = None]

LimitReached_OffByOne == active > MaxConnections

\* current_connections >= config.max_connections
LimitReached == active >= MaxConnections

(***************************************************************************)
(* The limit is checked first, on a load of the counter; at the limit the  *)
(* answer is 503 and nothing is held.  A request that is no upgrade is     *)
(* answered 400 before that.                                               *)
(***************************************************************************)
Begin(w, r) ==
  /\ pc[w] = "idle"
  /\ r.upgrade
  /\ ~LimitReached
  /\ pc' = [pc EXCEPT ![w] = "checking"]
  /\ request' = [request EXCEPT ![w] = r]
  /\ UNCHANGED <<active, open>>

(***************************************************************************)
(* Rate limit (429), origin (403), authentication (401) and guards (403),  *)
(* each of which answers on its own before the connection is counted.      *)
(***************************************************************************)
Upgradable(r) ==
  /\ ~r.rateLimited
  /\ OriginAllowed(r.origin)
  /\ r.guards = "allow"

Refuse(w) ==
  /\ pc[w] = "checking"
  /\ ~Upgradable(request[w])
  /\ Finish(w)
  /\ UNCHANGED <<active, open>>

\* fetch_add(1): the connection is counted before any fallible operation.
Count(w) ==
  /\ pc[w] = "checking"
  /\ Upgradable(request[w])
  /\ active' = active + 1
  /\ pc' = [pc EXCEPT ![w] = "counted"]
  /\ UNCHANGED <<request, open>>

Release_Forgotten(n) == n

\* fetch_sub(1), on the error paths and when an actor stops.
Release(n) == n - 1

(***************************************************************************)
(* build_scope rejects an oversized parameter (400), or the handshake      *)
(* fails in start_with_addr (500): the slot is given back.                 *)
(***************************************************************************)
Abort(w) ==
  /\ pc[w] = "counted"
  /\ ~request[w].scopeOk \/ ~request[w].handshakeOk
  /\ active' = Release(active)
  /\ Finish(w)
  /\ UNCHANGED open

\* The actor starts; from now on its stopped() gives the slot back.
Start(w, c) ==
  /\ pc[w] = "counted"
  /\ request[w].scopeOk
  /\ request[w].handshakeOk
  /\ c \notin open
  /\ open' = open \cup {c}
  /\ Finish(w)
  /\ UNCHANGED active

\* WebSocketActor::stopped, whatever made the actor stop.
Stopped(c) ==
  /\ c \in open
  /\ open' = open \ {c}
  /\ active' = Release(active)
  /\ UNCHANGED <<pc, request>>

Next ==
  \/ \E w \in Workers :
       \/ \E r \in Upgrades : Begin(w, r)
       \/ Refuse(w)
       \/ Count(w)
       \/ Abort(w)
       \/ \E c \in Conns : Start(w, c)
  \/ \E c \in Conns : Stopped(c)

Spec == Init /\ [][Next]_vars
-----------------------------------------------------------------------------
At(p) == {w \in Workers : pc[w] = p}

\* Every variable has its type; the usize counter never wraps below zero.
TypeOK ==
  /\ active \in Nat
  /\ pc \in [Workers -> {"idle", "checking", "counted"}]
  /\ request \in [Workers -> Upgrades \cup {None}]
  /\ open \subseteq Conns

(***************************************************************************)
(* Every slot counted in ACTIVE_WS_CONNECTIONS belongs to an open          *)
(* connection or to an upgrade between its fetch_add and its outcome: no   *)
(* refusal, failed scope or failed handshake leaks a slot, and no stop     *)
(* returns one twice.                                                      *)
(***************************************************************************)
SlotsAccounted == active = Cardinality(open) + Cardinality(At("counted"))

(***************************************************************************)
(* The limit is checked and the counter incremented by separate steps, so  *)
(* the limit can be exceeded, but only by one connection per further       *)
(* worker.                                                                 *)
(***************************************************************************)
ConnectionsBounded == active <= MaxConnections - 1 + Cardinality(Workers)
=============================================================================
