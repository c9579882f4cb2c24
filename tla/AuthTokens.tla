----------------------------- MODULE AuthTokens -----------------------------
(***************************************************************************)
(* The life of a JSON web token: issued, accepted by Rust until it         *)
(* expires, revoked by a handler in one worker process and looked up by    *)
(* _check_revocation in another, in a store of one of the three kinds of   *)
(* auth/revocation.py.  Time is in whole seconds, as exp and _ttl_for have *)
(* it.  The route has one JWTAuthentication with a store; which routes     *)
(* check at all is the business of Apis, guards that of RequestPipeline.   *)
(***************************************************************************)
EXTENDS Integers, FiniteSets

CONSTANTS
  Workers,        \* processes of the server
  Jtis,           \* token ids
  Lives,          \* expires_in
  DefaultTtl,     \* default_ttl of the store
  Leeway,         \* seconds by which jsonwebtoken forgives an expired token
  Stores,         \* the kinds of store to check: "memory", "cache", "orm"
  Requests,
  MaxNow, MaxTokens

VARIABLES
  now,
  store,          \* the kind in use
  tokens,         \* issued: [jti, exp]
  entries,        \* what the store holds: [on, jti, until]
  reqs,           \* requests in progress
  revoked,        \* history: [on, jti] for which revoke() has returned
  shortened       \* history: jti of tokens given an entry that ends before them

vars == <<now, store, tokens, entries, reqs, revoked, shortened>>

NoReq == [st |-> "none"]
NoJti == "none"   \* in place of the id of a token that has none

----------------------------------------------------------------------------
(* Tokens. *)

Issue(jti, exp) ==
  /\ Cardinality(tokens) < MaxTokens
  /\ jti = NoJti \/ \A t \in tokens : t.jti # jti
  /\ tokens' = tokens \cup {[jti |-> jti, exp |-> exp]}
  /\ UNCHANGED <<now, store, entries, reqs, revoked, shortened>>

CreateJwtForUser(jti, life) == Issue(jti, now + life)

\* __post_init__ refuses an exp that is not in the future.
TokenCreate(jti, life) == life > 0 /\ Issue(jti, now + life)

\* validate_exp with the leeway of Validation::new.
Decodes(t) == t.exp >= now - Leeway

----------------------------------------------------------------------------
(* The store. *)

\* The set of InMemoryRevocation is the process's own.
On(w) == IF store = "memory" THEN w ELSE "shared"

TtlFor_Default(given, exp) == DefaultTtl

TtlFor(given, exp) ==
  IF ~given THEN DefaultTtl
  ELSE IF exp > now THEN exp - now ELSE 0

\* The cache forgets by itself, the table only by its cleanup task, the set never.
IsRevoked(w, jti) ==
  \E e \in entries : e.on = On(w) /\ e.jti = jti /\ (store = "cache" => e.until > now)

\* revoke(): an entry replaces the one the store has for the token.
Stored(w, jti, given, exp) ==
  {e \in entries : e.on # On(w) \/ e.jti # jti}
    \cup {[on |-> On(w), jti |-> jti, until |-> now + TtlFor(given, exp)]}

\* The periodic task the documentation of DjangoORMRevocation asks for.
Cleanup ==
  /\ store = "orm"
  /\ \E e \in entries : e.until < now
  /\ entries' = {e \in entries : e.until >= now}
  /\ UNCHANGED <<now, store, tokens, reqs, revoked, shortened>>

----------------------------------------------------------------------------
(* A request. *)

\* authenticate accepts the token in the event loop of Rust; Python looks it up
\* later, and other requests run in between.
Arrive(r, w, t) ==
  /\ reqs[r] = NoReq
  /\ Decodes(t)
  /\ reqs' = [reqs EXCEPT ![r] =
       [st |-> "arrived", worker |-> w, token |-> t,
        known |-> [on |-> On(w), jti |-> t.jti] \in revoked, valid |-> TRUE]]
  /\ UNCHANGED <<now, store, tokens, entries, revoked, shortened>>

\* _check_revocation: 401 without a jti, and for one that is in the store.
CheckRevocation(r) ==
  /\ reqs[r].st = "arrived"
  /\ LET t == reqs[r].token IN
     reqs' = [reqs EXCEPT ![r] =
       IF t.jti = NoJti \/ IsRevoked(reqs[r].worker, t.jti) THEN NoReq
       ELSE [reqs[r] EXCEPT !.st = "running", !.valid = now < t.exp]]
  /\ UNCHANGED <<now, store, tokens, entries, revoked, shortened>>

\* The handler logs its token out, with exp= or without, and answers.
Revoke(r, given) ==
  LET w == reqs[r].worker
      t == reqs[r].token
  IN
  /\ reqs[r].st = "running"
  /\ entries' = Stored(w, t.jti, given, t.exp)
  /\ revoked' = revoked \cup {[on |-> On(w), jti |-> t.jti]}
  /\ shortened' = IF ~given /\ store # "memory" /\ now + DefaultTtl < t.exp
                  THEN shortened \cup {t.jti} ELSE shortened
  /\ reqs' = [reqs EXCEPT ![r] = NoReq]
  /\ UNCHANGED <<now, store, tokens>>

Respond(r) ==
  /\ reqs[r].st = "running"
  /\ reqs' = [reqs EXCEPT ![r] = NoReq]
  /\ UNCHANGED <<now, store, tokens, entries, revoked, shortened>>

Tick ==
  /\ now < MaxNow
  /\ now' = now + 1
  /\ UNCHANGED <<store, tokens, entries, reqs, revoked, shortened>>

Init ==
  /\ now = 0 /\ store \in Stores /\ tokens = {} /\ entries = {}
  /\ revoked = {} /\ shortened = {}
  /\ reqs = [r \in Requests |-> NoReq]

Next ==
  \/ \E jti \in Jtis \cup {NoJti}, life \in Lives : CreateJwtForUser(jti, life) \/ TokenCreate(jti, life)
  \/ \E r \in Requests :
       \/ \E w \in Workers, t \in tokens : Arrive(r, w, t)
       \/ CheckRevocation(r)
       \/ \E given \in BOOLEAN : Revoke(r, given)
       \/ Respond(r)
  \/ Cleanup
  \/ Tick

Spec == Init /\ [][Next]_vars
----------------------------------------------------------------------------
(* Properties. *)

\* A token that was revoked before its request arrived is refused for as long as
\* it is valid, whichever worker it reaches, however calls of revoke() follow
\* each other, the seconds pass and the table is cleaned up.  Excepted are a
\* token revoked without exp= for which default_ttl is too short, a set in the
\* memory of another process, and the leeway in which Rust still accepts an
\* expired token (_ttl_for, the stores, _check_revocation).
RevokedStayRefused ==
  \A r \in Requests : reqs[r].st = "running" =>
    ~(reqs[r].known /\ reqs[r].valid /\ reqs[r].token.jti \notin shortened)
=============================================================================
