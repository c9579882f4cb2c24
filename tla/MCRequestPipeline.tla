------------------------- MODULE MCRequestPipeline -------------------------
(***************************************************************************)
(* What happens to a request before its handler runs, one part of the way  *)
(* per behaviour: which says which part, and the others rest.              *)
(*                                                                         *)
(*   rust    RequestPipeline, with routes that vary one concern at a time  *)
(*           around a plain one and requests around an acceptable one      *)
(*   api     Apis: the projects of SampleProjects, two requests at once    *)
(*   deps    Dependencies: its functions and routes                        *)
(*   token   AuthTokens: one token, two workers, two requests at once      *)
(***************************************************************************)
EXTENDS RequestPipeline, SampleProjects

T == INSTANCE TLC

CONSTANTS
  r1, r2,                                              \* requests in progress at once
  Fns, Decl, Routes,                                   \* of Dependencies
  Workers, Jtis, Lives, DefaultTtl, Leeway, Stores,    \* of AuthTokens, and its bounds
  InFlight, MaxNow, MaxTokens

\* The parameters of a handler are a list, and those of a dependency finitely
\* many; Depends() names a function.
ASSUME DependenciesAssumption ==
  /\ \A r \in Routes :
       /\ Len(r.params) \in Nat /\ DOMAIN r.params = 1..Len(r.params)
       /\ \A i \in DOMAIN r.params : r.params[i].mark = "depends" => r.params[i].fn \in Fns
  /\ \A f \in Fns :
       /\ IsFiniteSet(Decl[f].params)
       /\ \A p \in Decl[f].params : p.mark = "depends" => p.fn \in Fns

\* Durations are whole seconds.
ASSUME TokensAssumption == Lives \subseteq Nat /\ DefaultTtl \in Nat

P0 == [base |-> "x", slashes |-> 0]
P1 == [base |-> "x", slashes |-> 1]
P2 == [base |-> "x", slashes |-> 2]

Plain == [guards |-> <<>>, backends |-> <<>>, rate_limit |-> FALSE, needs |-> {},
          skip |-> {}, cors |-> {}]

Anyone == [kind |-> "AllowAny", perms |-> {}]
Auth == [kind |-> "IsAuthenticated", perms |-> {}]
Super == [kind |-> "IsSuperuser", perms |-> {}]
Staff == [kind |-> "IsStaff", perms |-> {}]
AnyOf == [kind |-> "HasAnyPermission", perms |-> {"p", "q"}]
AllOf == [kind |-> "HasAllPermissions", perms |-> {"p", "q"}]

GuardLists == {<<>>} \union {<<g>> : g \in {Anyone, Auth, Super, Staff, AnyOf, AllOf}}
              \union {<<Anyone, Auth>>, <<Auth, Anyone>>, <<Auth, AllOf>>, <<Staff, Anyone, AllOf>>}

Cfg(all, cred, origins, regexes) ==
  [allow_all |-> all, credentials |-> cred, origins |-> origins, regexes |-> regexes]
OwnCors == Cfg(FALSE, TRUE, {"a"}, {})
Wild == Cfg(TRUE, FALSE, {}, {})
WildCred == Cfg(TRUE, TRUE, {}, {})

\* Routes with checks, and routes with CORS settings.
Checked == {[Plain EXCEPT !.guards = g, !.backends = b, !.rate_limit = l, !.needs = n] :
              g \in GuardLists, b \in {<<>>, <<"jwt">>, <<"jwt", "key">>},
              l \in BOOLEAN, n \in {{}, {"query", "body"}, {"headers", "body", "form"}}}
CorsRoutes == {[Plain EXCEPT !.skip = s, !.cors = c, !.guards = g] :
                 s \in {{}, {"cors"}}, c \in {{}, {OwnCors}, {Wild}, {WildCred}},
                 g \in {<<>>, <<Auth>>}}

User == [user |-> TRUE, staff |-> FALSE, superuser |-> FALSE, perms |-> {"p"}]
Boss == [user |-> TRUE, staff |-> TRUE, superuser |-> TRUE, perms |-> {"p", "q"}]
Ghost == [user |-> FALSE, staff |-> TRUE, superuser |-> FALSE, perms |-> {}]

Good == [method |-> "POST", path |-> P0, origin |-> "none", bad |-> {}, multipart |-> FALSE,
         admitted |-> TRUE, auth |-> [b \in {"jwt", "key"} |-> {}]]

MCTables ==
  {[x \in {<<"POST", P0>>} |-> r] : r \in Checked}
    \union {[x \in {<<m, P0>>} |-> r] : m \in {"GET", "HEAD", "OPTIONS"}, r \in CorsRoutes}
    \union {[x \in {<<"GET", P0>>, <<"POST", P1>>} |-> r] : r \in CorsRoutes}

MCRequests ==
  {[Good EXCEPT !.bad = b, !.multipart = mp, !.admitted = l, !.auth = [jwt |-> j, key |-> k]] :
     b \in {{}, {"path"}, {"query"}, {"headers"}, {"body"}, {"form"}}, mp \in BOOLEAN, l \in BOOLEAN,
     j \in {{}, {User}, {Ghost}}, k \in {{}, {Boss}}}
    \union
  {[Good EXCEPT !.method = m, !.path = p, !.origin = o, !.auth = [jwt |-> j, key |-> {}]] :
     m \in {"GET", "POST", "HEAD", "OPTIONS"}, p \in {P0, P1, P2, Root}, o \in {"none", "a", "b"}, j \in {{}, {User}}}

MCGlobals == {{}, {Cfg(FALSE, FALSE, {"b"}, {})}, {Cfg(FALSE, TRUE, {}, {"b"})}, {Wild}}
MCMounts == {P2}

-----------------------------------------------------------------------------
VARIABLES
  which,
  phase, calls, router, tables, discovered, server, executors, revoked, request,
  metas, plan, reg, todo, visited, acc, cur, stage, idx, task, result, dep_cache, made, starved,
  now, store, tokens, entries, reqs, ended, shortened

api == <<phase, calls, router, tables, discovered, server, executors, revoked, request>>
deps == <<metas, plan, reg, todo, visited, acc, cur, stage, idx, task, result, dep_cache, made, starved>>
token == <<now, store, tokens, entries, reqs, ended, shortened>>

Api == INSTANCE Apis WITH
  Apis <- {"main", "sub", "leaf"}, Merged <- "merged", DocsApi <- "docsapi",
  Routers <- {"outer", "inner"}, Functions <- {"f", "g", "h", "s", "docs"},
  Sockets <- {"s"}, Docs <- "docs", AppMiddleware <- AppMiddlewareDef,
  RouterMiddleware <- RouterMiddlewareDef, RouteMiddleware <- RouteMiddlewareDef,
  RustMiddleware <- {"cors"}, RunsSync <- {"f", "g", "h"}, AuthOf <- AuthOfDef,
  SchemeOf <- SchemeOfDef, Revoking <- {"jwt1"}, Dynamic <- {"g"},
  Projects <- ProjectsDef, MaxDiscovered <- 2, Requests <- {r1, r2}, None <- "none",
  table <- tables

Deps == INSTANCE Dependencies WITH
  phase <- stage, calls <- made

Tokens == INSTANCE AuthTokens WITH Requests <- InFlight, revoked <- ended

\* The requests to an API are interchangeable.
Symmetry == T!Permutations({r1, r2})

RustRests ==
  /\ table = <<>> /\ global = {} /\ req = Good /\ pc = "done" /\ gi = 1 /\ ctx = {}
  /\ status = 404 /\ marked = FALSE /\ read = FALSE /\ ran = FALSE /\ cors = NoCors
ApiRests ==
  /\ phase = "none" /\ calls = <<>> /\ router = <<>> /\ tables = <<>> /\ discovered = <<>>
  /\ server = "none" /\ executors = <<>> /\ revoked = {} /\ request = <<>>
TokenRests ==
  /\ now = 0 /\ store = "memory" /\ tokens = {} /\ entries = {} /\ reqs = <<>>
  /\ ended = {} /\ shortened = {}

MCInit ==
  /\ Deps!Init
  /\ \/ which = "rust" /\ Init /\ ApiRests /\ TokenRests
     \/ which = "api" /\ Api!Init /\ RustRests /\ TokenRests
     \/ which = "deps" /\ RustRests /\ ApiRests /\ TokenRests
     \/ which = "token" /\ Tokens!Init /\ RustRests /\ ApiRests

\* An API may have no route to serve, and the clock of a token stops at MaxNow:
\* they may stop.
MCNext ==
  \/ which = "rust" /\ Next /\ UNCHANGED <<which, api, deps, token>>
  \/ which = "api" /\ Api!Next /\ UNCHANGED <<which, vars, deps, token>>
  \/ which = "deps" /\ Deps!Next /\ UNCHANGED <<which, vars, api, token>>
  \/ which = "token" /\ Tokens!Next /\ UNCHANGED <<which, vars, api, deps>>
  \/ which \in {"api", "token"} /\ UNCHANGED <<which, vars, api, deps, token>>

MCSpec == MCInit /\ [][MCNext]_<<which, vars, api, deps, token>>

\* Once the server runs: no two routes share a handler id, the id of a route
\* leads to the metadata compiled for its function and to an API that declares
\* the function, and no route of a discovered API was lost on the way through
\* mount, merge_apis and the documentation routes added last.
RoutesIntact == which = "api" => Api!RoutesIntact

\* A handler runs behind exactly the middleware declared for its route, in the
\* order application, routers, route, and with the parameters compiled for that
\* route, whatever shortcuts _dispatch takes and whatever mounts, merges and
\* caches have done; and on every way to a handler whose backend has a revocation
\* store, mounted and merged routes included, the token is looked up.  Three uses
\* are excepted for middleware, where the code does otherwise: an API mounted on
\* an API that is itself mounted, a router with two parents, and a function with
\* two routes in one API.
MiddlewareApplied == which = "api" => Api!MiddlewareApplied /\ Api!RevokedRefused

\* No handler runs for a token that was revoked before its request arrived: in
\* every kind of store, the entry is there to be found by any worker for as long
\* as the token is valid, however calls of revoke() follow each other, time passes
\* and the table is cleaned up.  Excepted are a token revoked without exp= that
\* outlives default_ttl, the memory of another process, and the leeway in which
\* Rust accepts an expired token.
RevokedRefused == which = "token" => Tokens!RevokedStayRefused

\* The handler runs with the value of a call of this request to the very
\* function each of its parameters names; and outside of gather, all the
\* parameters that name a cached dependency share the value of one call
\* (the injectors and resolve_dependency).  And what a dependency asks for by a
\* Query, Header or Cookie marker, or reads of the request, was parsed, however
\* the routes share it and in whatever order they were registered.
ArgumentsAreTheirs == which = "deps" => Deps!ArgumentsAreTheirs /\ Deps!DependenciesSeeRequest
=============================================================================
