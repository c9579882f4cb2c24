------------------------------- MODULE Apis -------------------------------
(***************************************************************************)
(* BoltAPI objects, from the import of a project to the dispatch of its    *)
(* requests.  Importing a project runs its calls in order: routes are      *)
(* declared on APIs and routers, routers are nested and included, APIs are *)
(* mounted on one another.  runbolt then merges the APIs it discovers into *)
(* one table, renumbers the handlers, adds the documentation routes and    *)
(* hands the table to Rust.  A request is dispatched by handler id through *)
(* the middleware of the API that owns the handler, the middleware of its  *)
(* routers and its own.                                                    *)
(*                                                                         *)
(* A path is the sequence of its segments (trailing slashes and an API's   *)
(* own prefix are part of the path a call gives), and every function       *)
(* answers one method.  A middleware is its name: a class, a function or a *)
(* Django wrapper, which run in Python, or a dict, which Rust executes and *)
(* Python skips.  A Django wrapper instance is given to one API only.      *)
(***************************************************************************)
EXTENDS Naturals, Sequences, SequencesExt, FiniteSets, FiniteSetsExt, TLC

CONSTANTS
  Apis,             \* the BoltAPI objects of the project
  Merged,           \* the API runbolt creates to merge several
  DocsApi,          \* the API created for documentation behind a login
  Routers,          \* the Router objects of the project
  Functions,        \* the handler functions
  Sockets,          \* those that handle WebSockets
  Docs,             \* the function that serves the documentation
  AppMiddleware,    \* the middleware of each API, outermost first
  RouterMiddleware, \* the middleware of each router
  RouteMiddleware,  \* the middleware attached to each function
  RustMiddleware,   \* the dict entries among them
  RunsSync,         \* functions with a synchronous executor
  AuthOf,           \* the authentication backends declared for each function
  SchemeOf,         \* the scheme name of each backend
  Revoking,         \* the backends with a revocation handler
  Dynamic,          \* the path segments that are parameters
  Projects,         \* the sequences of calls to import
  MaxDiscovered,    \* bound on the APIs that autodiscovery finds
  Requests,         \* the requests in progress at once
  None

Owners == Apis \cup {Merged, DocsApi}

\* The backends that a function can name.
Backends == UNION {Range(AuthOf[f]) : f \in Functions}

VARIABLES
  phase,      \* "import", "serving", or "failed" when an exception ends the process
  calls,      \* the calls of the project that are left
  router,     \* Router: prefix, _routes, _parent, _children
  table,      \* BoltAPI: _routes, _handler_meta, _handler_api_map, _next_handler_id
  discovered, \* the APIs that autodiscovery found, in order
  server,     \* the API whose dispatch Rust calls
  executors,  \* _route_executor_cache of every API
  revoked,    \* the backends whose token has been revoked
  request     \* the requests

vars == <<phase, calls, router, table, discovered, server, executors, revoked, request>>

Idle == [pc |-> "idle"]

imported == <<router, table>>
serving == <<executors, revoked, request>>
---------------------------------------------------------------------------
(* What registration computes for a route.                                 *)

\* The entries that run in Python: all but the dict ones.
Python(specs) == SelectSeq(specs, LAMBDA s : s \notin RustMiddleware)

\* meta["_revocation_handlers"]: per scheme name, the last backend with one.
RevocationHandlers(f) ==
  LET revoking == SelectSeq(AuthOf[f], LAMBDA b : b \in Revoking)
  IN  [s \in {SchemeOf[b] : b \in Range(revoking)} |->
         revoking[Max({i \in DOMAIN revoking : SchemeOf[revoking[i]] = s})]]

CanSyncDispatch_RouteOnly(a, f, routerMiddleware) ==
  /\ f \in RunsSync
  /\ Python(routerMiddleware \o RouteMiddleware[f]) = <<>>
  /\ DOMAIN RevocationHandlers(f) = {}

\* Rust may call _dispatch_sync, which runs no middleware and awaits nothing.
CanSyncDispatch(a, f, routerMiddleware) ==
  /\ f \in RunsSync
  /\ Python(routerMiddleware \o RouteMiddleware[f]) = <<>>
  /\ Python(AppMiddleware[a]) = <<>>
  /\ DOMAIN RevocationHandlers(f) = {}

\* The metadata of a route declared on API a.  The routers it was declared
\* through are recorded for the properties.
Meta(a, route) ==
  [fn        |-> route.fn,
   path      |-> route.path,
   api       |-> a,
   through   |-> route.through,
   layers    |-> Python(route.middleware \o RouteMiddleware[route.fn]),
   revokers  |-> RevocationHandlers(route.fn),
   sync      |-> CanSyncDispatch(a, route.fn, route.middleware)]

EmptyTable == [routes |-> <<>>, meta |-> <<>>, owner |-> <<>>, next |-> 0, mounts |-> {}]

\* A route enters a table under the next handler id, with its metadata.
Append1(t, path, fn, meta) ==
  [t EXCEPT !.routes = Append(@, [path |-> path, fn |-> fn, id |-> t.next]),
            !.meta   = (t.next :> meta) @@ @,
            !.next   = @ + 1]

\* _route_decorator and _websocket_decorator.
Register(t, a, route) == Append1(t, route.path, route.fn, Meta(a, route))

RegisterAll(t, a, routes) == FoldLeft(LAMBDA acc, route : Register(acc, a, route), t, routes)

\* The HTTP routes and the WebSocket routes of a table are separate lists.
Http(t) == SelectSeq(t.routes, LAMBDA e : e.fn \notin Sockets)
WebSocket(t) == SelectSeq(t.routes, LAMBDA e : e.fn \in Sockets)
---------------------------------------------------------------------------
(* Routers.                                                                *)

\* get_middleware_chain: the parents' middleware first.
MiddlewareChain(r) ==
  LET chain[n \in 0 .. Cardinality(Routers)] ==
        [x \in Routers |->
           IF n = 0 THEN <<>>
           ELSE (IF router[x].parent = None THEN <<>> ELSE chain[n - 1][router[x].parent])
                  \o RouterMiddleware[x]]
  IN  chain[Cardinality(Routers)][r]

\* get_all_routes: a router's own routes and its children's under its prefix.
AllRoutes(r) ==
  LET own(x) == [i \in DOMAIN router[x].routes |->
                   [path       |-> router[x].routes[i].path,
                    fn         |-> router[x].routes[i].fn,
                    middleware |-> MiddlewareChain(x),
                    through    |-> <<x>>]]
      under(x, routes) == [i \in DOMAIN routes |->
                   [routes[i] EXCEPT !.path = router[x].prefix \o @, !.through = <<x>> \o @]]
      walk[n \in 0 .. Cardinality(Routers)] ==
        [x \in Routers |->
           IF n = 0 THEN <<>>
           ELSE own(x) \o FlattenSeq([i \in DOMAIN router[x].children |->
                                        under(x, walk[n - 1][router[x].children[i]])])]
  IN  walk[Cardinality(Routers)][r]
---------------------------------------------------------------------------
Init ==
  /\ phase = "import"
  /\ calls \in Projects
  /\ router = [r \in Routers |-> [prefix |-> <<r>>, routes |-> <<>>, parent |-> None, children |-> <<>>]]
  /\ table = [a \in Owners |-> EmptyTable]
  /\ discovered = <<>>
  /\ server = None
  /\ executors = [a \in Owners |-> <<>>]
  /\ revoked = {}
  /\ request = [r \in Requests |-> Idle]

\* The project's next call.
Call(op) == phase = "import" /\ calls # <<>> /\ Head(calls).op = op /\ calls' = Tail(calls)

\* @api.get and its like, api.websocket, and api.view and api.viewset, which
\* declare one route for every method or action of a class.
Route ==
  /\ Call("route")
  /\ LET c == Head(calls)
         routes == [i \in DOMAIN c.fns |->
                      [path |-> Append(c.path, c.fns[i]), fn |-> c.fns[i], middleware |-> <<>>, through |-> <<>>]]
     IN  table' = [table EXCEPT ![c.api] = RegisterAll(@, c.api, routes)]
  /\ UNCHANGED <<phase, router, discovered, server, serving>>

\* @router.get and its like: the prefix is fixed when the route is declared.
AddRoute ==
  /\ Call("add")
  /\ LET c == Head(calls)
     IN  router' = [router EXCEPT ![c.router].routes =
                      Append(@, [path |-> Append(router[c.router].prefix, c.fn), fn |-> c.fn])]
  /\ UNCHANGED <<phase, table, discovered, server, serving>>

\* Router.include_router: the child has one parent, the last.
Nest ==
  /\ Call("nest")
  /\ LET c == Head(calls)
     IN  router' = [router EXCEPT ![c.router].children = Append(@, c.child),
                                  ![c.child].parent = c.router,
                                  ![c.child].prefix = c.prefix \o @]
  /\ UNCHANGED <<phase, table, discovered, server, serving>>

\* BoltAPI.include_router: every route of the router is declared on the API.
Include ==
  /\ Call("include")
  /\ LET c == Head(calls)
         routes == [i \in DOMAIN AllRoutes(c.router) |->
                      [AllRoutes(c.router)[i] EXCEPT !.path = c.prefix \o @]]
     IN  table' = [table EXCEPT ![c.api] = RegisterAll(@, c.api, routes)]
  /\ UNCHANGED <<phase, router, discovered, server, serving>>

\* The routes of table s enter table t under new ids; the API from is recorded
\* as their owner.
MountedOn(t, s, from, prefix) ==
  LET copy(acc, e) ==
        [Append1(acc, prefix \o e.path, e.fn, s.meta[e.id]) EXCEPT !.owner = (acc.next :> from) @@ @]
  IN  [FoldLeft(copy, t, Http(s) \o WebSocket(s)) EXCEPT !.mounts = @ \cup {prefix \o m : m \in s.mounts}]

\* BoltAPI.mount: a duplicate ASGI prefix raises.
Mount ==
  /\ Call("mount")
  /\ LET c == Head(calls)
         s == table[c.sub]
     IN  /\ table' = [table EXCEPT ![c.api] = MountedOn(@, s, c.sub, c.prefix)]
         /\ phase' = IF \E m \in s.mounts : c.prefix \o m \in table[c.api].mounts
                     THEN "failed" ELSE "import"
  /\ UNCHANGED <<router, discovered, server, serving>>

\* BoltAPI.mount_asgi and mount_django.
MountAsgi ==
  /\ Call("asgi")
  /\ LET c == Head(calls)
     IN  /\ table' = [table EXCEPT ![c.api].mounts = @ \cup {c.prefix}]
         /\ phase' = IF c.prefix \in table[c.api].mounts THEN "failed" ELSE "import"
  /\ UNCHANGED <<router, discovered, server, serving>>
---------------------------------------------------------------------------
(* runbolt: start_single_process.                                          *)

\* The owner of a route that merge_apis copies: a sub-app keeps its routes.
OwnerIn(a, id) == IF id \in DOMAIN table[a].owner THEN table[a].owner[id] ELSE a

MergeApis_FromZero(apis) ==
  LET copy(acc, a) ==
        LET one(t, e) == [Append1(t, e.path, e.fn, table[a].meta[e.id])
                            EXCEPT !.owner = (t.next :> OwnerIn(a, e.id)) @@ @]
        IN  [FoldLeft(one, acc, Http(table[a]) \o WebSocket(table[a])) EXCEPT !.mounts = @ \cup table[a].mounts]
  IN  IF Len(apis) = 1 THEN table[apis[1]]
      ELSE [FoldLeft(copy, EmptyTable, apis) EXCEPT !.next = 0]

\* merge_apis: a single API is used as it is; several are copied into a new
\* table whose handlers are numbered afresh.
MergeApis(apis) ==
  LET copy(acc, a) ==
        LET one(t, e) == [Append1(t, e.path, e.fn, table[a].meta[e.id])
                            EXCEPT !.owner = (t.next :> OwnerIn(a, e.id)) @@ @]
        IN  [FoldLeft(one, acc, Http(table[a]) \o WebSocket(table[a])) EXCEPT !.mounts = @ \cup table[a].mounts]
  IN  IF Len(apis) = 1 THEN table[apis[1]] ELSE FoldLeft(copy, EmptyTable, apis)

\* merge_apis raises for two routes, or two mounts, in one place.
Conflicts(apis) ==
  /\ Len(apis) > 1
  /\ \/ \E i, j \in DOMAIN apis : \E m \in DOMAIN table[apis[i]].routes, n \in DOMAIN table[apis[j]].routes :
          LET e == table[apis[i]].routes[m]
              f == table[apis[j]].routes[n]
          IN  <<i, m>> # <<j, n>> /\ e.path = f.path /\ (e.fn \in Sockets <=> f.fn \in Sockets)
     \/ \E i, j \in DOMAIN apis : i # j /\ table[apis[i]].mounts \cap table[apis[j]].mounts # {}

\* The documentation routes, on the API itself or, behind a login, on an API
\* of their own that is mounted.
DocsRoute == [path |-> <<Docs>>, fn |-> Docs, middleware |-> <<>>, through |-> <<>>]
WithDocs(t, a, docs) ==
  CASE docs = "off"   -> t
    [] docs = "open"  -> Register(t, a, DocsRoute)
    [] docs = "login" -> MountedOn(t, Register(EmptyTable, DocsApi, DocsRoute), DocsApi, <<>>)

\* What validate_asgi_mount_conflicts and the Rust routers refuse: a mount on
\* a route's path, and a second route on a path with parameters.  A second
\* route on a static path replaces the first.
Refused(t) ==
  \/ \E e \in Range(Http(t)) : e.path \in t.mounts
  \/ \E e, f \in Range(t.routes) :
       /\ e # f /\ e.path = f.path /\ (e.fn \in Sockets <=> f.fn \in Sockets)
       /\ Range(e.path) \cap Dynamic # {}

Start(apis, docs) ==
  /\ phase = "import" /\ calls = <<>>
  /\ LET a == IF Len(apis) = 1 THEN apis[1] ELSE Merged
         t == WithDocs(MergeApis(apis), a, docs)
     IN  /\ table' = [table EXCEPT ![a] = t]
         /\ server' = a
         /\ phase' = IF Conflicts(apis) \/ Refused(t) THEN "failed" ELSE "serving"
  /\ discovered' = apis
  /\ UNCHANGED <<calls, router, serving>>
---------------------------------------------------------------------------
(* Dispatch.                                                               *)

\* The route that Rust finds for a path: the last one registered on it.
Found(path) ==
  LET http == Http(table[server])
  IN  http[Max({i \in DOMAIN http : http[i].path = path})]

MetaOf(e) == table[server].meta[e.id]

\* middleware_owner in _dispatch.
OwnerOf(e) == OwnerIn(server, e.id)

\* _get_route_executor: built once per function and API, and then reused.
Executor(a, meta) ==
  IF meta.fn \in DOMAIN executors[a] THEN executors[a][meta.fn]
  ELSE [layers |-> meta.layers, meta |-> meta]

\* The rest of _dispatch once the token is checked: through the middleware of
\* the owner and of the route, or straight to the handler when there is none.
Proceed(r, q) ==
  LET m == MetaOf(q.route)
      a == OwnerOf(q.route)
      app == Python(AppMiddleware[a])
  IN  IF app = <<>> /\ m.layers = <<>>
      THEN /\ request' = [request EXCEPT ![r] = [q EXCEPT !.pc = "handler", !.meta = m]]
           /\ UNCHANGED executors
      ELSE LET x == Executor(a, m)
           IN  /\ executors' = [executors EXCEPT ![a] = (m.fn :> x) @@ @]
               /\ request' = [request EXCEPT ![r] =
                    [q EXCEPT !.pc = "chain", !.todo = app \o x.layers, !.meta = x.meta]]

\* A request without a token.
NoToken == [backend |-> None, jti |-> FALSE]

\* A request arrives with the token that one of the backends accepted, or with
\* none, and Rust calls _dispatch_sync or _dispatch.
Dispatch(r, path, token) ==
  /\ phase = "serving" /\ request[r] = Idle
  /\ LET e == Found(path)
         m == MetaOf(e)
         q == [pc |-> "arrived", route |-> e, token |-> token, meta |-> m, todo |-> <<>>, ran |-> <<>>,
               late |-> token.backend \in revoked]
     IN  CASE m.sync -> /\ request' = [request EXCEPT ![r] = [q EXCEPT !.pc = "handler"]]
                        /\ UNCHANGED executors
           [] ~m.sync /\ token # NoToken /\ DOMAIN m.revokers # {} ->
                        /\ request' = [request EXCEPT ![r] = [q EXCEPT !.pc = "revocation"]]
                        /\ UNCHANGED executors
           [] OTHER -> Proceed(r, q)
  /\ UNCHANGED <<phase, calls, imported, discovered, server, revoked>>

\* _check_revocation: the handler registered for the scheme looks the token up.
CheckRevocation(r) ==
  /\ request[r].pc = "revocation"
  /\ LET q == request[r]
         scheme == SchemeOf[q.token.backend]
         revokers == MetaOf(q.route).revokers
     IN  IF scheme \in DOMAIN revokers
              /\ (~q.token.jti \/ (revokers[scheme] = q.token.backend /\ q.token.backend \in revoked))
         THEN /\ request' = [request EXCEPT ![r] = Idle]
              /\ UNCHANGED executors
         ELSE Proceed(r, q)
  /\ UNCHANGED <<phase, calls, imported, discovered, server, revoked>>

\* The next middleware of the chain runs up to its call of get_response.
Enter(r) ==
  /\ request[r].pc = "chain" /\ request[r].todo # <<>>
  /\ request' = [request EXCEPT ![r].ran = Append(@, Head(request[r].todo)),
                                ![r].todo = Tail(@),
                                ![r].pc = IF Len(request[r].todo) = 1 THEN "handler" ELSE "chain"]
  /\ UNCHANGED <<phase, calls, imported, discovered, server, executors, revoked>>

\* A middleware answers, or raises, instead of calling get_response.
Answer(r) ==
  /\ request[r].pc = "chain"
  /\ request' = [request EXCEPT ![r] = Idle]
  /\ UNCHANGED <<phase, calls, imported, discovered, server, executors, revoked>>

\* The handler returns or raises; the response goes back through the chain.
Finish(r) ==
  /\ request[r].pc = "handler"
  /\ request' = [request EXCEPT ![r] = Idle]
  /\ UNCHANGED <<phase, calls, imported, discovered, server, executors, revoked>>

\* A token is revoked while requests are being served.
Revoke(b) ==
  /\ phase = "serving" /\ b \in Revoking \ revoked
  /\ revoked' = revoked \cup {b}
  /\ UNCHANGED <<phase, calls, imported, discovered, server, executors, request>>
---------------------------------------------------------------------------
\* The lists that autodiscovery can return: each API once.
Discoveries == {s \in SeqOf(Apis, MaxDiscovered) : s # <<>> /\ IsInjective(s)}

\* A request carries a token of a backend of its route, or none.
Tokens(f) == [backend : Range(AuthOf[f]), jti : BOOLEAN] \cup {NoToken}

Next ==
  \/ Route \/ AddRoute \/ Nest \/ Include \/ Mount \/ MountAsgi
  \/ \E apis \in Discoveries, docs \in {"off", "open", "login"} : Start(apis, docs)
  \/ \E r \in Requests :
       \/ \E path \in {e.path : e \in (IF server = None THEN {} ELSE Range(Http(table[server])))} :
            \E token \in Tokens(Found(path).fn) : Dispatch(r, path, token)
       \/ CheckRevocation(r) \/ Enter(r) \/ Answer(r) \/ Finish(r)
  \/ \E b \in Backends : Revoke(b)

Spec == Init /\ [][Next]_vars
---------------------------------------------------------------------------
(* Properties.                                                             *)

\* Every table numbers its handlers below its counter, and a request is at one
\* of the points of _dispatch with the route it was given to.
TypeOK ==
  /\ phase \in {"import", "serving", "failed"}
  /\ server \in Owners \cup {None}
  /\ revoked \subseteq Revoking
  /\ \A a \in Owners :
       /\ table[a].next \in Nat
       /\ DOMAIN table[a].meta \subseteq 0 .. table[a].next - 1
       /\ DOMAIN table[a].owner \subseteq DOMAIN table[a].meta
       /\ \A e \in Range(table[a].routes) : e.id \in DOMAIN table[a].meta
       /\ DOMAIN executors[a] \subseteq Functions
  /\ \A r \in Requests :
       /\ request[r].pc \in {"idle", "revocation", "chain", "handler"}
       /\ request[r].pc # "idle" => request[r].route \in Range(table[server].routes)

\* Once the server runs, no two routes share a handler id, the id of a route
\* leads to the metadata compiled for its function and to an API that declares
\* the function, and no route of a discovered API has been lost on the way
\* through mounts, the merge and the documentation routes added last.
RoutesIntact ==
  phase = "serving" =>
    LET t == table[server] IN
    /\ \A i, j \in DOMAIN t.routes : t.routes[i].id = t.routes[j].id => i = j
    /\ \A e \in Range(t.routes) :
         /\ t.meta[e.id].fn = e.fn
         /\ IsSuffix(t.meta[e.id].path, e.path)
         /\ OwnerOf(e) \in Apis => \E f \in Range(table[OwnerOf(e)].routes) : f.fn = e.fn
    /\ \A a \in Range(discovered) : \A e \in Range(table[a].routes) :
         \E f \in Range(t.routes) : f.path = e.path /\ t.meta[f.id] = table[a].meta[e.id]

\* The middleware declared for a route: of the API it was declared on, of the
\* routers it was declared through, and its own.
Layers(m) ==
  Python(AppMiddleware[m.api]
           \o FlattenSeq([i \in DOMAIN m.through |-> RouterMiddleware[m.through[i]]])
           \o RouteMiddleware[m.fn])

\* Every router that the route was declared through is included where it was
\* found and nowhere else.
OneParent(m) ==
  \A i \in DOMAIN m.through :
    {p \in Routers : m.through[i] \in Range(router[p].children)} \subseteq
      (IF i = 1 THEN {} ELSE {m.through[i - 1]})

\* The function has one route among those that its owner serves.
OneRoute(e) ==
  \A f \in Range(table[server].routes) : f.fn = e.fn /\ OwnerOf(f) = OwnerOf(e) => MetaOf(f) = MetaOf(e)

\* A handler runs behind exactly the middleware declared for its route, in the
\* order application, routers, route, and with the parameters compiled for that
\* route: the shortcuts of _dispatch skip nothing, and mounts, merges and caches
\* mix nothing up.  Three uses are excepted, where the code does otherwise: an
\* API mounted on an API that is itself mounted, a router with two parents, and
\* a function with two routes in one API.
MiddlewareApplied ==
  \A r \in Requests :
    LET q == request[r] IN
    /\ q.pc = "handler"
    /\ OwnerOf(q.route) = MetaOf(q.route).api
    /\ OneParent(MetaOf(q.route)) /\ OneRoute(q.route)
    => q.ran = Layers(MetaOf(q.route)) /\ q.meta = MetaOf(q.route)

\* A request whose token was revoked before it arrived, or has no jti, never
\* reaches the handler of a route with a revocation handler, on the
\* asynchronous path or the synchronous one, if no other backend of the route
\* with a revocation handler has the same scheme name.
RevokedRefused ==
  \A r \in Requests :
    LET q == request[r]
        b == q.token.backend
    IN  /\ q.pc = "handler" /\ b \in Revoking
        /\ \A c \in Revoking \cap Range(AuthOf[q.route.fn]) : SchemeOf[c] = SchemeOf[b] => c = b
        => ~q.late /\ q.token.jti

\* As the documentation of mount says, every sub-app maintains its own
\* middleware: the first of the exceptions above is not made.
SubAppsKeepMiddleware ==
  \A r \in Requests :
    LET q == request[r] IN
    q.pc = "handler" /\ OneParent(MetaOf(q.route)) /\ OneRoute(q.route)
    => q.ran = Layers(MetaOf(q.route))
===========================================================================
