-------------------------- MODULE RequestPipeline --------------------------
(***************************************************************************)
(* One HTTP request from the router to the last byte of its head: the      *)
(* stages of handle_request (src/handler.rs) in their order, with the      *)
(* early return of each, and the CORS middleware (src/middleware/cors.rs)  *)
(* that sees every response on its way out.                                *)
(*                                                                         *)
(* A route is what RouteMetadata::from_python made of its declaration; an  *)
(* optional value is a set with at most one element.  Of a request the     *)
(* model keeps what the stages find out about it: which of its parts are   *)
(* bad, which backends accept its credentials and as whom, and what the    *)
(* rate limiter would answer.                                              *)
(***************************************************************************)
EXTENDS Integers, Sequences

CONSTANTS
  Tables,     \* route tables: functions from <<method, path>> to a route
  Requests,   \* requests
  Globals,    \* optional global CORS configurations
  Mounts,     \* paths below an ASGI mount
  Permissions \* permissions a guard may name

GuardKinds == {"AllowAny", "IsAuthenticated", "IsSuperuser", "IsStaff",
               "HasAnyPermission", "HasAllPermissions"}
Guards == [kind : GuardKinds, perms : SUBSET Permissions]

ASSUME TablesAssumption ==
  \A t \in Tables : \A x \in DOMAIN t : t[x].guards \in Seq(Guards)

\* An optional CORS configuration is none or one; its flags are booleans.
OptionalCors(o) ==
  /\ \A c, d \in o : c = d
  /\ \A c \in o : c.allow_all \in BOOLEAN /\ c.credentials \in BOOLEAN

\* The Origin header of a browser names an origin; the wildcard is none.
ASSUME CorsAssumption ==
  /\ \A g \in Globals : OptionalCors(g)
  /\ \A t \in Tables : \A x \in DOMAIN t : OptionalCors(t[x].cors)
  /\ \A q \in Requests : q.origin # "*"

VARIABLES
  table,      \* the router and the route metadata
  global,     \* global_cors_config
  req,        \* the request
  pc,         \* the stage
  gi,         \* index of the guard to evaluate
  ctx,        \* auth_ctx
  status,     \* status of the response, 0 before there is one
  marked,     \* the response carries x-bolt-skip-cors
  read,       \* the body was taken from the payload
  ran,        \* the handler was called
  cors        \* the CORS headers of the response

vars == <<table, global, req, pc, gi, ctx, status, marked, read, ran, cors>>

Methods == {"GET", "POST", "PUT", "PATCH", "DELETE", "HEAD", "OPTIONS"}
Statuses == {0, 200, 204, 308, 400, 401, 403, 404, 422, 429, 500}

\* A path is what precedes its trailing slashes and their number.
Root == [base |-> "", slashes |-> 1]
Alternate(p) == [p EXCEPT !.slashes = IF p.slashes > 0 THEN 0 ELSE 1]

Routed(m, p) == <<m, p>> \in DOMAIN table
MethodsAt(p) == {m \in Methods : Routed(m, p)}
Route == table[<<req.method, req.path>>]

----------------------------------------------------------------------------
(* RouteExecutionPlan. *)

HasEnforcingGuards(guards) == \E i \in DOMAIN guards : guards[i].kind # "AllowAny"

HasAuthOrGuards_GuardsOnly(r) == HasEnforcingGuards(r.guards) /\ r.backends = <<>>
HasAuthOrGuards(r) == r.backends # <<>> \/ HasEnforcingGuards(r.guards)

MustExtractHeaders_NoAuth(r) == r.needs \cap {"headers", "cookies", "form"} # {} \/ r.rate_limit
MustExtractHeaders(r) ==
  \/ r.needs \cap {"headers", "cookies", "form"} # {}
  \/ HasAuthOrGuards(r)
  \/ r.rate_limit

----------------------------------------------------------------------------
(* Authentication and guards. *)

\* The headers a check sees: none of them when they were not extracted.
Credentials(r) == IF MustExtractHeaders(r) THEN req.auth ELSE [b \in DOMAIN req.auth |-> {}]

\* The context of the first backend that accepts the request.
Authenticated(r) ==
  LET accepting == {i \in DOMAIN r.backends : Credentials(r)[r.backends[i]] # {}} IN
  UNION {Credentials(r)[r.backends[i]] :
           i \in {k \in accepting : \A j \in accepting : k <= j}}

\* HasPermission(p) is HasAllPermissions of {p}.
Holds(g, c) ==
  CASE g.kind = "IsAuthenticated"   -> \E a \in c : a.user
    [] g.kind = "IsSuperuser"       -> \E a \in c : a.superuser
    [] g.kind = "IsStaff"           -> \E a \in c : a.staff
    [] g.kind = "HasAnyPermission"  -> \E a \in c : g.perms \cap a.perms # {}
    [] g.kind = "HasAllPermissions" -> \E a \in c : g.perms \subseteq a.perms
    [] OTHER                        -> FALSE

Refusal(g, c) == IF g.kind = "IsAuthenticated" \/ c = {} THEN 401 ELSE 403

----------------------------------------------------------------------------
(* The CORS middleware. *)

NoCors == [origin |-> "absent", credentials |-> FALSE, preflight |-> FALSE]

\* server.rs gives the global configuration to the routes without their own.
RouteCors(r) ==
  IF r.cors # {} THEN r.cors ELSE IF "cors" \in r.skip THEN {} ELSE global

\* What find_cors_config returns: nothing found, Skipped, or a configuration.
Skipped == [found |-> TRUE, cfg |-> {}]
Global == [found |-> global # {}, cfg |-> global]

FindCorsForMethod_NoSkip(m, p) ==
  IF Routed(m, p) /\ RouteCors(table[<<m, p>>]) # {}
    THEN [found |-> TRUE, cfg |-> RouteCors(table[<<m, p>>])]
    ELSE Global
FindCorsForMethod(m, p) ==
  IF ~Routed(m, p) THEN Global ELSE
  LET r == table[<<m, p>>] IN
  IF "cors" \in r.skip THEN Skipped
  ELSE IF RouteCors(r) # {} THEN [found |-> TRUE, cfg |-> RouteCors(r)] ELSE Global

MethodsToTry == <<"GET", "POST", "PUT", "PATCH", "DELETE", "HEAD">>

FindCorsConfig(m, p) ==
  IF m # "OPTIONS" THEN FindCorsForMethod(m, p) ELSE
  LET hits == {i \in DOMAIN MethodsToTry : FindCorsForMethod(MethodsToTry[i], p).found} IN
  IF hits = {} THEN Global
  ELSE FindCorsForMethod(MethodsToTry[CHOOSE i \in hits : \A j \in hits : i <= j], p)

\* Origins are reflected when an exact set or a regex has them; a set or a
\* list of regexes that is empty is replaced by the global one.
OriginMatches(c, o) ==
  LET known == UNION {g.origins : g \in IF c.origins # {} THEN {c} ELSE global}
      regex == UNION {g.regexes : g \in IF c.regexes # {} THEN {c} ELSE global}
  IN (c.origins # {} \/ global # {}) /\ o \in known \union regex

CorsHeaders(c, o) ==
  IF c.allow_all /\ ~c.credentials
    THEN [origin |-> "*", credentials |-> FALSE, preflight |-> req.method = "OPTIONS"]
  ELSE IF c.allow_all \/ OriginMatches(c, o)
    THEN [origin |-> o, credentials |-> c.credentials, preflight |-> req.method = "OPTIONS"]
  ELSE NoCors

----------------------------------------------------------------------------
Init ==
  /\ table \in Tables
  /\ global \in Globals
  /\ req \in Requests
  /\ pc = "find"
  /\ gi = 1
  /\ ctx = {}
  /\ status = 0
  /\ marked = FALSE
  /\ read = FALSE
  /\ ran = FALSE
  /\ cors = NoCors

given == <<table, global, req>>

\* An early return: a response of the server's own, with no skip marker.
Answer(s) ==
  /\ pc' = "cors"
  /\ status' = s
  /\ UNCHANGED <<given, gi, ctx, marked, read, ran, cors>>

Goto(stage) ==
  /\ pc' = stage
  /\ UNCHANGED <<given, gi, ctx, status, marked, read, ran, cors>>

\* The router.
Found == pc = "find" /\ Routed(req.method, req.path) /\ Goto("params")

Missed == pc = "find" /\ ~Routed(req.method, req.path)

HasAlternate == req.path # Root /\ Routed(req.method, Alternate(req.path))
HasAutoOptions == req.method = "OPTIONS" /\ MethodsAt(req.path) # {}

RedirectSlash == Missed /\ HasAlternate /\ Answer(308)

AutoOptions == Missed /\ ~HasAlternate /\ HasAutoOptions /\ Answer(204)

\* The mounted application answers with a status of its own.
AsgiMount ==
  /\ Missed /\ ~HasAlternate /\ ~HasAutoOptions
  /\ req.path \in Mounts
  /\ \E s \in {200, 404, 500} : Answer(s)

NotFound ==
  /\ Missed /\ ~HasAlternate /\ ~HasAutoOptions
  /\ req.path \notin Mounts
  /\ Answer(IF req.method = "OPTIONS" /\ global # {} THEN 204 ELSE 404)

\* validate_and_cache_typed_params: the query is parsed only when needed.
BadParams == "path" \in req.bad \/ ("query" \in req.bad /\ "query" \in Route.needs)
RejectParams == pc = "params" /\ BadParams /\ Answer(422)
AcceptParams == pc = "params" /\ ~BadParams /\ Goto("headers")

\* extract_headers: too many or too large.
BadHeaders == MustExtractHeaders(Route) /\ "headers" \in req.bad
RejectHeaders == pc = "headers" /\ BadHeaders /\ Answer(400)
AcceptHeaders == pc = "headers" /\ ~BadHeaders /\ Goto("limit")

\* check_rate_limit, for a route that has one.
OverLimit_HandlerHeaders == Route.rate_limit /\ "headers" \in Route.needs /\ ~req.admitted
OverLimit == Route.rate_limit /\ ~req.admitted
RejectRate == pc = "limit" /\ OverLimit /\ Answer(429)
AcceptRate == pc = "limit" /\ ~OverLimit /\ Goto("auth")

\* validate_auth_and_guards, one guard a step.
SkipAuth == pc = "auth" /\ ~HasAuthOrGuards(Route) /\ Goto("body")

Authenticate ==
  /\ pc = "auth"
  /\ HasAuthOrGuards(Route)
  /\ ctx' = Authenticated(Route)
  /\ pc' = "guards"
  /\ UNCHANGED <<given, gi, status, marked, read, ran, cors>>

GuardsDone == pc = "guards" /\ gi > Len(Route.guards) /\ Goto("body")

AtGuard == pc = "guards" /\ gi <= Len(Route.guards)
Guard == Route.guards[gi]

AllowAny == AtGuard /\ Guard.kind = "AllowAny" /\ Goto("body")

GuardHolds ==
  /\ AtGuard
  /\ Guard.kind # "AllowAny"
  /\ Holds(Guard, ctx)
  /\ gi' = gi + 1
  /\ UNCHANGED <<given, pc, ctx, status, marked, read, ran, cors>>

GuardRefuses ==
  /\ AtGuard
  /\ Guard.kind # "AllowAny"
  /\ ~Holds(Guard, ctx)
  /\ Answer(Refusal(Guard, ctx))

\* The body, a multipart body or a form.
NoBody == pc = "body" /\ Route.needs \cap {"body", "form"} = {} /\ Goto("dispatch")

ReadBody ==
  /\ pc = "body"
  /\ Route.needs \cap {"body", "form"} # {}
  /\ "body" \notin req.bad
  /\ "form" \in req.bad => "form" \notin Route.needs
  /\ read' = TRUE
  /\ pc' = "dispatch"
  /\ UNCHANGED <<given, gi, ctx, status, marked, ran, cors>>

\* A payload that breaks off is a 400, or a 422 when it is multipart; a
\* form that does not validate is a 422.
RejectBody ==
  /\ pc = "body"
  /\ Route.needs \cap {"body", "form"} # {}
  /\ "body" \in req.bad \/ ("form" \in req.bad /\ "form" \in Route.needs)
  /\ read' = TRUE
  /\ pc' = "cors"
  /\ status' = IF "body" \in req.bad /\ ~("form" \in Route.needs /\ req.multipart)
                 THEN 400 ELSE 422
  /\ UNCHANGED <<given, gi, ctx, marked, ran, cors>>

(***************************************************************************)
(* The handler is called, at once or as a coroutine.  Its bytes, stream or *)
(* file, or what Python made of its exception, become a response that      *)
(* carries the skip marker; an exception that reaches Rust, or a malformed   *)
(* result, becomes an error response without it.                           *)
(***************************************************************************)
HandlerReturns ==
  /\ pc = "dispatch"
  /\ ran' = TRUE
  /\ \E s \in {200, 401, 404, 422, 500} : status' = s
  /\ marked' = ("cors" \in Route.skip)
  /\ pc' = "cors"
  /\ UNCHANGED <<given, gi, ctx, read, cors>>

HandlerFails ==
  /\ pc = "dispatch"
  /\ ran' = TRUE
  /\ \E s \in {400, 404, 422, 500} : status' = s
  /\ pc' = "cors"
  /\ UNCHANGED <<given, gi, ctx, marked, read, cors>>

\* CorsMiddlewareService::call, after the inner service.
CorsMiddleware ==
  /\ pc = "cors"
  /\ pc' = "done"
  /\ marked' = FALSE
  /\ cors' = IF req.origin = "none" \/ marked THEN NoCors ELSE
               LET found == FindCorsConfig(req.method, req.path) IN
               IF found.cfg = {} THEN NoCors
               ELSE CorsHeaders(CHOOSE c \in found.cfg : TRUE, req.origin)
  /\ UNCHANGED <<given, gi, ctx, status, read, ran>>

\* The response is sent.
Done == pc = "done" /\ UNCHANGED vars

Next ==
  \/ Found \/ RedirectSlash \/ AutoOptions \/ AsgiMount \/ NotFound
  \/ RejectParams \/ AcceptParams \/ RejectHeaders \/ AcceptHeaders
  \/ RejectRate \/ AcceptRate
  \/ SkipAuth \/ Authenticate \/ GuardsDone \/ AllowAny \/ GuardHolds \/ GuardRefuses
  \/ NoBody \/ ReadBody \/ RejectBody
  \/ HandlerReturns \/ HandlerFails
  \/ CorsMiddleware \/ Done

Spec == Init /\ [][Next]_vars
----------------------------------------------------------------------------
(* Properties. *)

Stages == {"find", "params", "headers", "limit", "auth", "guards", "body", "dispatch", "cors", "done"}

\* Every variable has its type, and a stage after the router has its route.
TypeOK ==
  /\ pc \in Stages
  /\ pc \notin {"find", "cors", "done"} => Routed(req.method, req.path)
  /\ gi \in Nat \ {0}
  /\ pc \in {"cors", "done"} <=> status # 0
  /\ status \in Statuses
  /\ marked \in BOOLEAN /\ read \in BOOLEAN /\ ran \in BOOLEAN

\* The first backend of the route that knows the request, and the guards in
\* their order up to the first AllowAny, as the route declares them.
Who(q, r) ==
  LET accepting == {i \in DOMAIN r.backends : q.auth[r.backends[i]] # {}} IN
  UNION {q.auth[r.backends[i]] : i \in {k \in accepting : \A j \in accepting : k <= j}}

Permitted(r, c) ==
  \E n \in 0..Len(r.guards) :
    /\ \A i \in 1..n : Holds(r.guards[i], c)
    /\ n < Len(r.guards) => r.guards[n + 1].kind = "AllowAny"

\* Every check the declaration of the route asks for passes on this request.
Cleared ==
  /\ Routed(req.method, req.path)
  /\ "path" \notin req.bad
  /\ Route.rate_limit => req.admitted
  /\ Permitted(Route, Who(req, Route))

\* The handler runs only for a request that passes the checks its route
\* declares, whatever the execution plan lets handle_request skip.
HandlerWasAllowed == ran => Cleared

\* A handler of a route with backends runs with the context of the first
\* one that accepted the request.
HandlerKnowsWho == ran /\ Route.backends # <<>> => ctx = Who(req, Route)

\* Nothing of a body is read for a request that will be refused by the rate
\* limiter, the backends or the guards: validation comes before the payload.
BodyAfterChecks == read => Cleared

Admits(c, o) == c.allow_all \/ o \in c.origins \union c.regexes

\* Whatever the status, early errors included: a route that skips CORS sends
\* neither a CORS header nor the internal marker, and one that does not
\* answers every origin it lists and only origins that its configuration or
\* the global one admits.  The wildcard never goes with credentials.
CorsOnEveryStatus ==
  /\ ~(cors.origin = "*" /\ cors.credentials)
  /\ pc = "done" /\ req.origin # "none" /\ req.method # "OPTIONS" /\ Routed(req.method, req.path) =>
       IF "cors" \in Route.skip THEN cors = NoCors /\ ~marked ELSE
       \A c \in IF Route.cors # {} THEN Route.cors ELSE global :
         /\ c.allow_all \/ req.origin \in c.origins => cors.origin \in {"*", req.origin}
         /\ cors.origin # "absent" => \E g \in global \union {c} : Admits(g, req.origin)
         /\ cors.credentials => c.credentials
=============================================================================
