----------------------- MODULE RequestPipelineProofs -----------------------
(***************************************************************************)
(* What a request has passed when its handler runs.                        *)
(*                                                                         *)
(*   In Rust, every check the route declares, before the body is read: for *)
(*   every route table, every list of guards and every request.            *)
(*                                                                         *)
(*   In Python, a lookup that finds its token revoked if it was: for every *)
(*   kind of store and any lifetimes.                                      *)
(*                                                                         *)
(*   And the calls of the dependencies its parameters name: for any        *)
(*   functions and routes.                                                 *)
(*                                                                         *)
(* And what its handler is given and what becomes of what it returns,      *)
(* whichever injector bound the arguments and whichever executor made the  *)
(* answer.                                                                 *)
(***************************************************************************)
EXTENDS MCRequestPipeline, Calls, FiniteSetTheorems, SequenceTheorems, WellFoundedInduction, TLAPS

(***************************************************************************)
(* The inductive invariant says what each stage has established.  The      *)
(* guards are the one loop: at guard gi, all the guards before it hold.    *)
(***************************************************************************)
RouteKnown ==
  pc \in {"params", "headers", "limit", "auth", "guards", "body", "dispatch"}
    => Routed(req.method, req.path)

ParamsChecked ==
  pc \in {"headers", "limit", "auth", "guards", "body", "dispatch"} => "path" \notin req.bad

RateChecked ==
  pc \in {"auth", "guards", "body", "dispatch"} => (Route.rate_limit => req.admitted)

GuardsSoFar ==
  /\ gi \in Nat \ {0}
  /\ pc \in {"find", "params", "headers", "limit", "auth"} => gi = 1
  /\ pc = "guards" =>
       /\ ctx = Who(req, Route)
       /\ gi <= Len(Route.guards) + 1
       /\ \A i \in 1..(gi - 1) : Holds(Route.guards[i], Who(req, Route))

ContextKnown == Route.backends # <<>> => ctx = Who(req, Route)

GuardsChecked == pc \in {"body", "dispatch"} => Permitted(Route, Who(req, Route)) /\ ContextKnown

Effects ==
  /\ read => Cleared
  /\ ran => Cleared /\ ContextKnown
  /\ ran => pc \in {"cors", "done"}

IInv ==
  /\ table \in Tables
  /\ pc \in Stages
  /\ RouteKnown
  /\ ParamsChecked
  /\ RateChecked
  /\ GuardsSoFar
  /\ GuardsChecked
  /\ Effects

\* A route that skips authentication has no backend and at most AllowAny.
LEMMA NothingToEnforce ==
  ASSUME NEW r, r.guards \in Seq(Guards), ~HasAuthOrGuards(r), NEW c
  PROVE  r.backends = <<>> /\ Permitted(r, c)
<1>1. r.backends = <<>>
  BY DEF HasAuthOrGuards
<1>2. Len(r.guards) \in Nat /\ DOMAIN r.guards = 1..Len(r.guards)
  OBVIOUS
<1>3. 0 < Len(r.guards) => r.guards[0 + 1].kind = "AllowAny"
  BY <1>2 DEF HasAuthOrGuards, HasEnforcingGuards
<1>4. \A i \in 1..0 : Holds(r.guards[i], c)
  OBVIOUS
<1>5. 0 \in 0..Len(r.guards)
  BY <1>2
<1> QED
  BY <1>1, <1>3, <1>4, <1>5 DEF Permitted

\* The backends see the headers of the request.
LEMMA HeadersReachBackends ==
  ASSUME NEW r, HasAuthOrGuards(r)
  PROVE  Authenticated(r) = Who(req, r)
BY DEF Authenticated, Who, Credentials, MustExtractHeaders

\* A request that has just arrived has passed no stage and had no effect.
LEMMA InitIInv == Init => IInv
BY DEF Init, IInv, Stages, RouteKnown, ParamsChecked, RateChecked, GuardsSoFar, GuardsChecked, Effects

\* What the stages rely on does not change while a request is served.
LEMMA SameRequest ==
  ASSUME UNCHANGED given
  PROVE  /\ table' = table /\ req' = req
         /\ Routed(req.method, req.path)' = Routed(req.method, req.path)
         /\ Route' = Route
         /\ Who(req, Route)' = Who(req, Route)
         /\ Permitted(Route, Who(req, Route))' = Permitted(Route, Who(req, Route))
         /\ Cleared' = Cleared
<1>1. table' = table /\ req' = req
  BY DEF given
<1>2. /\ Routed(req.method, req.path)' = Routed(req.method, req.path)
      /\ Route' = Route
  BY <1>1 DEF Routed, Route
<1>3. Who(req, Route)' = Who(req, Route)
  BY <1>1, <1>2
<1>4. Permitted(Route, Who(req, Route))' = Permitted(Route, Who(req, Route))
  BY <1>2, <1>3
<1>5. Cleared' = Cleared
  BY <1>1, <1>2, <1>4 DEF Cleared
<1> QED
  BY <1>1, <1>2, <1>3, <1>4, <1>5

\* Every stage preserves the invariant.
LEMMA NextIInv == IInv /\ [Next]_vars => IInv'
<1> SUFFICES ASSUME IInv, [Next]_vars
             PROVE  IInv'
  OBVIOUS
<1> USE DEF IInv
<1>g. UNCHANGED given
  BY DEF Next, vars, given, Answer, Goto, Found, RedirectSlash, AutoOptions, AsgiMount, NotFound,
         RejectParams, AcceptParams, RejectHeaders, AcceptHeaders, RejectRate, AcceptRate,
         SkipAuth, Authenticate, GuardsDone, AllowAny, GuardHolds, GuardRefuses,
         NoBody, ReadBody, RejectBody, HandlerReturns, HandlerFails, CorsMiddleware, Done
<1>s. /\ table' = table /\ req' = req
      /\ Routed(req.method, req.path)' = Routed(req.method, req.path)
      /\ Route' = Route
      /\ Who(req, Route)' = Who(req, Route)
      /\ Permitted(Route, Who(req, Route))' = Permitted(Route, Who(req, Route))
      /\ Cleared' = Cleared
  BY <1>g, SameRequest
<1>a. ASSUME NEW s, Answer(s)
      PROVE  IInv'
  BY <1>s, <1>a DEF Answer, Stages, RouteKnown, ParamsChecked, RateChecked, GuardsSoFar,
                    GuardsChecked, Effects, ContextKnown
<1>1. CASE Found
  BY <1>s, <1>1 DEF Found, Goto, Stages, RouteKnown, ParamsChecked, RateChecked, GuardsSoFar,
                    GuardsChecked, Effects, ContextKnown
<1>2. CASE AcceptParams
  BY <1>s, <1>2 DEF AcceptParams, BadParams, Goto, Stages, RouteKnown, ParamsChecked, RateChecked,
                    GuardsSoFar, GuardsChecked, Effects, ContextKnown
<1>3. CASE AcceptHeaders
  BY <1>s, <1>3 DEF AcceptHeaders, Goto, Stages, RouteKnown, ParamsChecked, RateChecked,
                    GuardsSoFar, GuardsChecked, Effects, ContextKnown
<1>4. CASE AcceptRate
  BY <1>s, <1>4 DEF AcceptRate, OverLimit, Goto, Stages, RouteKnown, ParamsChecked, RateChecked,
                    GuardsSoFar, GuardsChecked, Effects, ContextKnown
<1>gu. pc \in {"auth", "guards"} => Route.guards \in Seq(Guards)
  BY TablesAssumption DEF RouteKnown, Routed, Route
<1>5. CASE SkipAuth
  <2>1. Route.backends = <<>> /\ Permitted(Route, Who(req, Route))
    BY <1>5, <1>gu, NothingToEnforce DEF SkipAuth
  <2> QED
    BY <1>s, <1>5, <2>1 DEF SkipAuth, Goto, Stages, RouteKnown, ParamsChecked, RateChecked,
                            GuardsSoFar, GuardsChecked, Effects, ContextKnown
<1>6. CASE Authenticate
  <2>1. ctx' = Who(req, Route)
    BY <1>6, HeadersReachBackends DEF Authenticate
  <2>2. Len(Route.guards) \in Nat
    BY <1>6, <1>gu DEF Authenticate
  <2>3. GuardsSoFar'
    BY <1>s, <1>6, <2>1, <2>2 DEF Authenticate, GuardsSoFar
  <2> QED
    BY <1>s, <1>6, <2>3 DEF Authenticate, Stages, RouteKnown, ParamsChecked, RateChecked,
                            GuardsChecked, Effects, ContextKnown
<1>7. CASE GuardsDone
  <2>1. Len(Route.guards) \in Nat
    BY <1>7, <1>gu DEF GuardsDone
  <2>2. gi = Len(Route.guards) + 1
    BY <1>7, <2>1 DEF GuardsDone, GuardsSoFar
  <2>3. \A i \in 1..Len(Route.guards) : Holds(Route.guards[i], Who(req, Route))
    BY <1>7, <2>1, <2>2 DEF GuardsDone, GuardsSoFar
  <2>4. Permitted(Route, Who(req, Route))
    BY <2>1, <2>3 DEF Permitted
  <2> QED
    BY <1>s, <1>7, <2>4 DEF GuardsDone, Goto, Stages, RouteKnown, ParamsChecked, RateChecked,
                            GuardsSoFar, GuardsChecked, Effects, ContextKnown
<1>8. CASE AllowAny
  <2>1. Len(Route.guards) \in Nat /\ gi \in 1..Len(Route.guards)
    BY <1>8, <1>gu DEF AllowAny, AtGuard, GuardsSoFar
  <2>2. /\ \A i \in 1..(gi - 1) : Holds(Route.guards[i], Who(req, Route))
        /\ Route.guards[(gi - 1) + 1].kind = "AllowAny"
    BY <1>8, <2>1 DEF AllowAny, AtGuard, Guard, GuardsSoFar
  <2>3. gi - 1 \in 0..Len(Route.guards)
    BY <2>1
  <2>4. Permitted(Route, Who(req, Route))
    BY <2>2, <2>3 DEF Permitted
  <2> QED
    BY <1>s, <1>8, <2>4 DEF AllowAny, AtGuard, Goto, Stages, RouteKnown, ParamsChecked, RateChecked,
                            GuardsSoFar, GuardsChecked, Effects, ContextKnown
<1>9. CASE GuardHolds
  <2>1. Len(Route.guards) \in Nat /\ gi \in 1..Len(Route.guards)
    BY <1>9, <1>gu DEF GuardHolds, AtGuard, GuardsSoFar
  <2>2. ctx = Who(req, Route) /\ Holds(Route.guards[gi], Who(req, Route))
    BY <1>9 DEF GuardHolds, AtGuard, Guard, GuardsSoFar
  <2>3. \A i \in 1..gi : Holds(Route.guards[i], Who(req, Route))
    BY <1>9, <2>1, <2>2 DEF GuardHolds, AtGuard, GuardsSoFar
  <2>4. gi' = gi + 1 /\ pc' = pc /\ ctx' = ctx
    BY <1>9 DEF GuardHolds
  <2>5. GuardsSoFar'
    BY <1>s, <1>9, <2>1, <2>2, <2>3, <2>4 DEF GuardsSoFar, GuardHolds, AtGuard
  <2> QED
    BY <1>s, <1>9, <2>5 DEF GuardHolds, AtGuard, Stages, RouteKnown, ParamsChecked, RateChecked,
                            GuardsChecked, Effects, ContextKnown
<1>c. pc = "body" \/ pc = "dispatch" => Cleared
  BY DEF Cleared, RouteKnown, ParamsChecked, RateChecked, GuardsChecked
<1>10. CASE NoBody
  BY <1>s, <1>10 DEF NoBody, Goto, Stages, RouteKnown, ParamsChecked, RateChecked,
                     GuardsSoFar, GuardsChecked, Effects, ContextKnown
<1>11. CASE ReadBody
  BY <1>s, <1>c, <1>11 DEF ReadBody, Stages, RouteKnown, ParamsChecked, RateChecked,
                     GuardsSoFar, GuardsChecked, Effects, ContextKnown
<1>12. CASE RejectBody
  BY <1>s, <1>c, <1>12 DEF RejectBody, Stages, RouteKnown, ParamsChecked, RateChecked,
                     GuardsSoFar, GuardsChecked, Effects, ContextKnown
<1>13. CASE HandlerReturns \/ HandlerFails
  BY <1>s, <1>c, <1>13 DEF HandlerReturns, HandlerFails, Stages, RouteKnown, ParamsChecked,
                     RateChecked, GuardsSoFar, GuardsChecked, Effects, ContextKnown
<1>14. CASE CorsMiddleware
  BY <1>s, <1>14 DEF CorsMiddleware, Stages, RouteKnown, ParamsChecked, RateChecked,
                     GuardsSoFar, GuardsChecked, Effects, ContextKnown
<1>15. CASE UNCHANGED vars \/ Done
  BY <1>s, <1>15 DEF Done, vars, Stages, RouteKnown, ParamsChecked, RateChecked,
                     GuardsSoFar, GuardsChecked, Effects, ContextKnown
<1>16. CASE \E s : Answer(s)
  BY <1>a, <1>16
<1>17. RedirectSlash \/ AutoOptions \/ AsgiMount \/ NotFound \/ RejectParams \/ RejectHeaders
         \/ RejectRate \/ GuardRefuses => \E s : Answer(s)
  BY DEF RedirectSlash, AutoOptions, AsgiMount, NotFound, RejectParams, RejectHeaders,
         RejectRate, GuardRefuses
<1> QED
  BY <1>1, <1>2, <1>3, <1>4, <1>5, <1>6, <1>7, <1>8, <1>9, <1>10, <1>11, <1>12, <1>13, <1>14,
     <1>15, <1>16, <1>17 DEF Next

\* The invariant holds at every stage of every request.
LEMMA SpecIInv == Spec => []IInv
BY InitIInv, NextIInv, PTL DEF Spec

\* The handler runs only for requests that pass every check of their route:
\* no shortcut of the execution plan admits a request a guard refuses.
THEOREM OnlyAllowedRun == Spec => []HandlerWasAllowed
<1>1. IInv => HandlerWasAllowed
  BY DEF IInv, Effects, HandlerWasAllowed
<1> QED
  BY <1>1, SpecIInv, PTL

\* A handler behind backends runs as whoever the first accepting one names.
THEOREM RunsAsWho == Spec => []HandlerKnowsWho
<1>1. IInv => HandlerKnowsWho
  BY DEF IInv, Effects, ContextKnown, HandlerKnowsWho
<1> QED
  BY <1>1, SpecIInv, PTL

\* The payload of a request that will be refused is never read.
THEOREM RefusedUnread == Spec => []BodyAfterChecks
<1>1. IInv => BodyAfterChecks
  BY DEF IInv, Effects, BodyAfterChecks
<1> QED
  BY <1>1, SpecIInv, PTL

\* A membership is one of the two truth values.
LEMMA MembershipIsBoolean ==
  ASSUME NEW x, NEW S
  PROVE  (x \in S) \in BOOLEAN
OBVIOUS

\* The response has a status once there is one, and the flags are Boolean.
StatusKnown == (pc \in {"cors", "done"} <=> status # 0) /\ status \in Statuses

\* Every variable keeps its type, and there is a status exactly when the
\* response is on its way through the CORS middleware or sent.
THEOREM TypeCorrect == Spec => []TypeOK
<1> DEFINE Flags == marked \in BOOLEAN /\ read \in BOOLEAN /\ ran \in BOOLEAN
<1>1. Init => StatusKnown /\ Flags
  <2>1. Init => StatusKnown
    BY DEF Init, StatusKnown, Statuses
  <2>2. Init => Flags
    BY Zenon DEF Init
  <2> QED
    BY <2>1, <2>2
<1>2. StatusKnown /\ [Next]_vars => StatusKnown'
  <2> SUFFICES ASSUME StatusKnown, [Next]_vars
               PROVE  StatusKnown'
    OBVIOUS
  <2>1. CASE \E s \in Statuses \ {0} : Answer(s)
    BY <2>1 DEF Answer, StatusKnown
  <2>2. RedirectSlash \/ AutoOptions \/ AsgiMount \/ NotFound \/ RejectParams \/ RejectHeaders
          \/ RejectRate \/ GuardRefuses => \E s \in Statuses \ {0} : Answer(s)
    BY DEF RedirectSlash, AutoOptions, AsgiMount, NotFound, RejectParams, RejectHeaders,
           RejectRate, GuardRefuses, Refusal, Statuses
  <2>3. CASE Found \/ AcceptParams \/ AcceptHeaders \/ AcceptRate \/ SkipAuth \/ GuardsDone
               \/ AllowAny \/ NoBody
    BY <2>3 DEF StatusKnown, Found, AcceptParams, AcceptHeaders, AcceptRate, SkipAuth, GuardsDone,
                AllowAny, AtGuard, NoBody, Goto
  <2>4. CASE Authenticate \/ GuardHolds
    BY <2>4 DEF StatusKnown, Authenticate, GuardHolds, AtGuard
  <2>5. CASE ReadBody \/ RejectBody
    BY <2>5 DEF StatusKnown, ReadBody, RejectBody, Statuses
  <2>6. CASE HandlerReturns \/ HandlerFails
    BY <2>6 DEF StatusKnown, HandlerReturns, HandlerFails, Statuses
  <2>7. CASE CorsMiddleware
    BY <2>7 DEF StatusKnown, CorsMiddleware
  <2>8. CASE UNCHANGED vars \/ Done
    BY <2>8 DEF StatusKnown, Done, vars
  <2> QED
    BY <2>1, <2>2, <2>3, <2>4, <2>5, <2>6, <2>7, <2>8 DEF Next
<1>3. Flags /\ [Next]_vars => Flags'
  <2> SUFFICES ASSUME Flags, [Next]_vars
               PROVE  Flags'
    OBVIOUS
  <2>1. CASE HandlerReturns
    <3>1. marked' = ("cors" \in Route.skip)
      BY <2>1 DEF HandlerReturns
    <3>2. marked' \in BOOLEAN
      BY <3>1, MembershipIsBoolean
    <3> QED
      BY <2>1, <3>2, Zenon DEF HandlerReturns
  <2>2. CASE HandlerFails \/ ReadBody \/ RejectBody \/ CorsMiddleware
    <3>1. /\ marked' = marked \/ marked' = FALSE
          /\ read' = read \/ read' = TRUE
          /\ ran' = ran \/ ran' = TRUE
      BY <2>2 DEF HandlerFails, ReadBody, RejectBody, CorsMiddleware
    <3> QED
      BY <3>1, Zenon
  <2>3. CASE UNCHANGED <<marked, read, ran>>
    BY <2>3, Zenon
  <2>4. \/ HandlerReturns \/ HandlerFails \/ ReadBody \/ RejectBody \/ CorsMiddleware
        \/ UNCHANGED <<marked, read, ran>>
    BY DEF Next, vars, Answer, Goto, Found, RedirectSlash, AutoOptions, AsgiMount, NotFound,
         RejectParams, AcceptParams, RejectHeaders, AcceptHeaders, RejectRate, AcceptRate,
         SkipAuth, Authenticate, GuardsDone, AllowAny, GuardHolds, GuardRefuses, NoBody, Done
  <2> QED
    BY <2>1, <2>2, <2>3, <2>4
<1>4. IInv /\ StatusKnown /\ Flags => TypeOK
  <2>1. IInv => /\ pc \in Stages /\ gi \in Nat \ {0}
                /\ pc \notin {"find", "cors", "done"} => Routed(req.method, req.path)
    BY DEF IInv, GuardsSoFar, RouteKnown, Stages
  <2> QED
    BY <2>1 DEF TypeOK, StatusKnown
<1> QED
  BY <1>1, <1>2, <1>3, <1>4, SpecIInv, PTL DEF Spec
-----------------------------------------------------------------------------
(***************************************************************************)
(* CORS.  The headers are set by the last stage, and only a response of    *)
(* the handler of a route that skips CORS is marked.                       *)
(***************************************************************************)
CorsInv ==
  /\ global \in Globals /\ req \in Requests
  /\ pc # "done" => cors = NoCors
  /\ marked => Routed(req.method, req.path) /\ "cors" \in Route.skip
  /\ CorsOnEveryStatus

\* What the middleware answers to an origin under a configuration.
LEMMA HeadersOfConfig ==
  ASSUME NEW c, NEW o, c.allow_all \in BOOLEAN, c.credentials \in BOOLEAN, o # "*"
  PROVE  /\ ~(CorsHeaders(c, o).origin = "*" /\ CorsHeaders(c, o).credentials)
         /\ c.allow_all \/ o \in c.origins => CorsHeaders(c, o).origin \in {"*", o}
         /\ CorsHeaders(c, o).origin # "absent" => \E g \in global \union {c} : Admits(g, o)
         /\ CorsHeaders(c, o).credentials => c.credentials
<1>1. CASE c.allow_all /\ ~c.credentials
  <2>1. /\ CorsHeaders(c, o).origin = "*" /\ CorsHeaders(c, o).credentials = FALSE
    BY <1>1 DEF CorsHeaders
  <2> QED
    BY <1>1, <2>1 DEF Admits
<1>2. CASE ~(c.allow_all /\ ~c.credentials) /\ (c.allow_all \/ OriginMatches(c, o))
  <2>1. CorsHeaders(c, o).origin = o /\ CorsHeaders(c, o).credentials = c.credentials
    BY <1>2 DEF CorsHeaders
  <2>2. \E g \in global \union {c} : Admits(g, o)
    <3>1. CASE c.allow_all
      BY <3>1 DEF Admits
    <3>2. CASE OriginMatches(c, o)
      BY <3>2 DEF OriginMatches, Admits
    <3> QED
      BY <1>2, <3>1, <3>2
  <2> QED
    BY <2>1, <2>2
<1>3. CASE ~c.allow_all /\ ~OriginMatches(c, o)
  <2>1. CorsHeaders(c, o) = NoCors
    BY <1>3 DEF CorsHeaders
  <2>2. o \notin c.origins
    BY <1>3 DEF OriginMatches
  <2> QED
    BY <1>3, <2>1, <2>2 DEF NoCors
<1> QED
  BY <1>1, <1>2, <1>3

\* The configuration of a routed request other than a preflight.
LEMMA ConfigOfRoute ==
  ASSUME req.method # "OPTIONS", Routed(req.method, req.path)
  PROVE  FindCorsConfig(req.method, req.path).cfg =
           IF "cors" \in Route.skip THEN {} ELSE IF Route.cors # {} THEN Route.cors ELSE global
BY DEF FindCorsConfig, FindCorsForMethod, RouteCors, Skipped, Global, Route

\* Whatever configuration is found is one of the route table or the global one.
LEMMA ConfigIsKnown ==
  ASSUME table \in Tables, global \in Globals, NEW m, NEW p,
         NEW c \in FindCorsConfig(m, p).cfg
  PROVE  c.allow_all \in BOOLEAN /\ c.credentials \in BOOLEAN
<1>1. ASSUME NEW n, NEW d \in FindCorsForMethod(n, p).cfg
      PROVE  d.allow_all \in BOOLEAN /\ d.credentials \in BOOLEAN
  <2>1. \/ d \in global
        \/ <<n, p>> \in DOMAIN table /\ d \in table[<<n, p>>].cors
    BY <1>1 DEF FindCorsForMethod, RouteCors, Global, Skipped, Routed
  <2> QED
    BY <2>1, CorsAssumption DEF OptionalCors
<1>2. c \in global \/ \E n : c \in FindCorsForMethod(n, p).cfg
  BY DEF FindCorsConfig, Global
<1> QED
  BY <1>1, <1>2, CorsAssumption DEF OptionalCors

LEMMA CorsMiddlewareInv ==
  ASSUME IInv, CorsInv, CorsMiddleware
  PROVE  CorsInv'
<1> DEFINE found == FindCorsConfig(req.method, req.path)
           c == CHOOSE x \in found.cfg : TRUE
           o == req.origin
<1>1. /\ UNCHANGED given /\ pc = "cors" /\ pc' = "done" /\ marked' = FALSE
      /\ cors' = IF o = "none" \/ marked \/ found.cfg = {} THEN NoCors ELSE CorsHeaders(c, o)
  BY DEF CorsMiddleware
<1>2. o # "*" /\ table \in Tables /\ global \in Globals /\ req \in Requests
  BY CorsAssumption DEF CorsInv, IInv
<1>3. found.cfg # {} => c \in found.cfg /\ c.allow_all \in BOOLEAN /\ c.credentials \in BOOLEAN
  <2>1. found.cfg # {} => c \in found.cfg
    OBVIOUS
  <2> QED
    BY <1>2, <2>1, ConfigIsKnown
<1>4. ~(cors'.origin = "*" /\ cors'.credentials)
  <2>1. CASE cors' = NoCors
    BY <2>1 DEF NoCors
  <2>2. CASE found.cfg # {} /\ cors' = CorsHeaders(c, o)
    BY <1>2, <1>3, <2>2, HeadersOfConfig
  <2> QED
    BY <1>1, <2>1, <2>2
<1>5. ASSUME o # "none", req.method # "OPTIONS", Routed(req.method, req.path), "cors" \in Route.skip
      PROVE  cors' = NoCors
  BY <1>1, <1>5, ConfigOfRoute
<1>6. ASSUME o # "none", req.method # "OPTIONS", Routed(req.method, req.path), "cors" \notin Route.skip,
             NEW d \in IF Route.cors # {} THEN Route.cors ELSE global
      PROVE  /\ d.allow_all \/ o \in d.origins => cors'.origin \in {"*", o}
             /\ cors'.origin # "absent" => \E g \in global \union {d} : Admits(g, o)
             /\ cors'.credentials => d.credentials
  <2>1. found.cfg = IF Route.cors # {} THEN Route.cors ELSE global
    BY <1>6, ConfigOfRoute
  <2>2. OptionalCors(found.cfg)
    BY <1>2, <1>6, <2>1, CorsAssumption DEF Routed, Route
  <2>3. d \in found.cfg /\ d = c
    BY <1>3, <1>6, <2>1, <2>2 DEF OptionalCors
  <2>4. ~marked
    BY <1>6 DEF CorsInv
  <2>5. cors' = CorsHeaders(d, o)
    BY <1>1, <1>6, <2>3, <2>4
  <2> QED
    BY <1>2, <1>3, <2>3, <2>5, HeadersOfConfig
<1> HIDE DEF found, c
<1>7. table' = table /\ req' = req /\ global' = global /\ Route' = Route
      /\ Routed(req.method, req.path)' = Routed(req.method, req.path)
  BY <1>1 DEF given, Route, Routed
<1>8. CorsOnEveryStatus'
  BY <1>1, <1>4, <1>5, <1>6, <1>7 DEF CorsOnEveryStatus
<1> QED
  BY <1>1, <1>2, <1>7, <1>8 DEF CorsInv

LEMMA NextCorsInv == IInv /\ CorsInv /\ [Next]_vars => CorsInv'
<1> SUFFICES ASSUME IInv, CorsInv, [Next]_vars
             PROVE  CorsInv'
  OBVIOUS
<1>1. CASE CorsMiddleware
  BY <1>1, CorsMiddlewareInv
<1>2. CASE UNCHANGED vars \/ Done
  <2>1. UNCHANGED vars
    BY <1>2 DEF Done
  <2>2. Route' = Route /\ Routed(req.method, req.path)' = Routed(req.method, req.path)
    BY <2>1 DEF vars, Route, Routed
  <2>3. /\ table' = table /\ global' = global /\ req' = req /\ pc' = pc /\ cors' = cors
        /\ marked' = marked
    BY <2>1 DEF vars
  <2>4. CorsOnEveryStatus'
    BY <2>2, <2>3 DEF CorsInv, CorsOnEveryStatus
  <2> QED
    BY <2>2, <2>3, <2>4 DEF CorsInv
<1>3. ASSUME UNCHANGED given, UNCHANGED cors, pc # "done", pc' # "done",
             marked' = marked \/ ~marked' \/ (pc = "dispatch" /\ "cors" \in Route.skip)
      PROVE  CorsInv'
  <2>1. Route' = Route /\ Routed(req.method, req.path)' = Routed(req.method, req.path)
    BY <1>3 DEF given, Route, Routed
  <2>2. pc = "dispatch" => Routed(req.method, req.path)
    BY DEF IInv, RouteKnown
  <2>3. global' = global /\ req' = req /\ cors = NoCors
    BY <1>3 DEF given, CorsInv
  <2>4. CorsOnEveryStatus'
    BY <1>3, <2>3 DEF CorsOnEveryStatus, NoCors
  <2> QED
    BY <1>3, <2>1, <2>2, <2>3, <2>4 DEF CorsInv
<1>4. ASSUME NEW s, Answer(s), pc # "done"
      PROVE  CorsInv'
  BY <1>3, <1>4 DEF Answer
<1>5. ASSUME NEW s, Goto(s), pc # "done", s # "done"
      PROVE  CorsInv'
  BY <1>3, <1>5 DEF Goto
<1>6. CASE RedirectSlash \/ AutoOptions \/ AsgiMount \/ NotFound \/ RejectParams \/ RejectHeaders
             \/ RejectRate \/ GuardRefuses
  BY <1>4, <1>6 DEF RedirectSlash, AutoOptions, AsgiMount, NotFound, Missed, RejectParams,
                    RejectHeaders, RejectRate, GuardRefuses, AtGuard
<1>7. CASE Found \/ AcceptParams \/ AcceptHeaders \/ AcceptRate \/ SkipAuth \/ GuardsDone
             \/ AllowAny \/ NoBody
  BY <1>5, <1>7 DEF Found, AcceptParams, AcceptHeaders, AcceptRate, SkipAuth, GuardsDone,
                    AllowAny, AtGuard, NoBody
<1>8. CASE Authenticate \/ GuardHolds \/ ReadBody \/ RejectBody
  BY <1>3, <1>8 DEF Authenticate, GuardHolds, AtGuard, ReadBody, RejectBody
<1>9. CASE HandlerReturns \/ HandlerFails
  <2>1. UNCHANGED given /\ UNCHANGED cors /\ pc = "dispatch" /\ pc' = "cors"
    BY <1>9 DEF HandlerReturns, HandlerFails
  <2>2. marked' = marked \/ marked' = ("cors" \in Route.skip)
    BY <1>9 DEF HandlerReturns, HandlerFails
  <2>3. CASE marked' = marked
    BY <1>3, <2>1, <2>3
  <2>4. CASE marked' = ("cors" \in Route.skip)
    <3>1. ~marked' \/ "cors" \in Route.skip
      BY <2>4
    <3> QED
      BY <1>3, <2>1, <3>1
  <2> QED
    BY <2>2, <2>3, <2>4
<1> QED
  BY <1>1, <1>2, <1>6, <1>7, <1>8, <1>9 DEF Next

\* A response carries the CORS headers that its route's configuration, or else
\* the global one, grants its origin, and no others, whatever stage answered; a
\* route that skips CORS sends none, nor the marker; and the wildcard never
\* goes with credentials (CorsMiddlewareService::call).
THEOREM CorsIsRight == Spec => []CorsOnEveryStatus
<1>1. Init => CorsInv
  BY DEF Init, CorsInv, CorsOnEveryStatus, NoCors
<1>2. CorsInv => CorsOnEveryStatus
  BY DEF CorsInv
<1> QED
  BY <1>1, <1>2, SpecIInv, NextCorsInv, PTL DEF Spec
-----------------------------------------------------------------------------
(***************************************************************************)
(* Revoked tokens.  Any number of workers, tokens and requests, any kind   *)
(* of store, any lives and any default_ttl.                                *)
(*                                                                         *)
(* The entry of a revoked token may be replaced, may expire and may be     *)
(* deleted.  What is kept is that as long as the token is valid there is   *)
(* one that lasts as long as it does, and this needs that a token id       *)
(* belongs to one token, and that nothing is revoked before it is issued.  *)
(***************************************************************************)
Begun == [st : {"arrived", "running"}, worker : Workers, token : tokens, known : BOOLEAN, valid : BOOLEAN]

TokenTyped ==
  /\ now \in Nat
  /\ tokens \subseteq [jti : Jtis \cup {Tokens!NoJti}, exp : Nat]
  /\ \A e \in entries : e.until \in Nat
  /\ reqs \in [InFlight -> {Tokens!NoReq} \cup Begun]

OneTokenPerId == \A t, u \in tokens : t.jti = u.jti /\ t.jti # Tokens!NoJti => t = u

RevokedWereIssued == \A x \in ended : x.jti # Tokens!NoJti /\ \E t \in tokens : t.jti = x.jti

EntriesLast ==
  \A t \in tokens, w \in Workers :
    /\ [on |-> Tokens!On(w), jti |-> t.jti] \in ended
    /\ t.jti \notin shortened
    /\ now < t.exp
    => \E e \in entries : /\ e.on = Tokens!On(w) /\ e.jti = t.jti
                          /\ store = "memory" \/ e.until >= t.exp

KnownRequests ==
  \A r \in InFlight :
    /\ reqs[r].st # "none" /\ reqs[r].known =>
         [on |-> Tokens!On(reqs[r].worker), jti |-> reqs[r].token.jti] \in ended
    /\ reqs[r].st = "running" => reqs[r].token.jti # Tokens!NoJti

TokenInv ==
  /\ TokenTyped
  /\ OneTokenPerId
  /\ RevokedWereIssued
  /\ EntriesLast
  /\ KnownRequests
  /\ Tokens!RevokedStayRefused

\* What is known of a request in progress, at any state of the tokens.
LEMMA BegunTyped ==
  ASSUME TokenTyped, NEW r \in InFlight
  PROVE  /\ reqs[r] = Tokens!NoReq \/ reqs[r] \in Begun
         /\ reqs[r].st # "none" => reqs[r] \in Begun
  <1>1. reqs[r] \in {Tokens!NoReq} \cup Begun
    BY DEF TokenTyped
  <1>2. Tokens!NoReq.st = "none"
    BY DEF Tokens!NoReq
  <1> QED
    BY <1>1, <1>2

\* A token of an id that no other has, or of no id.
LEMMA IssueKeeps ==
  ASSUME TokenInv, NEW jti \in Jtis \cup {Tokens!NoJti}, NEW life \in Lives, Tokens!Issue(jti, now + life)
  PROVE  TokenInv'
  <1> DEFINE t0 == [jti |-> jti, exp |-> now + life]
  <1>1. /\ tokens' = tokens \cup {t0}
        /\ UNCHANGED <<now, store, entries, reqs, ended, shortened>>
        /\ jti = Tokens!NoJti \/ \A t \in tokens : t.jti # jti
    BY DEF Tokens!Issue
  <1>2. t0 \in [jti : Jtis \cup {Tokens!NoJti}, exp : Nat] /\ t0.jti = jti
    <2>1. now \in Nat /\ life \in Nat
      BY TokensAssumption DEF TokenInv, TokenTyped
    <2>2. now + life \in Nat
      BY <2>1
    <2> QED
      BY <2>2
  <1> HIDE DEF t0
  <1>3. TokenTyped'
    <2>1. Begun \subseteq Begun'
      BY <1>1 DEF Begun
    <2> QED
      BY <1>1, <1>2, <2>1 DEF TokenInv, TokenTyped
  <1>4. OneTokenPerId'
    BY <1>1, <1>2 DEF TokenInv, OneTokenPerId
  <1>5. RevokedWereIssued'
    BY <1>1 DEF TokenInv, RevokedWereIssued
  <1>6. \A w : Tokens!On(w)' = Tokens!On(w)
    BY <1>1 DEF Tokens!On
  <1>7. \A w : [on |-> Tokens!On(w), jti |-> t0.jti] \notin ended
    <2> SUFFICES ASSUME NEW w, [on |-> Tokens!On(w), jti |-> t0.jti] \in ended PROVE FALSE
      OBVIOUS
    <2>1. [on |-> Tokens!On(w), jti |-> t0.jti].jti = jti
      BY <1>2
    <2> QED
      BY <1>1, <2>1 DEF TokenInv, RevokedWereIssued
  <1>8. EntriesLast'
    BY <1>1, <1>6, <1>7 DEF TokenInv, EntriesLast
  <1>9. KnownRequests'
    BY <1>1, <1>6 DEF TokenInv, KnownRequests
  <1>10. Tokens!RevokedStayRefused'
    BY <1>1 DEF TokenInv, Tokens!RevokedStayRefused
  <1> QED
    BY <1>3, <1>4, <1>5, <1>8, <1>9, <1>10 DEF TokenInv

\* Steps of one request that leave the store alone.
LEMMA RequestKeeps ==
  ASSUME TokenInv, NEW r \in InFlight, NEW x \in {Tokens!NoReq} \cup Begun,
         reqs' = [reqs EXCEPT ![r] = x],
         UNCHANGED <<now, store, tokens, entries, ended, shortened>>,
         x.st # "none" /\ x.known => [on |-> Tokens!On(x.worker), jti |-> x.token.jti] \in ended,
         x.st = "running" => /\ x.token.jti # Tokens!NoJti
                             /\ ~(x.known /\ x.valid /\ x.token.jti \notin shortened)
  PROVE  TokenInv'
  <1>1. reqs' \in [InFlight -> {Tokens!NoReq} \cup Begun] /\ reqs'[r] = x
        /\ \A q \in InFlight : q # r => reqs'[q] = reqs[q]
    BY DEF TokenInv, TokenTyped
  <1>2. Begun' = Begun
    BY DEF Begun
  <1>3. TokenTyped'
    BY <1>1, <1>2 DEF TokenInv, TokenTyped
  <1>4. \A w : Tokens!On(w)' = Tokens!On(w)
    BY DEF Tokens!On
  <1>5. OneTokenPerId' /\ RevokedWereIssued' /\ EntriesLast'
    <2>1. OneTokenPerId'
      BY DEF TokenInv, OneTokenPerId
    <2>2. RevokedWereIssued'
      BY DEF TokenInv, RevokedWereIssued
    <2>3. EntriesLast'
      BY <1>4 DEF TokenInv, EntriesLast
    <2> QED
      BY <2>1, <2>2, <2>3
  <1>6. KnownRequests'
    BY <1>1, <1>4 DEF TokenInv, KnownRequests
  <1>7. Tokens!RevokedStayRefused'
    BY <1>1 DEF TokenInv, Tokens!RevokedStayRefused
  <1> QED
    BY <1>3, <1>5, <1>6, <1>7 DEF TokenInv

LEMMA ArriveKeeps ==
  ASSUME TokenInv, NEW r \in InFlight, NEW w \in Workers, NEW t \in tokens, Tokens!Arrive(r, w, t)
  PROVE  TokenInv'
  <1> DEFINE known == [on |-> Tokens!On(w), jti |-> t.jti] \in ended
             x == [st |-> "arrived", worker |-> w, token |-> t, known |-> known, valid |-> TRUE]
  <1>1. reqs' = [reqs EXCEPT ![r] = x] /\ UNCHANGED <<now, store, tokens, entries, ended, shortened>>
    BY DEF Tokens!Arrive
  <1>2. known \in BOOLEAN
    OBVIOUS
  <1>3. x \in Begun /\ x.st = "arrived" /\ x.worker = w /\ x.token = t /\ x.known = known
    <2> HIDE DEF known
    <2> QED
      BY <1>2 DEF Begun
  <1>4. x.known => [on |-> Tokens!On(x.worker), jti |-> x.token.jti] \in ended
    BY <1>3
  <1> HIDE DEF x, known
  <1> QED
    BY <1>1, <1>3, <1>4, RequestKeeps

\* The one step that lets a request through: if its token was revoked and is
\* still valid, its entry is found.
LEMMA CheckKeeps ==
  ASSUME TokenInv, NEW r \in InFlight, Tokens!CheckRevocation(r)
  PROVE  TokenInv'
  <1> DEFINE q == reqs[r]
             t == q.token
  <1>1. q.st = "arrived" /\ UNCHANGED <<now, store, tokens, entries, ended, shortened>>
    BY DEF Tokens!CheckRevocation
  <1>2. q \in Begun /\ t \in tokens /\ q.worker \in Workers /\ q.known \in BOOLEAN
    BY <1>1, BegunTyped DEF TokenInv, Begun, Tokens!NoReq
  <1>3. now \in Nat /\ t.exp \in Nat
    BY <1>2 DEF TokenInv, TokenTyped
  <1>4. CASE t.jti = Tokens!NoJti \/ Tokens!IsRevoked(q.worker, t.jti)
    <2>1. reqs' = [reqs EXCEPT ![r] = Tokens!NoReq]
      BY <1>4 DEF Tokens!CheckRevocation
    <2>2. Tokens!NoReq.st = "none"
      BY DEF Tokens!NoReq
    <2> QED
      BY <1>1, <2>1, <2>2, RequestKeeps
  <1>5. CASE ~(t.jti = Tokens!NoJti \/ Tokens!IsRevoked(q.worker, t.jti))
    <2> DEFINE x == [q EXCEPT !.st = "running", !.valid = now < t.exp]
    <2>1. reqs' = [reqs EXCEPT ![r] = x]
      BY <1>5 DEF Tokens!CheckRevocation
    <2>2. /\ x \in Begun /\ x.st = "running" /\ x.worker = q.worker /\ x.token = t /\ x.known = q.known
          /\ x.valid <=> now < t.exp
      <3>1. (now < t.exp) \in BOOLEAN
        BY <1>3
      <3> QED
        BY <1>2, <3>1 DEF Begun
    <2>3. q.known => [on |-> Tokens!On(q.worker), jti |-> t.jti] \in ended
      BY <1>1 DEF TokenInv, KnownRequests
    <2>4. ASSUME q.known, now < t.exp, t.jti \notin shortened PROVE FALSE
      <3>1. PICK e \in entries : /\ e.on = Tokens!On(q.worker) /\ e.jti = t.jti
                                 /\ store = "memory" \/ e.until >= t.exp
        BY <1>2, <2>3, <2>4 DEF TokenInv, EntriesLast
      <3>2. e.until \in Nat
        BY DEF TokenInv, TokenTyped
      <3>3. store = "cache" => e.until > now
        BY <1>3, <2>4, <3>1, <3>2
      <3> QED
        BY <1>5, <3>1, <3>3 DEF Tokens!IsRevoked
    <2> HIDE DEF x
    <2> QED
      BY <1>1, <1>5, <2>1, <2>2, <2>3, <2>4, RequestKeeps
  <1> QED
    BY <1>4, <1>5

LEMMA RespondKeeps ==
  ASSUME TokenInv, NEW r \in InFlight, Tokens!Respond(r)
  PROVE  TokenInv'
  <1>1. Tokens!NoReq.st = "none"
    BY DEF Tokens!NoReq
  <1>2. reqs' = [reqs EXCEPT ![r] = Tokens!NoReq] /\ UNCHANGED <<now, store, tokens, entries, ended, shortened>>
    BY DEF Tokens!Respond
  <1> QED
    BY <1>1, <1>2, RequestKeeps

\* The new entry lasts as long as the token, or is recorded as shortened.
LEMMA RevokeKeeps ==
  ASSUME TokenInv, NEW r \in InFlight, NEW withExp \in BOOLEAN, Tokens!Revoke(r, withExp)
  PROVE  TokenInv'
  <1> DEFINE w == reqs[r].worker
             t == reqs[r].token
             ttl == Tokens!TtlFor(withExp, t.exp)
             e0 == [on |-> Tokens!On(w), jti |-> t.jti, until |-> now + ttl]
  <1>1. /\ reqs[r].st = "running" /\ UNCHANGED <<now, store, tokens>>
        /\ reqs' = [reqs EXCEPT ![r] = Tokens!NoReq]
        /\ ended' = ended \cup {[on |-> Tokens!On(w), jti |-> t.jti]}
        /\ shortened' = IF ~withExp /\ store # "memory" /\ now + DefaultTtl < t.exp
                        THEN shortened \cup {t.jti} ELSE shortened
    BY DEF Tokens!Revoke
  <1>2. entries' = {e \in entries : e.on # Tokens!On(w) \/ e.jti # t.jti} \cup {e0}
    BY DEF Tokens!Revoke, Tokens!Stored
  <1>3. t \in tokens /\ w \in Workers
    BY <1>1, BegunTyped DEF TokenInv, Begun, Tokens!NoReq
  <1>4. now \in Nat /\ t.exp \in Nat /\ t.jti # Tokens!NoJti
    BY <1>1, <1>3 DEF TokenInv, TokenTyped, KnownRequests
  <1>5. /\ ttl \in Nat
        /\ now < t.exp /\ (withExp \/ now + DefaultTtl >= t.exp) => now + ttl >= t.exp
    <2>1. ttl = IF ~withExp THEN DefaultTtl ELSE IF t.exp > now THEN t.exp - now ELSE 0
      BY DEF Tokens!TtlFor
    <2>2. DefaultTtl \in Nat
      BY TokensAssumption
    <2> HIDE DEF ttl, t
    <2> QED
      BY <1>4, <2>1, <2>2
  <1> HIDE DEF ttl
  <1>6. e0.on = Tokens!On(w) /\ e0.jti = t.jti /\ e0.until = now + ttl /\ now + ttl \in Nat
    <2>1. now + ttl \in Nat
      BY <1>4, <1>5
    <2> QED
      BY <2>1
  <1> HIDE DEF e0
  <1>7. \A v : Tokens!On(v)' = Tokens!On(v)
    BY <1>1 DEF Tokens!On
  <1>8. Begun' = Begun
    BY <1>1 DEF Begun
  <1>9. /\ reqs' \in [InFlight -> {Tokens!NoReq} \cup Begun] /\ reqs'[r] = Tokens!NoReq
        /\ \A q \in InFlight : q # r => reqs'[q] = reqs[q]
    BY <1>1 DEF TokenInv, TokenTyped
  <1>10. TokenTyped'
    BY <1>1, <1>2, <1>6, <1>8, <1>9 DEF TokenInv, TokenTyped
  <1>11. OneTokenPerId' /\ RevokedWereIssued'
    <2>1. OneTokenPerId'
      BY <1>1 DEF TokenInv, OneTokenPerId
    <2>2. RevokedWereIssued'
      <3>1. [on |-> Tokens!On(w), jti |-> t.jti].jti = t.jti
        OBVIOUS
      <3> HIDE DEF t, w
      <3> QED
        BY <1>1, <1>3, <1>4, <3>1 DEF TokenInv, RevokedWereIssued
    <2> QED
      BY <2>1, <2>2
  <1>12. EntriesLast'
    <2> SUFFICES ASSUME NEW u \in tokens, NEW v \in Workers,
                        [on |-> Tokens!On(v), jti |-> u.jti] \in ended',
                        u.jti \notin shortened', now < u.exp
                 PROVE  \E e \in entries' : /\ e.on = Tokens!On(v) /\ e.jti = u.jti
                                            /\ store = "memory" \/ e.until >= u.exp
      BY <1>1, <1>7 DEF EntriesLast
    <2>1. CASE Tokens!On(v) = Tokens!On(w) /\ u.jti = t.jti
      <3>1. u = t
        BY <1>3, <1>4, <2>1 DEF TokenInv, OneTokenPerId
      <3>2. store = "memory" \/ withExp \/ now + DefaultTtl >= t.exp
        <4>1. ~(~withExp /\ store # "memory" /\ now + DefaultTtl < t.exp)
          BY <1>1, <3>1
        <4>2. now + DefaultTtl \in Nat
          BY <1>4, TokensAssumption
        <4> HIDE DEF t
        <4> QED
          BY <1>4, <4>1, <4>2
      <3>3. store = "memory" \/ e0.until >= u.exp
        BY <1>5, <1>6, <3>1, <3>2
      <3> QED
        BY <1>2, <1>6, <2>1, <3>3
    <2>2. CASE ~(Tokens!On(v) = Tokens!On(w) /\ u.jti = t.jti)
      <3>1. [on |-> Tokens!On(v), jti |-> u.jti] # [on |-> Tokens!On(w), jti |-> t.jti]
        BY <2>2
      <3>2. [on |-> Tokens!On(v), jti |-> u.jti] \in ended /\ u.jti \notin shortened
        BY <1>1, <3>1
      <3>3. PICK e \in entries : /\ e.on = Tokens!On(v) /\ e.jti = u.jti
                                 /\ store = "memory" \/ e.until >= u.exp
        BY <3>2 DEF TokenInv, EntriesLast
      <3>4. e \in entries'
        BY <1>2, <2>2, <3>3
      <3> QED
        BY <3>3, <3>4
    <2> QED
      BY <2>1, <2>2
  <1>13. Tokens!NoReq.st = "none"
    BY DEF Tokens!NoReq
  <1>14. KnownRequests'
    BY <1>1, <1>7, <1>9, <1>13 DEF TokenInv, KnownRequests
  <1>15. Tokens!RevokedStayRefused'
    <2>1. shortened \subseteq shortened'
      BY <1>1
    <2> QED
      BY <1>9, <1>13, <2>1 DEF TokenInv, Tokens!RevokedStayRefused
  <1> QED
    BY <1>10, <1>11, <1>12, <1>14, <1>15 DEF TokenInv

\* The cleanup takes no entry of a valid token, and time makes tokens expire.
LEMMA TimeKeeps ==
  ASSUME TokenInv, Tokens!Cleanup \/ Tokens!Tick
  PROVE  TokenInv'
  <1>1. /\ UNCHANGED <<store, tokens, reqs, ended, shortened>>
        /\ now' \in Nat /\ now' >= now /\ now \in Nat
        /\ entries' \subseteq entries
        /\ \A e \in entries : e.until >= now => e \in entries'
    <2>1. now \in Nat /\ \A e \in entries : e.until \in Nat
      BY DEF TokenInv, TokenTyped
    <2>2. CASE Tokens!Cleanup
      BY <2>1, <2>2 DEF Tokens!Cleanup
    <2>3. CASE Tokens!Tick
      BY <2>1, <2>3 DEF Tokens!Tick
    <2> QED
      BY <2>2, <2>3
  <1>2. store = "memory" => entries' = entries
    BY DEF Tokens!Cleanup, Tokens!Tick
  <1>3. \A w : Tokens!On(w)' = Tokens!On(w)
    BY <1>1 DEF Tokens!On
  <1>4. Begun' = Begun
    BY <1>1 DEF Begun
  <1>5. TokenTyped'
    BY <1>1, <1>4 DEF TokenInv, TokenTyped
  <1>6. OneTokenPerId' /\ RevokedWereIssued' /\ KnownRequests' /\ Tokens!RevokedStayRefused'
    BY <1>1, <1>3 DEF TokenInv, OneTokenPerId, RevokedWereIssued, KnownRequests, Tokens!RevokedStayRefused
  <1>7. EntriesLast'
    <2> SUFFICES ASSUME NEW t \in tokens, NEW w \in Workers,
                        [on |-> Tokens!On(w), jti |-> t.jti] \in ended,
                        t.jti \notin shortened, now' < t.exp
                 PROVE  \E e \in entries' : /\ e.on = Tokens!On(w) /\ e.jti = t.jti
                                            /\ store = "memory" \/ e.until >= t.exp
      BY <1>1, <1>3 DEF EntriesLast
    <2>1. t.exp \in Nat /\ now < t.exp
      <3>1. t.exp \in Nat
        BY DEF TokenInv, TokenTyped
      <3> QED
        BY <1>1, <3>1
    <2>2. PICK e \in entries : /\ e.on = Tokens!On(w) /\ e.jti = t.jti
                               /\ store = "memory" \/ e.until >= t.exp
      BY <2>1 DEF TokenInv, EntriesLast
    <2>3. e.until \in Nat
      BY DEF TokenInv, TokenTyped
    <2>4. e \in entries'
      BY <1>1, <1>2, <2>1, <2>2, <2>3
    <2> QED
      BY <2>2, <2>4
  <1> QED
    BY <1>5, <1>6, <1>7 DEF TokenInv

LEMMA TokenStep ==
  ASSUME TokenInv, Tokens!Next
  PROVE  TokenInv'
  <1>1. ASSUME NEW jti \in Jtis \cup {Tokens!NoJti}, NEW life \in Lives,
               Tokens!CreateJwtForUser(jti, life) \/ Tokens!TokenCreate(jti, life)
        PROVE  TokenInv'
    BY <1>1, IssueKeeps DEF Tokens!CreateJwtForUser, Tokens!TokenCreate
  <1> QED
    BY <1>1, ArriveKeeps, CheckKeeps, RevokeKeeps, RespondKeeps, TimeKeeps DEF Tokens!Next

LEMMA TokenStutters ==
  ASSUME TokenInv, UNCHANGED token
  PROVE  TokenInv'
  <1>1. \A w : Tokens!On(w)' = Tokens!On(w)
    BY DEF Tokens!On, token
  <1>2. Begun' = Begun
    BY DEF Begun, token
  <1>3. TokenTyped'
    BY <1>2 DEF TokenInv, TokenTyped, token
  <1> QED
    BY <1>1, <1>3 DEF TokenInv, OneTokenPerId, RevokedWereIssued, EntriesLast, KnownRequests, Tokens!RevokedStayRefused, token

\* In a store of any kind, the entry of a revoked token is there to be found for
\* as long as the token is valid: no handler runs for a token that was revoked
\* before its request arrived (_ttl_for, the stores, _check_revocation).
THEOREM RevokedStayOut == MCSpec => []RevokedRefused
  <1> DEFINE I == which = "token" => TokenInv
  <1>1. MCInit => I
    <2> SUFFICES ASSUME Tokens!Init PROVE TokenInv
      BY DEF MCInit
    <2>1. Tokens!NoReq.st = "none"
      BY DEF Tokens!NoReq
    <2> QED
      BY <2>1 DEF Tokens!Init, TokenInv, TokenTyped, OneTokenPerId, RevokedWereIssued, EntriesLast,
                  KnownRequests, Tokens!RevokedStayRefused
  <1>2. I /\ [MCNext]_<<which, vars, api, deps, token>> => I'
    <2> SUFFICES ASSUME I, [MCNext]_<<which, vars, api, deps, token>>, which' = "token" PROVE TokenInv'
      OBVIOUS
    <2>1. which = "token" /\ (Tokens!Next \/ UNCHANGED token)
      BY DEF MCNext
    <2> QED
      BY <2>1, TokenStep, TokenStutters
  <1>3. I => RevokedRefused
    BY DEF TokenInv, RevokedRefused
  <1> QED
    BY <1>1, <1>2, <1>3, PTL DEF MCSpec

-----------------------------------------------------------------------------
(***************************************************************************)
(* Dependencies: any functions and routes, registered in any order.        *)
(*                                                                         *)
(* Registration.  Of every dependency that was walked, what it needs has   *)
(* been collected, or everything has; and those of the handler that were   *)
(* not walked are still to come.  m is _handler_meta.                      *)
(***************************************************************************)
Listed(s) == {s[i] : i \in DOMAIN s}

Covered(m, f, parts) ==
  Deps!Components \subseteq parts \/ (f \in DOMAIN m /\ Deps!DepNeeds(f, m[f]) \subseteq parts)

\* A function keeps the metadata it was first compiled to.
MetasCompiled ==
  \A f \in DOMAIN metas : \E path : metas[f] = Deps!Compiled(Decl[f].params, path)

Walked ==
  /\ todo \in Seq(Fns)
  /\ \A f \in visited : Covered(metas, f, acc)
  /\ \A r \in reg : reg = {r} /\ r \in Routes
  /\ \A r \in reg : \A i \in Deps!DepIndices(r) :
       r.params[i].fn \in visited \cup Listed(todo) \/ Deps!Components \subseteq acc

HandlerSees(r, parts) ==
  (\E p \in Deps!ParamSet(r) : p.mark = "request") => Deps!Reads(r) \subseteq parts

Planned ==
  \A r \in DOMAIN plan :
    /\ \A i \in Deps!DepIndices(r) : Covered(metas, r.params[i].fn, plan[r])
    /\ HandlerSees(r, plan[r])

Marked == {"query", "header", "cookie", "request"}
Fed == \A x \in starved : x[2].mark \notin Marked

(***************************************************************************)
(* A request.  What each of its parameters has been given, and what the    *)
(* cache holds, is the value of a call made for it; and a dependency that  *)
(* is cached and resolved in order is called once, its value then being in *)
(* the cache.  Of says that a value is that of a call of f, m counting the *)
(* calls.                                                                  *)
(***************************************************************************)
Of(v, f, m) == v.fn = f /\ v.n \in 1..m[f]

Shaped(r) ==
  /\ r \in Routes /\ r \in DOMAIN plan /\ cur = {r}
  /\ DOMAIN task = DOMAIN r.params /\ DOMAIN result = DOMAIN r.params
  /\ made \in [Fns -> Nat]
  /\ DOMAIN dep_cache \subseteq Fns
  /\ idx \in Nat \ {0}

Values(r) ==
  /\ \A i \in Deps!DepIndices(r) : task[i] \in {"running", "done"} => Of(result[i], r.params[i].fn, made)
  /\ \A f \in DOMAIN dep_cache : Of(dep_cache[f], f, made)

InTurn(r, f) == Deps!Caching(r, f) /\ ~(Decl[f].is_async /\ Deps!CanParallel(r))
Once(r) ==
  \A f \in Fns : InTurn(r, f) => made[f] = 0 \/ (made[f] = 1 /\ f \in DOMAIN dep_cache)

Placed(r) ==
  /\ \A i \in DOMAIN task : task[i] \in {"new", "running", "done", "failed"}
  /\ \A i \in DOMAIN task : task[i] = "running" =>
       i \in Deps!AsyncIndices(r) /\ Deps!CanParallel(r) /\ stage \in {"gather", "failed"}
  /\ \A i \in DOMAIN task : task[i] = "failed" => stage = "failed"
  /\ stage = "gather" => idx = 1
  /\ stage \in {"loop", "ran"} => \A i \in Deps!DepIndices(r) : i < idx => task[i] = "done"
  /\ stage = "ran" => idx > Len(r.params)

Serves(r) == Shaped(r) /\ Values(r) /\ Once(r) /\ Placed(r)
Serving == stage # "idle" => \E r \in Routes : Serves(r)

DepsInv == MetasCompiled /\ Walked /\ Planned /\ Fed /\ Serving

-----------------------------------------------------------------------------
(* What registration collects is what a call looks for. *)

LEMMA ReadsComponents == \A f : Deps!Reads(f) \subseteq Deps!Components
  <1>1. \A a : Deps!AttrNeeds(a) \subseteq Deps!Components
    BY DEF Deps!AttrNeeds, Deps!Components
  <1> QED
    BY <1>1 DEF Deps!Reads

LEMMA AnalysedReads ==
  ASSUME NEW f, NEW params, NEW p \in params, p.mark = "request"
  PROVE  Deps!Reads(f) \subseteq Deps!AnalysedNeeds(f, params)
  <1>1. ~(\A q \in params : q.mark # "request")
    OBVIOUS
  <1> QED
    BY <1>1, ReadsComponents DEF Deps!AnalysedNeeds

LEMMA HandlerReads == \A r : HandlerSees(r, Deps!HandlerNeeds(r))
  <1> SUFFICES ASSUME NEW r, NEW p \in Deps!ParamSet(r), p.mark = "request"
               PROVE  Deps!Reads(r) \subseteq Deps!HandlerNeeds(r)
    BY DEF HandlerSees
  <1>1. Deps!Reads(r) \subseteq Deps!AnalysedNeeds(r, Deps!ParamSet(r))
    BY AnalysedReads
  <1> QED
    BY <1>1, ReadsComponents DEF Deps!HandlerNeeds

LEMMA MarkIsSource ==
  ASSUME NEW f, NEW path, NEW p \in Decl[f].params, p.mark \in Marked
  PROVE  Deps!Compiled(Decl[f].params, path)[p] = p.mark
  <1>1. p.mark # "bare"
    BY DEF Marked
  <1>2. Deps!Source(p, path) = p.mark
    BY <1>1 DEF Deps!Source
  <1> QED
    BY <1>2 DEF Deps!Compiled

\* A function whose needs are covered for a route lacks nothing it marks.
LEMMA NeedsMet ==
  ASSUME NEW r, NEW f, NEW path, NEW meta, meta = Deps!Compiled(Decl[f].params, path),
         Deps!Components \subseteq plan[r] \/ Deps!DepNeeds(f, meta) \subseteq plan[r]
  PROVE  \A p \in Deps!Lacking(r, f, meta) : p.mark \notin Marked
  <1> SUFFICES ASSUME NEW p \in Deps!Lacking(r, f, meta), p.mark \in Marked PROVE FALSE
    OBVIOUS
  <1>1. p \in DOMAIN meta /\ DOMAIN meta = Decl[f].params
    BY DEF Deps!Lacking, Deps!Compiled
  <1>2. meta[p] = p.mark
    BY <1>1, MarkIsSource
  <1>3. CASE p.mark = "request"
    <2>1. ~(Deps!Reads(Decl[f]) \subseteq plan[r])
      BY <1>3 DEF Deps!Lacking
    <2>2. Deps!Reads(Decl[f]) \subseteq Deps!AnalysedNeeds(Decl[f], DOMAIN meta)
      BY <1>1, <1>3, AnalysedReads
    <2> QED
      BY <2>1, <2>2, ReadsComponents DEF Deps!DepNeeds
  <1>4. CASE p.mark # "request"
    <2>1. ~Deps!Given(r, p, p.mark)
      BY <1>2, <1>4 DEF Deps!Lacking
    <2>2. ~Deps!RequestOnly(DOMAIN meta)
      BY <1>1, <1>4 DEF Deps!RequestOnly
    <2>3. ASSUME NEW c \in Deps!Components,
                 \/ c = "query" /\ meta[p] = "query"
                 \/ c = "headers" /\ meta[p] = "header"
                 \/ c = "cookies" /\ meta[p] = "cookie"
          PROVE  c \in plan[r]
      <3>1. c \in Deps!BinderNeeds(meta)
        BY <1>1, <2>2, <2>3 DEF Deps!BinderNeeds
      <3> QED
        BY <3>1 DEF Deps!DepNeeds
    <2>4. CASE p.mark = "query"
      <3>1. "query" \in plan[r]
        BY <1>2, <2>3, <2>4 DEF Deps!Components
      <3> QED
        BY <2>1, <2>4, <3>1 DEF Deps!Given, Deps!InQuery
    <2>5. CASE p.mark = "header"
      <3>1. "headers" \in plan[r]
        BY <1>2, <2>3, <2>5 DEF Deps!Components
      <3> QED
        BY <2>1, <2>5, <3>1 DEF Deps!Given
    <2>6. CASE p.mark = "cookie"
      <3>1. "cookies" \in plan[r]
        BY <1>2, <2>3, <2>6 DEF Deps!Components
      <3> QED
        BY <2>1, <2>6, <3>1 DEF Deps!Given
    <2> QED
      BY <1>4, <2>4, <2>5, <2>6 DEF Marked
  <1> QED
    BY <1>3, <1>4

-----------------------------------------------------------------------------
(* Registration. *)

LEMMA CoveredGrows ==
  ASSUME NEW m, NEW n, NEW f, NEW parts, NEW more, Covered(m, f, parts),
         parts \subseteq more, DOMAIN m \subseteq DOMAIN n, \A g \in DOMAIN m : n[g] = m[g]
  PROVE  Covered(n, f, more)
  BY DEF Covered

LEMMA ListedSplits ==
  ASSUME NEW S, NEW s \in Seq(S), s # <<>>
  PROVE  Head(s) \in S /\ Tail(s) \in Seq(S) /\ Listed(s) \subseteq {Head(s)} \cup Listed(Tail(s))
  <1>1. Head(s) = s[1] /\ Head(s) \in S /\ Tail(s) \in Seq(S) /\ Len(Tail(s)) = Len(s) - 1
    BY HeadTailProperties
  <1>2. ASSUME NEW i \in DOMAIN s, i # 1 PROVE s[i] \in Listed(Tail(s))
    <2>1. Len(s) \in Nat /\ i \in 2..Len(s)
      BY <1>2
    <2>2. i - 1 \in DOMAIN Tail(s) /\ Tail(s)[i - 1] = s[i]
      BY <1>1, <2>1
    <2> QED
      BY <2>2 DEF Listed
  <1> QED
    BY <1>1, <1>2 DEF Listed

LEMMA ListedJoined ==
  ASSUME NEW S, NEW s \in Seq(S), NEW t \in Seq(S)
  PROVE  s \o t \in Seq(S) /\ Listed(t) \subseteq Listed(s \o t)
  <1>1. s \o t \in Seq(S) /\ Len(s \o t) = Len(s) + Len(t)
    BY ConcatProperties
  <1>2. ASSUME NEW i \in DOMAIN t PROVE t[i] \in Listed(s \o t)
    <2>1. Len(s) \in Nat /\ Len(t) \in Nat /\ i \in 1..Len(t)
      OBVIOUS
    <2>2. Len(s) + i \in DOMAIN (s \o t) /\ (s \o t)[Len(s) + i] = t[i]
      <3>1. Len(s) + i \in 1..Len(s \o t)
        BY <1>1, <2>1
      <3> QED
        BY <1>1, <2>1, <3>1, ConcatProperties
    <2> QED
      BY <2>2 DEF Listed
  <1> QED
    BY <1>1, <1>2 DEF Listed

LEMMA CardinalityOf ==
  ASSUME NEW S, IsFiniteSet(S)
  PROVE  Deps!Cardinality(S) \in Nat
  <1>1. Deps!Cardinality(S) = Cardinality(S)
    BY Zenon DEF Deps!Cardinality, Cardinality
  <1> QED
    BY <1>1, FS_CardinalityType

LEMMA RequestRests ==
  ASSUME Fed, Serving, UNCHANGED Deps!reqVars, DOMAIN plan \subseteq DOMAIN plan'
  PROVE  Fed' /\ Serving'
  <1>1. UNCHANGED <<cur, stage, idx, task, result, dep_cache, made, starved>>
    BY DEF Deps!reqVars
  <1>2. Fed'
    BY <1>1 DEF Fed
  <1>3. ASSUME NEW r \in Routes, Serves(r) PROVE Serves(r)'
    <2>1. Shaped(r)'
      BY <1>1, <1>3 DEF Serves, Shaped
    <2>2. Values(r)' /\ Once(r)'
      BY <1>1, <1>3 DEF Serves, Values, Once
    <2>3. Placed(r)'
      BY <1>1, <1>3 DEF Serves, Placed
    <2> QED
      BY <2>1, <2>2, <2>3 DEF Serves
  <1> QED
    BY <1>1, <1>2, <1>3 DEF Serving

LEMMA BeginRouteKeeps ==
  ASSUME DepsInv, NEW r \in Routes, Deps!BeginRoute(r)
  PROVE  DepsInv'
  <1>1. /\ reg' = {r} /\ visited' = {} /\ acc' = {}
        /\ UNCHANGED <<metas, plan, Deps!reqVars>>
    BY DEF Deps!BeginRoute
  <1>2. PICK s \in [1..Deps!Cardinality(Deps!DepIndices(r)) -> Deps!DepIndices(r)] :
          Deps!InOrder(s, r) /\ todo' = [i \in DOMAIN s |-> r.params[s[i]].fn]
    BY Zenon DEF Deps!BeginRoute
  <1>3. Len(r.params) \in Nat /\ DOMAIN r.params = 1..Len(r.params)
    BY DependenciesAssumption
  <1>4. Deps!Cardinality(Deps!DepIndices(r)) \in Nat
    <2>1. IsFiniteSet(1..Len(r.params))
      <3>1. 1 \in Int /\ Len(r.params) \in Int
        BY <1>3
      <3> QED
        BY <3>1, FS_Interval
    <2>2. IsFiniteSet(Deps!DepIndices(r))
      BY <1>3, <2>1, FS_Subset DEF Deps!DepIndices
    <2> QED
      BY <2>2, CardinalityOf
  <1>5. \A i \in Deps!DepIndices(r) : r.params[i].fn \in Fns
    BY DependenciesAssumption DEF Deps!DepIndices
  <1> DEFINE N == Deps!Cardinality(Deps!DepIndices(r))
  <1>6. todo' \in Seq(Fns)
    <2>1. DOMAIN s = 1..N /\ \A i \in 1..N : s[i] \in Deps!DepIndices(r)
      BY <1>2
    <2>2. todo' \in [1..N -> Fns]
      BY <1>2, <1>5, <2>1
    <2> QED
      BY <1>4, <2>2
  <1>7. \A i \in Deps!DepIndices(r) : r.params[i].fn \in Listed(todo')
    <2> SUFFICES ASSUME NEW i \in Deps!DepIndices(r) PROVE r.params[i].fn \in Listed(todo')
      OBVIOUS
    <2>1. PICK k \in DOMAIN s : s[k] = i
      BY <1>2 DEF Deps!InOrder
    <2>2. k \in DOMAIN todo' /\ todo'[k] = r.params[i].fn
      BY <1>2, <2>1
    <2> QED
      BY <2>2 DEF Listed
  <1>8. Walked'
    BY <1>1, <1>6, <1>7 DEF Walked
  <1>9. MetasCompiled' /\ Planned'
    BY <1>1 DEF DepsInv, MetasCompiled, Planned
  <1>10. Fed' /\ Serving'
    BY <1>1, RequestRests DEF DepsInv
  <1> QED
    BY <1>8, <1>9, <1>10 DEF DepsInv

LEMMA WalkKnownKeeps ==
  ASSUME DepsInv, Deps!WalkKnown
  PROVE  DepsInv'
  <1>1. /\ todo # <<>> /\ Head(todo) \in visited /\ todo' = Tail(todo)
        /\ UNCHANGED <<metas, plan, reg, visited, acc, Deps!reqVars>>
    BY DEF Deps!WalkKnown
  <1>2. todo' \in Seq(Fns) /\ Listed(todo) \subseteq {Head(todo)} \cup Listed(todo')
    BY <1>1, ListedSplits DEF DepsInv, Walked
  <1>3. Walked'
    <2>1. \A r \in reg : \A i \in Deps!DepIndices(r) :
            r.params[i].fn \in visited \cup Listed(todo') \/ Deps!Components \subseteq acc
      BY <1>1, <1>2 DEF DepsInv, Walked
    <2> QED
      BY <1>1, <1>2, <2>1 DEF DepsInv, Walked
  <1>4. MetasCompiled' /\ Planned'
    BY <1>1 DEF DepsInv, MetasCompiled, Planned
  <1> QED
    BY <1>1, <1>3, <1>4, RequestRests DEF DepsInv

LEMMA WalkRaisesKeeps ==
  ASSUME DepsInv, Deps!WalkRaises
  PROVE  DepsInv'
  <1>1. acc' = Deps!Components /\ UNCHANGED <<metas, plan, reg, todo, Deps!reqVars>>
    BY DEF Deps!WalkRaises
  <1>2. \A f : Covered(metas, f, Deps!Components)
    BY DEF Covered
  <1>3. Walked'
    BY <1>1, <1>2 DEF DepsInv, Walked
  <1>4. MetasCompiled' /\ Planned'
    BY <1>1 DEF DepsInv, MetasCompiled, Planned
  <1> QED
    BY <1>1, <1>3, <1>4, RequestRests DEF DepsInv

\* Metadata is only added, and each to the function it was compiled for.
LEMMA MetasGrow ==
  ASSUME MetasCompiled, Planned, UNCHANGED plan, NEW f, NEW meta, NEW path,
         f \in DOMAIN metas => meta = metas[f],
         f \notin DOMAIN metas => meta = Deps!Compiled(Decl[f].params, path),
         DOMAIN metas' = DOMAIN metas \cup {f}, metas'[f] = meta,
         \A g \in DOMAIN metas : metas'[g] = metas[g]
  PROVE  MetasCompiled' /\ Planned'
  <1>1. MetasCompiled'
    BY DEF MetasCompiled
  <1>2. \A g, parts : Covered(metas, g, parts) => Covered(metas', g, parts)
    BY CoveredGrows
  <1> QED
    BY <1>1, <1>2 DEF Planned

LEMMA WalkKeeps ==
  ASSUME DepsInv, Deps!Walk
  PROVE  DepsInv'
  <1> DEFINE f == Head(todo)
  <1>1. PICK r \in reg :
          LET meta == IF f \in DOMAIN metas THEN metas[f] ELSE Deps!Compiled(Decl[f].params, r.path_params)
              subs == Deps!DepsOf(DOMAIN meta)
          IN /\ todo # <<>>
             /\ metas' = [g \in DOMAIN metas \cup {f} |-> IF g = f THEN meta ELSE metas[g]]
             /\ visited' = visited \cup {f}
             /\ acc' = acc \cup Deps!DepNeeds(f, meta)
             /\ \E s \in [1..Deps!Cardinality(subs) -> subs] : todo' = s \o Tail(todo)
             /\ UNCHANGED <<plan, reg, Deps!reqVars>>
    BY Zenon DEF Deps!Walk
  <1> DEFINE meta == IF f \in DOMAIN metas THEN metas[f] ELSE Deps!Compiled(Decl[f].params, r.path_params)
             subs == Deps!DepsOf(DOMAIN meta)
  <1>2. PICK s \in [1..Deps!Cardinality(subs) -> subs] : todo' = s \o Tail(todo)
    BY <1>1
  <1>3. f \in Fns /\ Tail(todo) \in Seq(Fns) /\ Listed(todo) \subseteq {f} \cup Listed(Tail(todo))
    BY <1>1, ListedSplits DEF DepsInv, Walked
  <1>4. DOMAIN meta = Decl[f].params
    <2>1. \A path : DOMAIN Deps!Compiled(Decl[f].params, path) = Decl[f].params
      BY DEF Deps!Compiled
    <2> QED
      BY <2>1 DEF DepsInv, MetasCompiled
  <1>5. s \in Seq(Fns)
    <2>1. subs \subseteq Fns
      BY <1>3, <1>4, DependenciesAssumption DEF Deps!DepsOf
    <2>2. IsFiniteSet(Decl[f].params)
      BY <1>3, DependenciesAssumption
    <2>3. IsFiniteSet({q \in Decl[f].params : q.mark = "depends"})
      BY <2>2, FS_Subset
    <2>4. IsFiniteSet(subs)
      <3> DEFINE D == {q \in Decl[f].params : q.mark = "depends"}
      <3>1. IsFiniteSet({p.fn : p \in D})
        <4> DEFINE g == [p \in D |-> p.fn]
        <4>1. g \in Surjection(D, {p.fn : p \in D})
          BY DEF Surjection
        <4> QED
          BY <2>3, <4>1, FS_Surjection
      <3> QED
        BY <1>4, <3>1 DEF Deps!DepsOf
    <2>5. Deps!Cardinality(subs) \in Nat
      BY <2>4, CardinalityOf
    <2> HIDE DEF subs
    <2> QED
      BY <2>1, <2>5
  <1>6. todo' \in Seq(Fns) /\ Listed(Tail(todo)) \subseteq Listed(todo')
    BY <1>2, <1>3, <1>5, ListedJoined
  <1> HIDE DEF subs
  <1>7. /\ DOMAIN metas' = DOMAIN metas \cup {f} /\ metas'[f] = meta
        /\ \A g \in DOMAIN metas : metas'[g] = metas[g]
    BY <1>1
  <1>8. /\ f \in DOMAIN metas => meta = metas[f]
        /\ f \notin DOMAIN metas => meta = Deps!Compiled(Decl[f].params, r.path_params)
    OBVIOUS
  <1>9. /\ visited' = visited \cup {f} /\ acc' = acc \cup Deps!DepNeeds(f, meta)
        /\ UNCHANGED <<plan, reg, Deps!reqVars>>
    BY <1>1
  <1> HIDE DEF meta
  <1>10. MetasCompiled' /\ Planned'
    BY <1>7, <1>8, <1>9, MetasGrow DEF DepsInv
  <1>11. Walked'
    <2>1. \A g \in visited : Covered(metas', g, acc')
      BY <1>7, <1>9, CoveredGrows DEF DepsInv, Walked
    <2>2. Covered(metas', f, acc')
      BY <1>7, <1>9 DEF Covered
    <2>3. ASSUME NEW x \in reg, NEW i \in Deps!DepIndices(x)
          PROVE  x.params[i].fn \in visited' \cup Listed(todo') \/ Deps!Components \subseteq acc'
      <3>1. x.params[i].fn \in visited \cup Listed(todo) \/ Deps!Components \subseteq acc
        BY DEF DepsInv, Walked
      <3> HIDE DEF f
      <3> QED
        BY <1>3, <1>6, <1>9, <3>1
    <2> HIDE DEF f
    <2> QED
      BY <1>6, <1>9, <2>1, <2>2, <2>3 DEF DepsInv, Walked
  <1> QED
    BY <1>9, <1>10, <1>11, RequestRests DEF DepsInv

LEMMA EndRouteKeeps ==
  ASSUME DepsInv, Deps!EndRoute
  PROVE  DepsInv'
  <1>1. PICK r \in reg :
          /\ todo = <<>> \/ Deps!Saturated
          /\ plan' = [x \in DOMAIN plan \cup {r} |-> IF x = r THEN Deps!HandlerNeeds(r) \cup acc ELSE plan[x]]
          /\ reg' = {} /\ todo' = <<>>
          /\ UNCHANGED <<metas, visited, acc, Deps!reqVars>>
    BY DEF Deps!EndRoute
  <1>2. \A f \in visited : Covered(metas, f, acc)
    BY DEF DepsInv, Walked
  <1>3. \A i \in Deps!DepIndices(r) : Covered(metas, r.params[i].fn, Deps!HandlerNeeds(r) \cup acc)
    <2> SUFFICES ASSUME NEW i \in Deps!DepIndices(r)
                 PROVE  Covered(metas, r.params[i].fn, Deps!HandlerNeeds(r) \cup acc)
      OBVIOUS
    <2>1. \/ r.params[i].fn \in visited \/ Deps!Components \subseteq acc
          \/ todo = <<>> /\ r.params[i].fn \in Listed(todo)
      BY <1>1 DEF DepsInv, Walked, Deps!Saturated
    <2>2. todo = <<>> => Listed(todo) = {}
      BY DEF Listed
    <2>3. Covered(metas, r.params[i].fn, acc)
      BY <1>2, <2>1, <2>2 DEF Covered
    <2> QED
      BY <2>3, CoveredGrows
  <1>4. HandlerSees(r, Deps!HandlerNeeds(r) \cup acc)
    BY HandlerReads DEF HandlerSees
  <1>5. Planned'
    <2> SUFFICES ASSUME NEW x \in DOMAIN plan'
                 PROVE  /\ \A i \in Deps!DepIndices(x) : Covered(metas, x.params[i].fn, plan'[x])
                        /\ HandlerSees(x, plan'[x])
      BY <1>1 DEF Planned
    <2>1. CASE x = r
      <3>1. plan'[x] = Deps!HandlerNeeds(r) \cup acc
        BY <1>1, <2>1
      <3> QED
        BY <1>3, <1>4, <2>1, <3>1
    <2>2. CASE x # r
      <3>1. x \in DOMAIN plan /\ plan'[x] = plan[x]
        BY <1>1, <2>2
      <3> QED
        BY <3>1 DEF DepsInv, Planned
    <2> QED
      BY <2>1, <2>2
  <1>6. Walked'
    BY <1>1 DEF DepsInv, Walked
  <1>7. MetasCompiled'
    BY <1>1 DEF DepsInv, MetasCompiled
  <1> QED
    BY <1>1, <1>5, <1>6, <1>7, RequestRests DEF DepsInv

-----------------------------------------------------------------------------
(* A request. *)

LEMMA HandlerIs ==
  ASSUME NEW r, cur = {r}
  PROVE  Deps!Handler = r /\ Deps!Params = r.params
  <1>1. Deps!Handler = r
    BY DEF Deps!Handler
  <1> QED
    BY <1>1 DEF Deps!Params

LEMMA DependsOnFn ==
  ASSUME NEW r \in Routes, NEW i \in Deps!DepIndices(r)
  PROVE  i \in DOMAIN r.params /\ i \in Nat \ {0} /\ r.params[i].fn \in Fns
  BY DependenciesAssumption DEF Deps!DepIndices

LEMMA RoutesRest ==
  ASSUME DepsInv, UNCHANGED metas, UNCHANGED Deps!regVars
  PROVE  MetasCompiled' /\ Walked' /\ Planned'
  <1>1. UNCHANGED <<plan, reg, todo, visited, acc>>
    BY DEF Deps!regVars
  <1>2. Walked'
    BY <1>1 DEF DepsInv, Walked
  <1>3. MetasCompiled' /\ Planned'
    BY <1>1 DEF DepsInv, MetasCompiled, Planned
  <1> QED
    BY <1>2, <1>3

\* A call finds what its function marks, and compiles it if it must.
LEMMA CallKeeps ==
  ASSUME DepsInv, NEW r \in Routes, Shaped(r), NEW i \in Deps!DepIndices(r),
         Deps!Call(i), UNCHANGED Deps!regVars
  PROVE  MetasCompiled' /\ Walked' /\ Planned' /\ Fed'
  <1> DEFINE f == r.params[i].fn
             meta == Deps!MetaOf(f)
  <1>1. UNCHANGED <<plan, reg, todo, visited, acc>>
    BY DEF Deps!regVars
  <1>2. Deps!Handler = r /\ Deps!Params[i].fn = f
    BY HandlerIs DEF Shaped
  <1>3. /\ metas' = [g \in DOMAIN metas \cup {f} |-> Deps!MetaOf(g)]
        /\ starved' = starved \cup {<<f, p>> : p \in Deps!Lacking(r, f, meta)}
    BY <1>2 DEF Deps!Call
  <1>4. /\ f \in DOMAIN metas => meta = metas[f]
        /\ f \notin DOMAIN metas => meta = Deps!Compiled(Decl[f].params, {})
    BY DEF Deps!MetaOf
  <1>5. \A g \in DOMAIN metas : Deps!MetaOf(g) = metas[g]
    BY DEF Deps!MetaOf
  <1> HIDE DEF f
  <1>6. /\ DOMAIN metas' = DOMAIN metas \cup {f} /\ metas'[f] = meta
        /\ \A g \in DOMAIN metas : metas'[g] = metas[g]
    BY <1>3, <1>5
  <1> HIDE DEF meta
  <1>7. MetasCompiled' /\ Planned'
    BY <1>1, <1>4, <1>6, MetasGrow DEF DepsInv
  <1>8. Walked'
    <2>1. \A g \in visited : Covered(metas', g, acc)
      BY <1>6, CoveredGrows DEF DepsInv, Walked
    <2> QED
      BY <1>1, <2>1 DEF DepsInv, Walked
  <1>9. \E path : meta = Deps!Compiled(Decl[f].params, path)
    BY <1>4 DEF DepsInv, MetasCompiled
  <1>10. Deps!Components \subseteq plan[r] \/ Deps!DepNeeds(f, meta) \subseteq plan[r]
    <2>1. Covered(metas, f, plan[r])
      BY DEF DepsInv, Planned, Shaped, f
    <2> QED
      BY <1>4, <2>1 DEF Covered
  <1>11. \A p \in Deps!Lacking(r, f, meta) : p.mark \notin Marked
    BY <1>9, <1>10, NeedsMet
  <1>12. Fed'
    <2> SUFFICES ASSUME NEW x \in starved' PROVE x[2].mark \notin Marked
      BY DEF Fed
    <2>1. CASE x \in starved
      BY <2>1 DEF DepsInv, Fed
    <2>2. CASE x \notin starved
      <3>1. PICK p \in Deps!Lacking(r, f, meta) : x = <<f, p>>
        BY <1>3, <2>2
      <3>2. x[2] = p
        BY <3>1
      <3> QED
        BY <1>11, <3>2
    <2> QED
      BY <2>1, <2>2
  <1> QED
    BY <1>7, <1>8, <1>12

LEMMA OfGrows ==
  ASSUME NEW m \in [Fns -> Nat], NEW n \in [Fns -> Nat], NEW f \in Fns, m[f] <= n[f],
         NEW v, Of(v, f, m)
  PROVE  Of(v, f, n)
  <1>1. m[f] \in Nat /\ n[f] \in Nat
    OBVIOUS
  <1> QED
    BY <1>1 DEF Of

LEMMA CallCounts ==
  ASSUME NEW r \in Routes, Shaped(r), NEW i \in Deps!DepIndices(r), Deps!Call(i)
  PROVE  LET f == r.params[i].fn
             v == [fn |-> f, n |-> made[f] + 1]
         IN /\ f \in Fns /\ made[f] \in Nat /\ made' \in [Fns -> Nat]
            /\ made'[f] = made[f] + 1 /\ \A g \in Fns : g # f => made'[g] = made[g]
            /\ DOMAIN result' = DOMAIN result /\ result'[i] = v
            /\ \A j \in DOMAIN result : j # i => result'[j] = result[j]
            /\ Of(v, f, made')
            /\ \A g \in Fns : \A w : Of(w, g, made) => Of(w, g, made')
  <1> DEFINE f == r.params[i].fn
             v == [fn |-> f, n |-> made[f] + 1]
  <1>1. Deps!Params[i].fn = f
    BY HandlerIs DEF Shaped
  <1>2. made' = [made EXCEPT ![f] = made[f] + 1] /\ result' = [result EXCEPT ![i] = v]
    BY <1>1 DEF Deps!Call
  <1>3. f \in Fns /\ made \in [Fns -> Nat] /\ made[f] \in Nat /\ i \in DOMAIN result
    BY DependsOnFn DEF Shaped
  <1> HIDE DEF f
  <1>4. /\ made' \in [Fns -> Nat] /\ made'[f] = made[f] + 1
        /\ \A g \in Fns : g # f => made'[g] = made[g]
    BY <1>2, <1>3
  <1>5. Of(v, f, made')
    BY <1>3, <1>4 DEF Of
  <1>6. ASSUME NEW g \in Fns, NEW w, Of(w, g, made) PROVE Of(w, g, made')
    <2>1. made[g] <= made'[g]
      <3>1. made[g] \in Nat
        BY <1>3
      <3> QED
        BY <1>3, <1>4, <3>1
    <2> QED
      BY <1>3, <1>4, <1>6, <2>1, OfGrows
  <1>7. /\ DOMAIN result' = DOMAIN result /\ result'[i] = v
        /\ \A j \in DOMAIN result : j # i => result'[j] = result[j]
    BY <1>2, <1>3
  <1> QED
    BY <1>3, <1>4, <1>5, <1>6, <1>7 DEF f

\* The cache keeps values of calls.
LEMMA Remembered ==
  ASSUME NEW r \in Routes, NEW i \in Deps!DepIndices(r), NEW m, NEW v, Of(v, r.params[i].fn, m),
         DOMAIN dep_cache \subseteq Fns, \A g \in DOMAIN dep_cache : Of(dep_cache[g], g, m),
         NEW c, c = Deps!Remember(r.params[i], v)
  PROVE  /\ DOMAIN c \subseteq Fns /\ DOMAIN dep_cache \subseteq DOMAIN c
         /\ \A g \in DOMAIN c : Of(c[g], g, m)
         /\ r.params[i].use_cache => r.params[i].fn \in DOMAIN c
  <1> DEFINE p == r.params[i]
  <1>1. p.fn \in Fns
    BY DependsOnFn
  <1> HIDE DEF p
  <1>2. CASE p.use_cache
    <2>1. c = [g \in DOMAIN dep_cache \cup {p.fn} |-> IF g = p.fn THEN v ELSE dep_cache[g]]
      BY <1>2 DEF Deps!Remember, p
    <2>2. DOMAIN c = DOMAIN dep_cache \cup {p.fn} /\ c[p.fn] = v
          /\ \A g \in DOMAIN dep_cache : g # p.fn => c[g] = dep_cache[g]
      BY <2>1
    <2>3. \A g \in DOMAIN c : Of(c[g], g, m)
      BY <2>2 DEF p
    <2> QED
      BY <1>1, <2>2, <2>3 DEF p
  <1>3. CASE ~p.use_cache
    <2>1. c = dep_cache
      BY <1>3 DEF Deps!Remember, p
    <2> QED
      BY <1>3, <2>1 DEF p
  <1> QED
    BY <1>2, <1>3

\* What a step has to show that settles parameter i, or leaves it running.
LEMMA ParamStep ==
  ASSUME NEW r \in Routes, Serves(r), NEW i \in Deps!DepIndices(r), NEW st,
         task' = [task EXCEPT ![i] = st], st \in {"running", "done", "failed"},
         UNCHANGED <<plan, cur, idx>>,
         DOMAIN result' = DOMAIN result,
         \A j \in DOMAIN result : j # i => result'[j] = result[j],
         made' \in [Fns -> Nat],
         \A g \in Fns : \A w : Of(w, g, made) => Of(w, g, made'),
         st # "failed" => Of(result'[i], r.params[i].fn, made'),
         DOMAIN dep_cache' \subseteq Fns, \A g \in DOMAIN dep_cache' : Of(dep_cache'[g], g, made'),
         Once(r)',
         st = "running" => i \in Deps!AsyncIndices(r) /\ Deps!CanParallel(r) /\ stage \in {"gather", "failed"},
         stage' = IF st = "failed" THEN "failed" ELSE stage
  PROVE  Serves(r)'
  <1>1. i \in DOMAIN r.params
    BY DependsOnFn
  <1>2. DOMAIN task = DOMAIN r.params
    BY DEF Serves, Shaped
  <1>3. DOMAIN task' = DOMAIN task /\ task'[i] = st /\ \A j \in DOMAIN task : j # i => task'[j] = task[j]
    BY <1>1, <1>2
  <1>4. Shaped(r)'
    BY <1>3 DEF Serves, Shaped
  <1>5. Values(r)'
    <2> SUFFICES ASSUME NEW j \in Deps!DepIndices(r), task'[j] \in {"running", "done"}
                 PROVE  Of(result'[j], r.params[j].fn, made')
      BY DEF Values
    <2>1. CASE j = i
      BY <1>3, <2>1
    <2>2. CASE j # i
      <3>1. j \in DOMAIN r.params /\ r.params[j].fn \in Fns
        BY DependsOnFn
      <3>2. Of(result[j], r.params[j].fn, made) /\ result'[j] = result[j]
        BY <1>2, <1>3, <2>2, <3>1 DEF Serves, Values, Shaped
      <3> QED
        BY <3>1, <3>2
    <2> QED
      BY <2>1, <2>2
  <1>6. Placed(r)'
    <2>1. Placed(r)
      BY DEF Serves
    <2>2. \A j \in DOMAIN task' : task'[j] \in {"new", "running", "done", "failed"}
      BY <1>3, <2>1 DEF Placed
    <2>3. \A j \in DOMAIN task' : task'[j] = "running" =>
             j \in Deps!AsyncIndices(r) /\ Deps!CanParallel(r) /\ stage' \in {"gather", "failed"}
      BY <1>3, <2>1 DEF Placed
    <2>4. \A j \in DOMAIN task' : task'[j] = "failed" => stage' = "failed"
      BY <1>3, <2>1 DEF Placed
    <2>5. stage' \in {"loop", "ran"} => \A j \in Deps!DepIndices(r) : j < idx' => task'[j] = "done"
      <3> SUFFICES ASSUME stage' \in {"loop", "ran"}, NEW j \in Deps!DepIndices(r), j < idx
                   PROVE  task'[j] = "done"
        OBVIOUS
      <3>1. stage' = stage /\ st = "done"
        OBVIOUS
      <3>2. j \in DOMAIN task
        BY <1>2, DependsOnFn
      <3> QED
        BY <1>3, <2>1, <3>1, <3>2 DEF Placed
    <2>6. (stage' = "gather" => idx' = 1) /\ (stage' = "ran" => idx' > Len(r.params))
      BY <2>1 DEF Placed
    <2> QED
      BY <2>2, <2>3, <2>4, <2>5, <2>6 DEF Placed
  <1> QED
    BY <1>4, <1>5, <1>6 DEF Serves

LEMMA OnceKept ==
  ASSUME NEW r, Once(r), UNCHANGED made, DOMAIN dep_cache \subseteq DOMAIN dep_cache'
  PROVE  Once(r)'
  BY DEF Once

\* A function resolved in its turn is called only if it never was: a value it
\* had returned would be in the cache.
LEMMA OnceCalled ==
  ASSUME NEW r \in Routes, Once(r), NEW i \in Deps!DepIndices(r), ~Deps!Cached(r.params[i]),
         made[r.params[i].fn] \in Nat, made'[r.params[i].fn] = made[r.params[i].fn] + 1,
         \A g \in Fns : g # r.params[i].fn => made'[g] = made[g],
         DOMAIN dep_cache \subseteq DOMAIN dep_cache',
         InTurn(r, r.params[i].fn) => r.params[i].fn \in DOMAIN dep_cache'
  PROVE  Once(r)'
  <1> SUFFICES ASSUME NEW g \in Fns, InTurn(r, g)
               PROVE  made'[g] = 0 \/ (made'[g] = 1 /\ g \in DOMAIN dep_cache')
    BY DEF Once
  <1>1. made[g] = 0 \/ (made[g] = 1 /\ g \in DOMAIN dep_cache)
    BY DEF Once
  <1>2. CASE g = r.params[i].fn
    <2>1. r.params[i].use_cache
      BY <1>2 DEF InTurn, Deps!Caching, Deps!UsesOf
    <2>2. g \notin DOMAIN dep_cache
      BY <1>2, <2>1 DEF Deps!Cached
    <2>3. made[g] = 0
      BY <1>1, <2>2
    <2>4. made'[g] = 1
      BY <1>2, <2>3
    <2> QED
      BY <1>2, <2>4
  <1>3. CASE g # r.params[i].fn
    BY <1>1, <1>3
  <1> QED
    BY <1>2, <1>3

\* A function that is called, and returns at once.
LEMMA CallReturns ==
  ASSUME NEW r \in Routes, Serves(r), NEW i \in Deps!DepIndices(r),
         ~Deps!Cached(r.params[i]), Deps!Call(i), task' = [task EXCEPT ![i] = "done"],
         dep_cache' = Deps!Remember(r.params[i], [fn |-> r.params[i].fn, n |-> made[r.params[i].fn] + 1]),
         UNCHANGED <<plan, cur, idx, stage>>
  PROVE  Serves(r)'
  <1> DEFINE f == r.params[i].fn
             v == [fn |-> f, n |-> made[f] + 1]
  <1>1. Shaped(r) /\ Values(r) /\ Once(r)
    BY DEF Serves
  <1>2. /\ f \in Fns /\ made[f] \in Nat /\ made' \in [Fns -> Nat]
        /\ made'[f] = made[f] + 1 /\ \A g \in Fns : g # f => made'[g] = made[g]
        /\ DOMAIN result' = DOMAIN result /\ result'[i] = v
        /\ \A j \in DOMAIN result : j # i => result'[j] = result[j]
        /\ Of(v, f, made')
        /\ \A g \in Fns : \A w : Of(w, g, made) => Of(w, g, made')
    BY <1>1, CallCounts
  <1>3. DOMAIN dep_cache \subseteq Fns /\ \A g \in DOMAIN dep_cache : Of(dep_cache[g], g, made')
    BY <1>1, <1>2 DEF Shaped, Values
  <1> HIDE DEF v
  <1>4. /\ DOMAIN dep_cache' \subseteq Fns /\ DOMAIN dep_cache \subseteq DOMAIN dep_cache'
        /\ \A g \in DOMAIN dep_cache' : Of(dep_cache'[g], g, made')
        /\ r.params[i].use_cache => f \in DOMAIN dep_cache'
    <2>1. dep_cache' = Deps!Remember(r.params[i], v)
      BY DEF v
    <2> QED
      BY <1>2, <1>3, <2>1, Remembered
  <1>5. InTurn(r, f) => f \in DOMAIN dep_cache'
    BY <1>4 DEF InTurn, Deps!Caching, Deps!UsesOf
  <1>6. Once(r)'
    BY <1>1, <1>2, <1>4, <1>5, OnceCalled
  <1> QED
    BY <1>2, <1>4, <1>6, ParamStep

LEMMA FromCache ==
  ASSUME NEW r \in Routes, Serves(r), NEW i \in Deps!DepIndices(r), Deps!Cached(r.params[i]),
         task' = [task EXCEPT ![i] = "done"], result' = [result EXCEPT ![i] = dep_cache[r.params[i].fn]],
         UNCHANGED <<plan, cur, idx, stage, dep_cache, made>>
  PROVE  Serves(r)'
  <1>1. Shaped(r) /\ Values(r) /\ Once(r)
    BY DEF Serves
  <1>2. /\ DOMAIN result' = DOMAIN result /\ result'[i] = dep_cache[r.params[i].fn]
        /\ \A j \in DOMAIN result : j # i => result'[j] = result[j]
    BY <1>1, DependsOnFn DEF Shaped
  <1>3. Of(result'[i], r.params[i].fn, made')
    BY <1>1, <1>2 DEF Values, Deps!Cached
  <1>4. /\ made' \in [Fns -> Nat] /\ DOMAIN dep_cache' \subseteq Fns
        /\ \A g \in DOMAIN dep_cache' : Of(dep_cache'[g], g, made')
    BY <1>1 DEF Shaped, Values
  <1>5. Once(r)'
    BY <1>1, OnceKept
  <1> QED
    BY <1>2, <1>3, <1>4, <1>5, ParamStep

LEMMA StartsHere ==
  ASSUME NEW r \in Routes, Serves(r), NEW i, Deps!Startable(i)
  PROVE  /\ i \in Deps!DepIndices(r) /\ i \in Deps!AsyncIndices(r) /\ Deps!CanParallel(r)
         /\ stage \in {"gather", "failed"} /\ Deps!Params = r.params
  <1>1. Deps!Handler = r /\ Deps!Params = r.params
    BY HandlerIs DEF Serves, Shaped
  <1> QED
    BY <1>1 DEF Deps!Startable, Deps!AsyncIndices

LEMMA ResumesHere ==
  ASSUME NEW r \in Routes, Serves(r), NEW i, Deps!Resumable(i)
  PROVE  i \in Deps!DepIndices(r) /\ task[i] = "running" /\ Deps!Params = r.params
  <1>1. Deps!Params = r.params
    BY HandlerIs DEF Serves, Shaped
  <1>2. i \in DOMAIN task /\ task[i] = "running"
    BY DEF Deps!Resumable
  <1>3. i \in Deps!AsyncIndices(r)
    BY <1>2 DEF Serves, Placed
  <1> QED
    BY <1>1, <1>2, <1>3 DEF Deps!AsyncIndices

LEMMA PlanRests == ASSUME UNCHANGED Deps!regVars PROVE UNCHANGED plan
  BY DEF Deps!regVars

LEMMA TaskKeeps ==
  ASSUME NEW r \in Routes, Serves(r), NEW i,
         \/ Deps!TaskFromCache(i) \/ Deps!TaskSuspends(i) \/ Deps!TaskReturns(i)
         \/ Deps!TaskRaises(i) \/ Deps!Resume(i) \/ Deps!ResumeRaises(i)
  PROVE  Serves(r)'
  <1> USE PlanRests
  <1>1. Shaped(r) /\ Values(r) /\ Once(r)
    BY DEF Serves
  <1>2. CASE Deps!TaskFromCache(i)
    BY <1>2, StartsHere, FromCache DEF Deps!TaskFromCache
  <1>3. CASE Deps!TaskReturns(i)
    BY <1>3, StartsHere, CallReturns DEF Deps!TaskReturns
  <1>4. CASE Deps!TaskSuspends(i)
    <2> DEFINE f == r.params[i].fn
    <2>1. /\ i \in Deps!DepIndices(r) /\ i \in Deps!AsyncIndices(r) /\ Deps!CanParallel(r)
          /\ stage \in {"gather", "failed"} /\ Deps!Params = r.params
      BY <1>4, StartsHere DEF Deps!TaskSuspends
    <2>2. /\ Deps!Call(i) /\ ~Deps!Cached(r.params[i]) /\ task' = [task EXCEPT ![i] = "running"]
          /\ UNCHANGED <<plan, cur, stage, idx, dep_cache>>
      BY <1>4, <2>1 DEF Deps!TaskSuspends
    <2>3. /\ f \in Fns /\ made[f] \in Nat /\ made' \in [Fns -> Nat]
          /\ made'[f] = made[f] + 1 /\ \A g \in Fns : g # f => made'[g] = made[g]
          /\ DOMAIN result' = DOMAIN result /\ Of(result'[i], f, made')
          /\ \A j \in DOMAIN result : j # i => result'[j] = result[j]
          /\ \A g \in Fns : \A w : Of(w, g, made) => Of(w, g, made')
      BY <1>1, <2>1, <2>2, CallCounts
    <2>4. ~InTurn(r, f)
      BY <2>1 DEF InTurn, Deps!AsyncIndices
    <2>5. Once(r)'
      BY <1>1, <2>1, <2>2, <2>3, <2>4, OnceCalled
    <2>6. DOMAIN dep_cache' \subseteq Fns /\ \A g \in DOMAIN dep_cache' : Of(dep_cache'[g], g, made')
      BY <1>1, <2>2, <2>3 DEF Shaped, Values
    <2> QED
      BY <2>1, <2>2, <2>3, <2>5, <2>6, ParamStep
  <1>5. CASE Deps!TaskRaises(i) \/ Deps!ResumeRaises(i)
    <2>1. i \in Deps!DepIndices(r)
      BY <1>5, StartsHere, ResumesHere DEF Deps!TaskRaises, Deps!ResumeRaises
    <2>2. /\ task' = [task EXCEPT ![i] = "failed"] /\ stage' = "failed"
          /\ UNCHANGED <<plan, cur, idx, result, dep_cache, made>>
      BY <1>5 DEF Deps!TaskRaises, Deps!ResumeRaises
    <2>3. Once(r)'
      BY <1>1, <2>2, OnceKept
    <2>4. /\ made' \in [Fns -> Nat] /\ DOMAIN dep_cache' \subseteq Fns
          /\ \A g \in DOMAIN dep_cache' : Of(dep_cache'[g], g, made')
      BY <1>1, <2>2 DEF Shaped, Values
    <2> QED
      BY <2>1, <2>2, <2>3, <2>4, ParamStep
  <1>6. CASE Deps!Resume(i)
    <2>1. i \in Deps!DepIndices(r) /\ task[i] = "running" /\ Deps!Params = r.params
      BY <1>6, ResumesHere DEF Deps!Resume
    <2>2. /\ task' = [task EXCEPT ![i] = "done"] /\ dep_cache' = Deps!Remember(r.params[i], result[i])
          /\ UNCHANGED <<plan, cur, stage, idx, result, made>>
      BY <1>6, <2>1 DEF Deps!Resume
    <2>3. Of(result[i], r.params[i].fn, made)
      BY <1>1, <2>1 DEF Values
    <2>4. DOMAIN dep_cache \subseteq Fns /\ \A g \in DOMAIN dep_cache : Of(dep_cache[g], g, made)
      BY <1>1 DEF Shaped, Values
    <2>5. /\ DOMAIN dep_cache' \subseteq Fns /\ DOMAIN dep_cache \subseteq DOMAIN dep_cache'
          /\ \A g \in DOMAIN dep_cache' : Of(dep_cache'[g], g, made)
      BY <2>1, <2>2, <2>3, <2>4, Remembered
    <2>6. Once(r)'
      BY <1>1, <2>2, <2>5, OnceKept
    <2>7. made' \in [Fns -> Nat]
      BY <1>1, <2>2 DEF Shaped
    <2> QED
      BY <2>1, <2>2, <2>3, <2>5, <2>6, <2>7, ParamStep
  <1> QED
    BY <1>2, <1>3, <1>4, <1>5, <1>6

LEMMA LoopKeeps ==
  ASSUME NEW r \in Routes, Serves(r),
         \/ Deps!Gathered \/ Deps!LoopTake \/ Deps!LoopFromCache \/ Deps!LoopCalls
         \/ Deps!LoopRaises \/ Deps!RunHandler
  PROVE  Serves(r)'
  <1> USE PlanRests
  <1>1. Deps!Handler = r /\ Deps!Params = r.params
    BY HandlerIs DEF Serves, Shaped
  <1>2. Shaped(r) /\ Values(r) /\ Once(r) /\ Placed(r)
    BY DEF Serves
  <1>3. idx \in Nat \ {0} /\ Len(r.params) \in Nat /\ DOMAIN r.params = 1..Len(r.params)
    BY <1>2, DependenciesAssumption DEF Shaped
  <1>4. \A i \in Deps!DepIndices(r) : i \in DOMAIN task /\ i \in Nat \ {0}
    BY <1>2, DependsOnFn DEF Shaped
  <1>5. ASSUME Deps!ToResolve PROVE idx \in Deps!DepIndices(r) /\ stage = "loop"
    <2>1. stage = "loop" /\ idx <= Len(r.params) /\ r.params[idx].mark = "depends" /\ task[idx] = "new"
      BY <1>1, <1>5 DEF Deps!ToResolve, Deps!AtParam
    <2> QED
      BY <1>3, <2>1 DEF Deps!DepIndices
  <1>6. CASE Deps!LoopFromCache
    BY <1>1, <1>5, <1>6, FromCache DEF Deps!LoopFromCache
  <1>7. CASE Deps!LoopCalls
    BY <1>1, <1>5, <1>7, CallReturns DEF Deps!LoopCalls
  <1>8. CASE Deps!Gathered
    <2>1. /\ stage = "gather" /\ stage' = "loop" /\ UNCHANGED <<plan, cur, idx, task, result, dep_cache, made>>
          /\ \A i \in Deps!AsyncIndices(r) : task[i] = "done"
      BY <1>1, <1>8 DEF Deps!Gathered
    <2>2. Shaped(r)' /\ Values(r)' /\ Once(r)'
      BY <1>2, <2>1 DEF Shaped, Values, Once
    <2>3. idx = 1
      BY <1>2, <2>1 DEF Placed
    <2>4. \A i \in Deps!DepIndices(r) : ~(i < 1)
      BY <1>4
    <2>5. \A i \in DOMAIN task : task[i] \notin {"running", "failed"}
      BY <1>2, <2>1 DEF Placed
    <2>6. Placed(r)'
      BY <1>2, <2>1, <2>3, <2>4, <2>5 DEF Placed
    <2> QED
      BY <2>2, <2>6 DEF Serves
  <1>9. CASE Deps!LoopTake
    <2>1. /\ stage = "loop" /\ idx <= Len(r.params) /\ idx' = idx + 1
          /\ UNCHANGED <<plan, cur, stage, task, result, dep_cache, made>>
          /\ ~Deps!ToResolve
      BY <1>1, <1>9 DEF Deps!LoopTake, Deps!AtParam
    <2>2. idx + 1 \in Nat \ {0}
      BY <1>3
    <2>3. Shaped(r)' /\ Values(r)' /\ Once(r)'
      BY <1>2, <2>1, <2>2 DEF Shaped, Values, Once
    <2>4. \A i \in Deps!DepIndices(r) : i < idx + 1 => task[i] = "done"
      <3> SUFFICES ASSUME NEW i \in Deps!DepIndices(r), i < idx + 1 PROVE task[i] = "done"
        OBVIOUS
      <3>1. i \in Nat /\ i \in DOMAIN task
        BY <1>4
      <3>2. CASE i = idx
        <4>1. task[i] # "new"
          BY <1>1, <2>1, <3>2 DEF Deps!ToResolve, Deps!AtParam, Deps!DepIndices
        <4> QED
          BY <1>2, <2>1, <3>1, <4>1 DEF Placed
      <3>3. CASE i # idx
        <4>1. i < idx
          BY <1>3, <3>1, <3>3
        <4> QED
          BY <1>2, <2>1, <4>1 DEF Placed
      <3> QED
        BY <3>2, <3>3
    <2>5. Placed(r)'
      BY <1>2, <2>1, <2>4 DEF Placed
    <2> QED
      BY <2>3, <2>5 DEF Serves
  <1>10. CASE Deps!LoopRaises \/ Deps!RunHandler
    <2>1. /\ stage = "loop" /\ UNCHANGED <<plan, cur, idx, task, result, dep_cache, made>>
          /\ stage' = "failed" \/ (stage' = "ran" /\ idx > Len(r.params))
      BY <1>1, <1>10 DEF Deps!LoopRaises, Deps!RunHandler, Deps!ToResolve, Deps!AtParam
    <2>2. Shaped(r)' /\ Values(r)' /\ Once(r)'
      BY <1>2, <2>1 DEF Shaped, Values, Once
    <2>3. Placed(r)'
      BY <1>2, <2>1 DEF Placed
    <2> QED
      BY <2>2, <2>3 DEF Serves
  <1> QED
    BY <1>6, <1>7, <1>8, <1>9, <1>10

LEMMA ReceiveKeeps ==
  ASSUME DepsInv, NEW r \in Routes, Deps!Receive(r)
  PROVE  DepsInv'
  <1>1. /\ r \in DOMAIN plan /\ cur' = {r} /\ idx' = 1
        /\ stage' \in {"gather", "loop"}
        /\ task' = [i \in DOMAIN r.params |-> "new"]
        /\ result' = [i \in DOMAIN r.params |-> Deps!NoCall]
        /\ dep_cache' = Deps!Empty /\ made' = [f \in Fns |-> 0] /\ starved' = {}
        /\ UNCHANGED metas /\ UNCHANGED Deps!regVars
    BY DEF Deps!Receive
  <1>2. DOMAIN task' = DOMAIN r.params /\ \A i \in DOMAIN task' : task'[i] = "new"
    BY <1>1
  <1>3. DOMAIN dep_cache' = {}
    BY <1>1 DEF Deps!Empty
  <1>4. Shaped(r)'
    BY <1>1, <1>2, <1>3, PlanRests DEF Shaped
  <1>5. \A i \in Deps!DepIndices(r) : task'[i] = "new" /\ ~(i < 1)
    BY <1>2, DependsOnFn
  <1>6. Values(r)' /\ Once(r)'
    BY <1>1, <1>3, <1>5 DEF Values, Once
  <1>7. Placed(r)'
    BY <1>1, <1>2, <1>5 DEF Placed
  <1>8. Serving'
    BY <1>4, <1>6, <1>7 DEF Serving, Serves
  <1>9. Fed'
    BY <1>1 DEF Fed
  <1> QED
    BY <1>1, <1>8, <1>9, RoutesRest DEF DepsInv

\* Of the steps of a request, only those that call a function touch more than
\* the request.
LEMMA OthersKept ==
  ASSUME DepsInv, NEW r \in Routes, Serves(r),
         \/ \E i \in DOMAIN task : \/ Deps!TaskFromCache(i) \/ Deps!TaskSuspends(i) \/ Deps!TaskReturns(i)
                                   \/ Deps!TaskRaises(i) \/ Deps!Resume(i) \/ Deps!ResumeRaises(i)
         \/ Deps!Gathered \/ Deps!LoopTake \/ Deps!LoopFromCache \/ Deps!LoopCalls
         \/ Deps!LoopRaises \/ Deps!RunHandler \/ Deps!Respond
  PROVE  MetasCompiled' /\ Walked' /\ Planned' /\ Fed'
  <1>1. Shaped(r) /\ Deps!Params = r.params
    BY HandlerIs DEF Serves, Shaped
  <1>2. ASSUME NEW i, Deps!TaskSuspends(i) \/ Deps!TaskReturns(i)
        PROVE  i \in Deps!DepIndices(r) /\ Deps!Call(i) /\ UNCHANGED Deps!regVars
    BY <1>2, StartsHere DEF Deps!TaskSuspends, Deps!TaskReturns
  <1>3. ASSUME Deps!LoopCalls
        PROVE  idx \in Deps!DepIndices(r) /\ Deps!Call(idx) /\ UNCHANGED Deps!regVars
    <2>1. idx <= Len(r.params) /\ r.params[idx].mark = "depends"
      BY <1>1, <1>3 DEF Deps!LoopCalls, Deps!ToResolve, Deps!AtParam
    <2>2. idx \in DOMAIN r.params
      BY <1>1, <2>1, DependenciesAssumption DEF Shaped
    <2> QED
      BY <1>3, <2>1, <2>2 DEF Deps!LoopCalls, Deps!DepIndices
  <1>4. CASE (\E i \in DOMAIN task : Deps!TaskSuspends(i) \/ Deps!TaskReturns(i)) \/ Deps!LoopCalls
    BY <1>1, <1>2, <1>3, <1>4, CallKeeps
  <1>5. CASE ~((\E i \in DOMAIN task : Deps!TaskSuspends(i) \/ Deps!TaskReturns(i)) \/ Deps!LoopCalls)
    <2>1. UNCHANGED metas /\ UNCHANGED Deps!regVars /\ UNCHANGED starved
      BY <1>5 DEF Deps!TaskFromCache, Deps!TaskRaises, Deps!Resume, Deps!ResumeRaises, Deps!Gathered,
                  Deps!LoopTake, Deps!LoopFromCache, Deps!LoopRaises, Deps!RunHandler, Deps!Respond
    <2>2. Fed'
      BY <2>1 DEF DepsInv, Fed
    <2> QED
      BY <2>1, <2>2, RoutesRest
  <1> QED
    BY <1>4, <1>5

LEMMA DepsStep ==
  ASSUME DepsInv, Deps!Next
  PROVE  DepsInv'
  <1>1. CASE \E r \in Routes : Deps!BeginRoute(r) \/ Deps!Receive(r)
    BY <1>1, BeginRouteKeeps, ReceiveKeeps
  <1>2. CASE Deps!WalkKnown \/ Deps!WalkRaises \/ Deps!Walk \/ Deps!EndRoute
    BY <1>2, WalkKnownKeeps, WalkRaisesKeeps, WalkKeeps, EndRouteKeeps
  <1>3. ASSUME stage # "idle" PROVE \E r \in Routes : Serves(r)
    BY <1>3 DEF DepsInv, Serving
  <1>4. CASE stage # "idle" /\ \E i \in DOMAIN task :
               \/ Deps!TaskFromCache(i) \/ Deps!TaskSuspends(i) \/ Deps!TaskReturns(i)
               \/ Deps!TaskRaises(i) \/ Deps!Resume(i) \/ Deps!ResumeRaises(i)
    <2>1. PICK r \in Routes : Serves(r)
      BY <1>3, <1>4
    <2>2. Serves(r)'
      BY <1>4, <2>1, TaskKeeps
    <2>3. MetasCompiled' /\ Walked' /\ Planned' /\ Fed'
      BY <1>4, <2>1, OthersKept
    <2> QED
      BY <2>2, <2>3 DEF DepsInv, Serving
  <1>5. CASE \/ Deps!Gathered \/ Deps!LoopTake \/ Deps!LoopFromCache \/ Deps!LoopCalls
             \/ Deps!LoopRaises \/ Deps!RunHandler
    <2>1. stage # "idle"
      BY <1>5 DEF Deps!Gathered, Deps!LoopTake, Deps!LoopFromCache, Deps!LoopCalls, Deps!LoopRaises,
                  Deps!RunHandler, Deps!ToResolve, Deps!AtParam
    <2>2. PICK r \in Routes : Serves(r)
      BY <1>3, <2>1
    <2>3. Serves(r)'
      BY <1>5, <2>2, LoopKeeps
    <2>4. MetasCompiled' /\ Walked' /\ Planned' /\ Fed'
      BY <1>5, <2>2, OthersKept
    <2> QED
      BY <2>3, <2>4 DEF DepsInv, Serving
  <1>6. CASE Deps!Respond
    <2>1. stage # "idle" /\ stage' = "idle"
      BY <1>6 DEF Deps!Respond
    <2>2. MetasCompiled' /\ Walked' /\ Planned' /\ Fed'
      BY <1>3, <1>6, <2>1, OthersKept
    <2> QED
      BY <2>1, <2>2 DEF DepsInv, Serving
  <1> QED
    BY <1>1, <1>2, <1>4, <1>5, <1>6 DEF Deps!Next

LEMMA DepsStutters ==
  ASSUME DepsInv, UNCHANGED deps
  PROVE  DepsInv'
  <1>1. UNCHANGED metas /\ UNCHANGED Deps!regVars /\ UNCHANGED Deps!reqVars
    BY DEF deps, Deps!regVars, Deps!reqVars
  <1> QED
    BY <1>1, RoutesRest, RequestRests, PlanRests DEF DepsInv

LEMMA DepsTold ==
  ASSUME DepsInv
  PROVE  Deps!ArgumentsAreTheirs /\ Deps!DependenciesSeeRequest
  <1>1. Deps!DependenciesSeeRequest
    BY DEF DepsInv, Planned, Fed, HandlerSees, Marked, Deps!DependenciesSeeRequest
  <1>2. Deps!ArgumentsAreTheirs
    <2> SUFFICES ASSUME stage = "ran"
                 PROVE  /\ \A i \in Deps!DepIndices(Deps!Handler) :
                             /\ result[i].fn = Deps!Params[i].fn
                             /\ result[i].n \in 1..made[Deps!Params[i].fn]
                        /\ \A f \in Fns : InTurn(Deps!Handler, f) => made[f] <= 1
      BY DEF Deps!ArgumentsAreTheirs, InTurn
    <2>1. PICK r \in Routes : Serves(r)
      BY DEF DepsInv, Serving
    <2>2. Deps!Handler = r /\ Deps!Params = r.params
      BY <2>1, HandlerIs DEF Serves, Shaped
    <2>3. ASSUME NEW i \in Deps!DepIndices(r) PROVE Of(result[i], r.params[i].fn, made)
      <3>1. i \in 1..Len(r.params) /\ Len(r.params) \in Nat /\ idx \in Nat /\ idx > Len(r.params)
        BY <2>1, DependsOnFn, DependenciesAssumption DEF Serves, Shaped, Placed
      <3>2. i < idx
        BY <3>1
      <3>3. task[i] = "done"
        BY <2>1, <3>2 DEF Serves, Placed
      <3> QED
        BY <2>1, <3>3 DEF Serves, Values
    <2>4. \A f \in Fns : InTurn(r, f) => made[f] <= 1
      BY <2>1 DEF Serves, Once
    <2> QED
      BY <2>2, <2>3, <2>4 DEF Of
  <1> QED
    BY <1>1, <1>2

\* For every set of routes and dependency functions, registered in any order: the
\* handler runs with the values of calls made for its request, one call for all
\* uses of a cached dependency that is resolved in order, and what a dependency
\* asks for by a marker or reads of the request was parsed (resolve_dependency,
\* the injectors, analyze_dependency_tree).
THEOREM ArgumentsAreOwn == MCSpec => []ArgumentsAreTheirs
  <1>1. MCInit => DepsInv
    <2> SUFFICES ASSUME Deps!Init PROVE DepsInv
      BY DEF MCInit
    <2>1. DOMAIN metas = {} /\ DOMAIN plan = {}
      BY DEF Deps!Init, Deps!Empty
    <2>2. todo \in Seq(Fns)
      BY DEF Deps!Init
    <2> QED
      BY <2>1, <2>2 DEF Deps!Init, DepsInv, MetasCompiled, Walked, Planned, Fed, Serving
  <1>2. DepsInv /\ [MCNext]_<<which, vars, api, deps, token>> => DepsInv'
    <2> SUFFICES ASSUME DepsInv, [MCNext]_<<which, vars, api, deps, token>> PROVE DepsInv'
      OBVIOUS
    <2>1. Deps!Next \/ UNCHANGED deps
      BY DEF MCNext
    <2> QED
      BY <2>1, DepsStep, DepsStutters
  <1>3. DepsInv => ArgumentsAreTheirs
    BY DepsTold DEF ArgumentsAreTheirs
  <1> QED
    BY <1>1, <1>2, <1>3, PTL DEF MCSpec
----------------------------------------------------------------------------
(***************************************************************************)
(* One call of a handler (HandlerCall, as Calls has it), for any routes,   *)
(* requests and results.                                                   *)
(*                                                                         *)
(* The specialised executors, one by one, make of a value what             *)
(* serialize_response makes of it.                                         *)
(***************************************************************************)
LEMMA DirectAlike ==
  ASSUME NEW d, NEW v, ~Call!Validates(d), ~Call!TakenAtItsWord(d, v)
  PROVE  Call!DirectDict(d, v, Call!Serialize(d, v)) = Call!Serialize(d, v)
  <1>1. CASE v.k = "dict"
    <2>1. Call!Serialize(d, v) = Call!JsonPayload(d, v, d.status, Call!Body("raw", "dict"))
      BY <1>1 DEF Call!Serialize, Call!DataHandler, Call!ResponseTypes
    <2>2. Call!Encodable(v)
      BY <1>1 DEF Call!Encodable
    <2>3. Call!DirectDict(d, v, Call!Serialize(d, v)) = Call!EncodeRaw(d.status, v)
      BY <1>1 DEF Call!DirectDict
    <2> QED
      BY <1>1, <2>1, <2>2, <2>3 DEF Call!JsonPayload, Call!EncodeRaw
  <1>2. CASE v.k = "list"
    <2>1. Call!Serialize(d, v) = Call!DataList(d, v, d.status)
      BY <1>2 DEF Call!Serialize, Call!DataHandler, Call!ResponseTypes
    <2>2. CASE v.elem = "Serializer"
      <3>1. ~Call!SkipsConvert(d)
        BY <1>2, <2>2 DEF Call!TakenAtItsWord
      <3>2. Call!DirectDict(d, v, Call!Serialize(d, v)) = Call!WireBytes(d.status, "json", Call!Body("dumped", "Serializer"))
        BY <1>2, <2>2, <3>1 DEF Call!DirectDict, Call!IsSerializer
      <3>3. Call!DataList(d, v, d.status) = Call!JsonPayload(d, Call!Dumped(v), d.status, Call!Body("dumped", "Serializer"))
        BY <2>2 DEF Call!DataList
      <3> QED
        BY <2>1, <3>2, <3>3 DEF Call!JsonPayload, Call!Body
    <2>3. CASE v.elem # "Serializer"
      <3>1. Call!DirectDict(d, v, Call!Serialize(d, v)) = Call!EncodeRaw(d.status, v)
        BY <1>2, <2>3 DEF Call!DirectDict, Call!IsSerializer
      <3>2. v.elem = "object" => ~Call!HasFieldNames(d)
        BY <1>2 DEF Call!TakenAtItsWord, Call!SkipsConvert, Call!Lists, Call!HasFieldNames
      <3>3. Call!DataList(d, v, d.status) = Call!JsonPayload(d, v, d.status, Call!Body("raw", v.elem))
        BY <2>3, <3>2 DEF Call!DataList
      <3> QED
        BY <1>2, <2>1, <3>1, <3>3 DEF Call!JsonPayload, Call!EncodeRaw, Call!Body
    <2> QED
      BY <2>2, <2>3
  <1>3. CASE v.k \notin {"dict", "list"}
    <2>1. ~Call!SkipsConvert(d)
      BY <1>3 DEF Call!TakenAtItsWord
    <2> QED
      BY <1>3, <2>1 DEF Call!DirectDict
  <1> QED
    BY <1>1, <1>2, <1>3

LEMMA StructAlike ==
  ASSUME NEW d, NEW v, Call!Validates(d), Call!InlineKind(d) = "struct"
  PROVE  Call!InlineStruct(d, v, Call!Serialize(d, v)) = Call!Serialize(d, v)
  <1>1. d.type \in {"Struct", "Union"}
    BY DEF Call!InlineKind
  <1>2. CASE v.k = "Struct"
    <2>1. Call!Serialize(d, v) = Call!JsonPayload(d, v, d.status, Call!Body("raw", "Struct"))
      BY <1>2 DEF Call!Serialize, Call!DataHandler, Call!ResponseTypes, Call!AutoStreams, Call!IsIterator
    <2>2. Call!Coerce(d, v) = Call!AsIs(v)
      BY <1>1, <1>2 DEF Call!Coerce, Call!Lists, Call!ListOfStruct, Call!InstanceOf, Call!StructTypes
    <2>3. Call!InlineStruct(d, v, Call!Serialize(d, v)) = Call!WireBytes(d.status, "json", Call!Body("raw", "Struct"))
      BY <1>2 DEF Call!InlineStruct, Call!EncodeRaw, Call!Encodable
    <2> QED
      BY <1>2, <2>1, <2>2, <2>3 DEF Call!JsonPayload, Call!AsIs
  <1> QED
    BY <1>2 DEF Call!InlineStruct

LEMMA ListAlike ==
  ASSUME NEW d, NEW v, Call!Validates(d), Call!InlineKind(d) = "list", ~Call!UndumpedItems(d, v),
         v.k = "list" /\ v.elem = "none" => v.valid
  PROVE  Call!InlineList(d, v, Call!Serialize(d, v)) = Call!Serialize(d, v)
  <1>1. d.type = "list_Struct"
    BY DEF Call!InlineKind
  <1>2. CASE v.k = "list" /\ v.elem # "object"
    <2>1. v.elem # "Serializer"
      BY <1>2 DEF Call!UndumpedItems
    <2>2. Call!Serialize(d, v) = Call!JsonPayload(d, v, d.status, Call!Body("raw", v.elem))
      BY <1>2, <2>1 DEF Call!Serialize, Call!DataHandler, Call!ResponseTypes, Call!DataList
    <2>3. Call!Coerce(d, v) = Call!CoerceList(d, v)
      BY <1>1, <1>2 DEF Call!Coerce, Call!Lists, Call!ListOfStruct
    <2>4. CASE v.elem = "OtherStruct" \/ ~v.valid
      <3>1. ~Call!Coerce(d, v).ok
        BY <1>1, <1>2, <2>1, <2>3, <2>4 DEF Call!CoerceList, Call!Failed, Call!Converted
      <3>2. Call!InlineList(d, v, Call!Serialize(d, v)) = Call!Raised("ResponseValidationError")
        BY <1>2, <2>1, <2>4 DEF Call!InlineList
      <3> QED
        BY <2>2, <3>1, <3>2 DEF Call!JsonPayload
    <2>5. CASE v.elem # "OtherStruct" /\ v.valid
      <3>1. Call!Coerce(d, v) = [ok |-> TRUE, body |-> Call!Body("validated", d.type)]
        BY <1>1, <1>2, <2>1, <2>3, <2>5 DEF Call!CoerceList, Call!Converted
      <3>2. Call!InlineList(d, v, Call!Serialize(d, v)) = Call!WireBytes(d.status, "json", Call!Body("validated", d.type))
        BY <1>2, <2>1, <2>5 DEF Call!InlineList
      <3> QED
        BY <2>2, <3>1, <3>2 DEF Call!JsonPayload
    <2> QED
      BY <2>4, <2>5
  <1> QED
    BY <1>2 DEF Call!InlineList

\* The executor of a plain function, where it does not run a query on the loop.
LEMMA SyncAlike ==
  ASSUME NEW d, NEW v, NEW onLoop \in BOOLEAN, v.k = "list" /\ v.elem = "none" => v.valid,
         ~Call!TakenAtItsWord(d, v), ~Call!UndumpedItems(d, v),
         ~onLoop \/ ~Call!Queries(d, v)
  PROVE  /\ Call!FastAnswerSync(d, v, onLoop) = Call!Serialize(d, v)
         /\ Call!GenericAnswer(d, v, onLoop) = Call!Serialize(d, v)
  <1> DEFINE slow == IF onLoop THEN Call!SerializeOnLoop(d, v) ELSE Call!Serialize(d, v)
  <1>1. slow = Call!Serialize(d, v)
    BY DEF Call!SerializeOnLoop
  <1>2. Call!GenericAnswer(d, v, onLoop) = Call!Serialize(d, v)
    BY DEF Call!GenericAnswer, Call!SerializeOnLoop
  <1>3. Call!FastAnswerSync(d, v, onLoop) =
          IF ~Call!Validates(d) THEN Call!DirectDict(d, v, slow)
          ELSE IF Call!InlineKind(d) = "struct" THEN Call!InlineStruct(d, v, slow)
          ELSE IF Call!InlineKind(d) = "list" THEN Call!InlineList(d, v, slow)
          ELSE Call!GenericAnswer(d, v, onLoop)
    BY DEF Call!FastAnswerSync
  <1> HIDE DEF slow
  <1>4. /\ ~Call!Validates(d) => Call!DirectDict(d, v, Call!Serialize(d, v)) = Call!Serialize(d, v)
        /\ Call!Validates(d) /\ Call!InlineKind(d) = "struct" =>
             Call!InlineStruct(d, v, Call!Serialize(d, v)) = Call!Serialize(d, v)
        /\ Call!Validates(d) /\ Call!InlineKind(d) = "list" =>
             Call!InlineList(d, v, Call!Serialize(d, v)) = Call!Serialize(d, v)
    BY DirectAlike, StructAlike, ListAlike
  <1> QED
    BY <1>1, <1>2, <1>3, <1>4

LEMMA AnswerAlike ==
  ASSUME NEW r, NEW v, r.decl.multi = <<>>, v.k = "list" /\ v.elem = "none" => v.valid,
         ~Call!TakenAtItsWord(r.decl, v), ~Call!UndumpedItems(r.decl, v), ~Call!QueriedOnLoop(r, v)
  PROVE  Call!Answer(r, v) = Call!Serialize(r.decl, v)
  <1>1. Call!FastAnswer(r.decl, v) = Call!Serialize(r.decl, v)
    BY DirectAlike, StructAlike, ListAlike DEF Call!FastAnswer
  <1>2. Call!OnLoop(r) \in BOOLEAN
    BY DEF Call!OnLoop
  <1>3. CASE ~Call!OnLoop(r) \/ ~Call!Queries(r.decl, v)
    <2>1. /\ Call!FastAnswerSync(r.decl, v, Call!OnLoop(r)) = Call!Serialize(r.decl, v)
          /\ Call!GenericAnswer(r.decl, v, Call!OnLoop(r)) = Call!Serialize(r.decl, v)
      BY <1>2, <1>3, SyncAlike
    <2> QED
      BY <1>1, <2>1 DEF Call!Answer
  <1>4. CASE Call!OnLoop(r) /\ Call!Queries(r.decl, v)
    <2>1. v.k = "QuerySet" /\ ~Call!SyncExecutor(r) /\ r.colour = "sync"
      BY <1>4 DEF Call!QueriedOnLoop, Call!OnLoop
    <2>2. Call!GenericAnswer(r.decl, v, Call!OnLoop(r)) = Call!Serialize(r.decl, v)
      BY <2>1 DEF Call!GenericAnswer
    <2>3. Call!Specialised(r) => Call!Validates(r.decl) /\ Call!InlineKind(r.decl) = "none"
      BY <2>1 DEF Call!SyncExecutor
    <2>4. Call!Specialised(r) =>
            Call!FastAnswerSync(r.decl, v, Call!OnLoop(r)) = Call!GenericAnswer(r.decl, v, Call!OnLoop(r))
      BY <2>3 DEF Call!FastAnswerSync
    <2> QED
      BY <2>1, <2>2, <2>4 DEF Call!Answer
  <1> QED
    BY <1>3, <1>4

\* The executor of a plain function that does run one.
LoopErrors == {"SynchronousOnlyOperation", "ResponseValidationError"}

LEMMA QueriedRaises ==
  ASSUME NEW r, NEW v, r.decl.multi = <<>>, ~Call!TakenAtItsWord(r.decl, v), Call!QueriedOnLoop(r, v)
  PROVE  \E e \in LoopErrors : Call!Answer(r, v) = Call!Raised(e)
  <1> DEFINE slow == Call!SerializeOnLoop(r.decl, v)
  <1>1. PICK e \in LoopErrors : slow = Call!Raised(e)
    BY DEF Call!QueriedOnLoop, Call!SerializeOnLoop, LoopErrors
  <1>2. Call!OnLoop(r) /\ r.colour = "sync" /\ v.k \in {"QuerySet", "JSON", "Response"}
    BY DEF Call!QueriedOnLoop, Call!OnLoop, Call!Queries
  <1>3. ~Call!Validates(r.decl) => Call!DirectDict(r.decl, v, slow) = slow
    BY <1>2 DEF Call!DirectDict, Call!TakenAtItsWord
  <1>4. Call!InlineStruct(r.decl, v, slow) = slow /\ Call!InlineList(r.decl, v, slow) = slow
    BY <1>2 DEF Call!InlineStruct, Call!InlineList
  <1>5. v.k # "QuerySet" => Call!GenericAnswer(r.decl, v, Call!OnLoop(r)) = slow
    BY <1>2 DEF Call!GenericAnswer
  <1>6. v.k = "QuerySet" => Call!Specialised(r) /\ (~Call!Validates(r.decl) \/ Call!InlineKind(r.decl) # "none")
    BY DEF Call!QueriedOnLoop, Call!SyncExecutor
  <1>7. Call!InlineKind(r.decl) \in {"none", "struct", "list"}
    BY DEF Call!InlineKind
  <1>8. Call!FastAnswerSync(r.decl, v, Call!OnLoop(r)) =
          IF ~Call!Validates(r.decl) THEN Call!DirectDict(r.decl, v, slow)
          ELSE IF Call!InlineKind(r.decl) = "struct" THEN Call!InlineStruct(r.decl, v, slow)
          ELSE IF Call!InlineKind(r.decl) = "list" THEN Call!InlineList(r.decl, v, slow)
          ELSE Call!GenericAnswer(r.decl, v, Call!OnLoop(r))
    BY <1>2 DEF Call!FastAnswerSync
  <1> HIDE DEF slow
  <1>9. Call!Answer(r, v) = slow
    BY <1>2, <1>3, <1>4, <1>5, <1>6, <1>7, <1>8 DEF Call!Answer
  <1> QED
    BY <1>1, <1>9

(***************************************************************************)
(* What a handler returned is answered as Answer has it, or the failure of *)
(* Answer is; up to the return there is neither a value nor an exception.  *)
(***************************************************************************)
Answering ==
  /\ returned \in Results \union {Call!Nothing}
  /\ callPhase \in {"new", "registered", "received", "running"} => returned = Call!Nothing
  /\ callPhase = "running" => raised = "none"
  /\ returned # Call!Nothing =>
       /\ route.colour # "websocket" /\ call.exc = "none"
       /\ callPhase = "returned" => raised = "none"
       /\ callPhase = "failed" => raised # "none"
       /\ callPhase \in {"failed", "answered"} => raised = Call!Answer(route, returned).exc
       /\ callPhase = "answered" => wire = Call!Outcome(Call!Answer(route, returned))

LEMMA AnsweringStep ==
  ASSUME Answering, [Call!Next]_(Call!vars)
  PROVE  Answering'
  <1> USE DEF Answering
  <1>1. CASE Call!Register
    BY <1>1 DEF Call!Register
  <1>2. ASSUME NEW q \in CallRequests, Call!Receive(q)
        PROVE  Answering'
    BY <1>2 DEF Call!Receive
  <1>3. CASE Call!RustRefuses
    BY <1>3 DEF Call!RustRefuses
  <1>4. CASE Call!Bind
    BY <1>4 DEF Call!Bind
  <1>5. ASSUME NEW v \in Results, Call!HandlerReturns(v)
        PROVE  Answering'
    <2>1. call'.exc = "none"
      BY <1>5 DEF Call!HandlerReturns, Call!NoArgs
    <2> QED
      BY <1>5, <2>1 DEF Call!HandlerReturns
  <1>6. CASE Call!HandlerSuspends
    BY <1>6 DEF Call!HandlerSuspends
  <1>7. ASSUME NEW e \in Call!Exceptions, Call!HandlerRaises(e)
        PROVE  Answering'
    BY <1>7 DEF Call!HandlerRaises
  <1>8. CASE Call!Serialise
    <2> DEFINE w == Call!Answer(route, returned)
    <2>1. CASE w.exc = "none"
      <3>1. Call!Outcome(w) = w
        BY <2>1 DEF Call!Outcome
      <3>2. wire' = w /\ callPhase' = "answered" /\ UNCHANGED <<route, call, returned, raised>>
        BY <1>8, <2>1 DEF Call!Serialise
      <3> HIDE DEF w
      <3>3. w = Call!Answer(route, returned)
        BY DEF w
      <3> QED
        BY <1>8, <2>1, <3>1, <3>2, <3>3 DEF Call!Serialise
    <2>2. CASE w.exc # "none"
      <3>1. raised' = w.exc /\ callPhase' = "failed" /\ UNCHANGED <<route, call, returned>>
        BY <1>8, <2>2 DEF Call!Serialise
      <3> QED
        BY <2>2, <3>1
    <2> QED
      BY <2>1, <2>2
  <1>9. CASE Call!Respond
    <2>1. returned # Call!Nothing => wire' = Call!HandleException(raised, 404, FALSE)
      BY <1>9 DEF Call!Respond, Call!HttpStatus
    <2>2. returned # Call!Nothing => Call!Outcome(Call!Answer(route, returned)) = wire'
      BY <1>9, <2>1 DEF Call!Respond, Call!Outcome
    <2>3. callPhase = "failed" /\ callPhase' = "answered" /\ UNCHANGED <<route, call, returned, raised>>
      BY <1>9 DEF Call!Respond
    <2> QED
      BY <2>2, <2>3
  <1>10. CASE UNCHANGED Call!vars
    BY <1>10 DEF Call!vars
  <1> QED
    BY <1>1, <1>2, <1>3, <1>4, <1>5, <1>6, <1>7, <1>8, <1>9, <1>10 DEF Call!Next

LEMMA AnsweredAlike ==
  ASSUME Call!EmptyListsFit, Answering
  PROVE  Call!SpecialisedAnswersAlike
  <1> SUFFICES ASSUME callPhase = "answered", returned # Call!Nothing, route.decl.multi = <<>>,
                      ~Call!TakenAtItsWord(route.decl, returned), ~Call!UndumpedItems(route.decl, returned)
               PROVE  \/ wire = Call!Outcome(Call!Serialize(route.decl, returned))
                      \/ Call!QueriedOnLoop(route, returned) /\ wire.status = 500
    BY DEF Call!SpecialisedAnswersAlike
  <1>1. returned.k = "list" /\ returned.elem = "none" => returned.valid
    BY DEF Answering, Call!EmptyListsFit
  <1>2. CASE ~Call!QueriedOnLoop(route, returned)
    <2>1. Call!Answer(route, returned) = Call!Serialize(route.decl, returned)
      BY <1>1, <1>2, AnswerAlike
    <2> QED
      BY <2>1 DEF Answering
  <1>3. CASE Call!QueriedOnLoop(route, returned)
    <2>1. PICK e \in LoopErrors : Call!Answer(route, returned) = Call!Raised(e)
      BY <1>3, QueriedRaises
    <2>2. Call!Outcome(Call!Raised(e)) = Call!HandleException(e, 404, FALSE)
      BY DEF Call!Outcome, Call!Raised, LoopErrors
    <2>3. Call!HandleException(e, 404, FALSE).status = 500
      BY DEF LoopErrors, Call!HandleException, Call!ErrorWire, Call!WireBytes, Call!Wire
    <2>4. wire = Call!Outcome(Call!Answer(route, returned))
      BY DEF Answering
    <2>5. wire = Call!HandleException(e, 404, FALSE)
      BY <2>1, <2>2, <2>4
    <2> QED
      BY <1>3, <2>3, <2>5
  <1> QED
    BY <1>2, <1>3

----------------------------------------------------------------------------
(* The failures of an answer are the server's, or those of opening a file. *)

LEMMA JsonFailures ==
  ASSUME NEW d, NEW v, NEW code, NEW body
  PROVE  Call!JsonPayload(d, v, code, body).exc \in {"none", "TypeError", "ResponseValidationError"}
  BY DEF Call!JsonPayload, Call!WireBytes, Call!Wire, Call!Raised

LEMMA RawFailures ==
  ASSUME NEW code, NEW v
  PROVE  Call!EncodeRaw(code, v).exc \in {"none", "TypeError"}
  BY DEF Call!EncodeRaw, Call!WireBytes, Call!Wire, Call!Raised

LEMMA DataFailures ==
  ASSUME NEW d, NEW v, NEW code
  PROVE  Call!DataHandler(d, v, code).exc \in {"none", "TypeError", "ResponseValidationError"}
  <1>1. Call!DataList(d, v, code).exc \in {"none", "TypeError", "ResponseValidationError"}
    <2> DEFINE x == [v EXCEPT !.elem = "dict"]
    <2>1. Call!DataList(d, v, code) \in
            {Call!JsonPayload(d, Call!Dumped(v), code, Call!Body("dumped", "Serializer")),
             Call!JsonPayload(d, x, code, Call!Body("projected", "object")),
             Call!JsonPayload(d, v, code, Call!Body("raw", v.elem))}
      BY Zenon DEF Call!DataList
    <2> HIDE DEF x
    <2> QED
      BY <2>1, JsonFailures
  <1>2. Call!DataQuerySet(d, v, code).exc \in {"none", "TypeError", "ResponseValidationError"}
    <2> DEFINE x == [v EXCEPT !.k = "list", !.elem = "dict"]
               y == [v EXCEPT !.k = "list", !.elem = "object"]
    <2>1. Call!DataQuerySet(d, v, code) \in
            {Call!JsonPayload(d, x, code, Call!Body("projected", "QuerySet")),
             Call!JsonPayload(d, y, code, Call!Body("raw", "object"))}
      BY Zenon DEF Call!DataQuerySet
    <2> HIDE DEF x, y
    <2> QED
      BY <2>1, JsonFailures
  <1>3. Call!AutoStream(d, v, code).exc = "none"
    BY DEF Call!AutoStream, Call!StreamWire, Call!WireStream, Call!Wire
  <1>4. \A s, m, b : Call!WireBytes(s, m, b).exc = "none"
    BY DEF Call!WireBytes, Call!Wire
  <1>5. Call!Raised("TypeError").exc = "TypeError"
    BY DEF Call!Raised
  <1> QED
    BY <1>1, <1>2, <1>3, <1>4, <1>5, JsonFailures DEF Call!DataHandler

ServerErrors == {"none", "TypeError", "ResponseValidationError", "SynchronousOnlyOperation"}
OpenErrors == {"FileNotFoundError", "PermissionError", "OSError"}

\* What may be raised in answering a value.
Failures(v) == ServerErrors \union {e \in OpenErrors : v.k = "File"}

LEMMA TypedFailures ==
  ASSUME NEW d, NEW v
  PROVE  Call!ResponseTypeHandler(d, v).exc \in Failures(v)
  <1>1. \A s, m, b : Call!WireBytes(s, m, b).exc = "none"
    BY DEF Call!WireBytes, Call!Wire
  <1>2. Call!JsonResponse(d, v).exc \in Failures(v)
    <2>1. Call!EncodeRaw(v.status, Call!Payload(v)).exc \in Failures(v)
      BY RawFailures DEF ServerErrors, Failures
    <2>2. Call!Raised("ResponseValidationError").exc \in Failures(v)
      BY DEF Call!Raised, ServerErrors, Failures
    <2> QED
      BY <1>1, <2>1, <2>2 DEF Call!JsonResponse, ServerErrors, Failures
  <1>3. Call!StreamWire(v.k, v.status, "chunks").exc = "none"
    BY DEF Call!StreamWire, Call!WireStream, Call!Wire
  <1>4. v.k = "File" => Call!FileContent(v).exc \in Failures(v)
    BY DEF Call!FileContent, Call!OpenError, Call!WireBytes, Call!Wire, Call!Raised, ServerErrors, OpenErrors, Failures
  <1>5. Call!FileStreaming(v).exc = "none"
    BY DEF Call!FileStreaming, Call!WireFile, Call!Wire
  <1>6. /\ Call!PlainTextResponse(v).exc = "none"
        /\ Call!HtmlResponse(v).exc = "none"
        /\ Call!RedirectResponse(v).exc = "none"
        /\ Call!DjangoResponse(v).exc = "none"
    BY <1>1 DEF Call!PlainTextResponse, Call!HtmlResponse, Call!RedirectResponse, Call!DjangoResponse
  <1>7. "none" \in Failures(v)
    BY DEF ServerErrors, Failures
  <1> QED
    BY <1>2, <1>3, <1>4, <1>5, <1>6, <1>7 DEF Call!ResponseTypeHandler, Call!GenericResponse

LEMMA SerializeFailures ==
  ASSUME NEW d, NEW v
  PROVE  Call!Serialize(d, v).exc \in Failures(v)
  BY DataFailures, TypedFailures DEF Call!Serialize, ServerErrors, Failures

LEMMA LoopFailures ==
  ASSUME NEW d, NEW v
  PROVE  Call!SerializeOnLoop(d, v).exc \in Failures(v)
  <1>1. Call!Serialize(d, v).exc \in Failures(v)
    BY SerializeFailures
  <1>2. \A e : Call!Raised(e).exc = e
    BY DEF Call!Raised
  <1>3. {"ResponseValidationError", "SynchronousOnlyOperation"} \subseteq Failures(v)
    BY DEF ServerErrors, Failures
  <1> QED
    BY <1>1, <1>2, <1>3 DEF Call!SerializeOnLoop

LEMMA AnswerFailures ==
  ASSUME NEW r, NEW v
  PROVE  Call!Answer(r, v).exc \in Failures(v)
  <1>1. \A s, m, b : Call!WireBytes(s, m, b).exc = "none"
    BY DEF Call!WireBytes, Call!Wire
  <1>2. \A e : Call!Raised(e).exc = e
    BY DEF Call!Raised
  <1>3. \A s, x : Call!EncodeRaw(s, x).exc \in Failures(v)
    BY RawFailures DEF ServerErrors, Failures
  <1>4. \A d : Call!Serialize(d, v).exc \in Failures(v) /\ Call!SerializeOnLoop(d, v).exc \in Failures(v)
    BY SerializeFailures, LoopFailures
  <1>5. {"none", "TypeError", "ResponseValidationError", "SynchronousOnlyOperation"} \subseteq Failures(v)
    BY DEF ServerErrors, Failures
  <1>6. \A d, w : w.exc \in Failures(v) => Call!DirectDict(d, v, w).exc \in Failures(v)
    BY <1>1, <1>3, <1>5 DEF Call!DirectDict
  <1>7. \A d, w : w.exc \in Failures(v) => Call!InlineStruct(d, v, w).exc \in Failures(v)
    BY <1>3 DEF Call!InlineStruct
  <1>8. \A d, w : w.exc \in Failures(v) => Call!InlineList(d, v, w).exc \in Failures(v)
    BY <1>1, <1>2, <1>5 DEF Call!InlineList
  <1>9. Call!FastAnswer(r.decl, v).exc \in Failures(v)
    BY <1>4, <1>6, <1>7, <1>8 DEF Call!FastAnswer
  <1>10. Call!GenericAnswer(r.decl, v, Call!OnLoop(r)).exc \in Failures(v)
    BY <1>4 DEF Call!GenericAnswer
  <1>11. Call!FastAnswerSync(r.decl, v, Call!OnLoop(r)).exc \in Failures(v)
    <2> DEFINE slow == IF Call!OnLoop(r) THEN Call!SerializeOnLoop(r.decl, v) ELSE Call!Serialize(r.decl, v)
    <2>1. slow.exc \in Failures(v)
      BY <1>4
    <2>2. Call!FastAnswerSync(r.decl, v, Call!OnLoop(r)) \in
            {Call!DirectDict(r.decl, v, slow), Call!InlineStruct(r.decl, v, slow),
             Call!InlineList(r.decl, v, slow), Call!GenericAnswer(r.decl, v, Call!OnLoop(r))}
      BY Zenon DEF Call!FastAnswerSync
    <2> HIDE DEF slow
    <2> QED
      BY <1>6, <1>7, <1>8, <1>10, <2>1, <2>2
  <1>12. Call!MultiTuple(r.decl, v, Call!OnLoop(r)).exc \in Failures(v)
    <2>1. \A d, x, s : Call!DataHandler(d, x, s).exc \in Failures(v)
      BY <1>5, DataFailures
    <2> DEFINE e == Call!Entry(r.decl, CHOOSE i \in Call!EntriesOf(r.decl, v.status) : TRUE)
               data == Call!Payload(v)
    <2>2. Call!MultiTuple(r.decl, v, Call!OnLoop(r)) \in
            {Call!Raised("TypeError"), Call!WireBytes(v.status, "empty", Call!Body("none", "none")),
             Call!EncodeRaw(v.status, data), Call!Raised("SynchronousOnlyOperation"),
             Call!DataHandler(e, data, v.status)}
      BY Zenon DEF Call!MultiTuple
    <2> HIDE DEF e, data
    <2> QED
      BY <1>1, <1>2, <1>3, <1>5, <2>1, <2>2
  <1>13. Call!MultiAnswer(r.decl, v, Call!OnLoop(r)).exc \in Failures(v)
    <2> DEFINE dflt == {i \in DOMAIN r.decl.multi : r.decl.multi[i].status = r.decl.status}
               default == Call!Entry(r.decl, IF dflt # {} THEN CHOOSE i \in dflt : TRUE ELSE 1)
               entry == IF v.k = "JSON" /\ Call!EntriesOf(r.decl, v.status) # {}
                        THEN Call!Entry(r.decl, CHOOSE i \in Call!EntriesOf(r.decl, v.status) : TRUE) ELSE default
    <2>1. Call!MultiAnswer(r.decl, v, Call!OnLoop(r)) \in
            {Call!MultiTuple(r.decl, v, Call!OnLoop(r)), Call!SerializeOnLoop(entry, v), Call!Serialize(entry, v)}
      BY Zenon DEF Call!MultiAnswer
    <2> HIDE DEF entry
    <2> QED
      BY <1>4, <1>12, <2>1
  <1> QED
    BY <1>9, <1>10, <1>11, <1>13 DEF Call!Answer

LEMMA BlamedRightly ==
  ASSUME Answering
  PROVE  Call!ServerIsBlamed
  <1> SUFFICES ASSUME callPhase = "answered", returned # Call!Nothing, raised # "none"
               PROVE  wire.status = IF returned.k = "File" THEN Call!OpenStatus(raised) ELSE 500
    BY DEF Call!ServerIsBlamed
  <1>1. raised \in Failures(returned)
    BY AnswerFailures DEF Answering
  <1>2. wire = Call!HandleException(raised, 404, FALSE)
    BY DEF Answering, Call!Outcome
  <1>3. raised \in ServerErrors => wire.status = 500
    BY <1>2 DEF ServerErrors, Call!HandleException, Call!ErrorWire, Call!WireBytes, Call!Wire
  <1>4. raised \in OpenErrors => wire.status = Call!OpenStatus(raised)
    BY <1>2 DEF OpenErrors, Call!OpenStatus, Call!HandleException, Call!ErrorWire, Call!WireBytes, Call!Wire
  <1>5. raised \in ServerErrors => Call!OpenStatus(raised) = 500
    BY DEF ServerErrors, Call!OpenStatus
  <1> QED
    BY <1>1, <1>3, <1>4, <1>5 DEF Failures

----------------------------------------------------------------------------
(***************************************************************************)
(* The arguments.  An extractor gives a field what the field is meant to   *)
(* have; InjectAll puts it where the parameter's rank among those passed   *)
(* by position says, or under its name; and the rank is that of the        *)
(* signature whatever the order of the injector, unless a query parameter  *)
(* precedes one of the path.                                               *)
(***************************************************************************)
LEMMA LeastNatural ==
  ASSUME NEW U, U \subseteq Nat, U # {}
  PROVE  \E x \in U : \A y \in U : x <= y
  <1> DEFINE R == OpToRel(<, Nat)
  <1>1. \E x \in U : \A y \in U : <<y, x>> \notin R
    <2>1. IsWellFoundedOn(R, Nat)
      BY NatLessThanWellFounded
    <2> HIDE DEF R
    <2> QED
      BY <2>1, WFMin
  <1>2. \A x, y \in Nat : y < x => <<y, x>> \in R
    BY DEF OpToRel
  <1> HIDE DEF R
  <1>3. PICK x \in U : \A y \in U : <<y, x>> \notin R
    BY <1>1
  <1>4. ASSUME NEW y \in U PROVE x <= y
    <2>1. x \in Nat /\ y \in Nat /\ ~(y < x)
      BY <1>2, <1>3
    <2> QED
      BY <2>1
  <1> QED
    BY <1>4

Sources == {"path", "query", "header", "cookie", "form", "file", "body", "request", "dependency"}

\* The fields of a signature.
Signature(fields) ==
  /\ DOMAIN fields \subseteq Nat /\ IsFiniteSet(DOMAIN fields)
  /\ \A i \in DOMAIN fields : fields[i].source \in Sources /\ fields[i].kind \in {"pos", "kw"}
  /\ \A i, j \in DOMAIN fields : fields[i].name = fields[j].name => i = j

\* An extractor gives a field what it is meant to have.
LEMMA LookedUp ==
  ASSUME NEW f, NEW key, NEW m, NEW typed \in BOOLEAN, Call!Lookup(f, key, m, typed).exc = "none"
  PROVE  Call!Lookup(f, key, m, typed).v =
           IF key \in DOMAIN m THEN Call!Arg(f.source, key, m[key], typed) ELSE Call!Default(f)
  BY DEF Call!Lookup, Call!Value, Call!Raise

LEMMA StructConverted ==
  ASSUME NEW f, NEW m, Call!ConvertStruct(f, m).exc = "none"
  PROVE  Call!ConvertStruct(f, m).v = Call!Arg(f.source, f.type, "struct", TRUE)
  BY DEF Call!ConvertStruct, Call!Value, Call!Raise

\* The maps an injector takes from the request are those its fields need.
LEMMA NeededSeen ==
  ASSUME NEW fields, NEW q, NEW i \in DOMAIN fields
  PROVE  /\ fields[i].source = "path" => Call!Seen(fields, q).path = q.path
         /\ fields[i].source = "query" => Call!Seen(fields, q).query = q.query
         /\ fields[i].source = "header" => Call!Seen(fields, q).header = Call!Coerced(q.header, Call!TypeHints(fields))
         /\ fields[i].source = "cookie" => Call!Seen(fields, q).cookie = Call!Coerced(q.cookie, Call!TypeHints(fields))
         /\ fields[i].source = "form" => Call!Seen(fields, q).form = q.form
         /\ fields[i].source = "file" => Call!Seen(fields, q).file = q.file
         /\ Call!Seen(fields, q).typed = Call!TypeHints(fields)
  <1>1. fields[i].source \in {"path", "query", "header", "cookie", "form", "file"} =>
          fields[i].source \in Call!Needs(fields)
    BY DEF Call!Needs, Call!With, Call!FieldSet
  <1> HIDE DEF Call!Needs
  <1> QED
    BY <1>1 DEF Call!Seen

\* A field whose key is its name has a hint.
LEMMA HintGiven ==
  ASSUME NEW fields, NEW i \in DOMAIN fields,
         fields[i].source \in {"path", "query", "header", "cookie"}, fields[i].type # "str", ~Call!IsStruct(fields[i].type)
  PROVE  fields[i].name \in Call!TypeHints(fields)
  <1>1. fields[i] \in {g \in Call!FieldSet(fields) : g.source \in {"path", "query", "header", "cookie"} /\ g.type # "str"}
    BY DEF Call!FieldSet
  <1>2. fields[i].name \in IF Call!IsStruct(fields[i].type) THEN {s.name : s \in Structs[fields[i].type]} ELSE {fields[i].name}
    OBVIOUS
  <1> QED
    BY <1>1, <1>2, Zenon DEF Call!TypeHints

\* A value is a field's own, typed or not.
LEMMA OwnIfHinted ==
  ASSUME NEW fields, NEW i, NEW q, NEW typed \in BOOLEAN, NEW s, NEW k, NEW x,
         Call!Meant(fields[i], q) = Call!Arg(s, k, x, TRUE),
         ~typed => Call!HintMissed(fields[i])
  PROVE  Call!Own(fields, i, Call!Arg(s, k, x, typed), q)
  <1>1. CASE typed
    BY <1>1 DEF Call!Own
  <1>2. CASE ~typed
    <2>1. typed = FALSE
      BY <1>2
    <2>2. Call!Unconverted(Call!Arg(s, k, x, TRUE)) = Call!Arg(s, k, x, FALSE)
      BY DEF Call!Arg, Call!Unconverted
    <2> QED
      BY <1>2, <2>1, <2>2 DEF Call!Own
  <1> QED
    BY <1>1, <1>2

LEMMA ScalarIsOwn ==
  ASSUME NEW fields, NEW q, NEW i \in DOMAIN fields, NEW m, NEW typed \in BOOLEAN,
         fields[i].source \in {"query", "header", "cookie", "form"}, ~Call!IsStruct(fields[i].type),
         DOMAIN m = DOMAIN q[fields[i].source],
         \A k \in DOMAIN m : \/ m[k] = q[fields[i].source][k]
                             \/ fields[i].source \in {"header", "cookie"} /\ m[k] = "zero",
         ~typed => Call!HintMissed(fields[i]),
         Call!Lookup(fields[i], Call!KeyOf(fields[i]), m, typed).exc = "none"
  PROVE  Call!Own(fields, i, Call!Lookup(fields[i], Call!KeyOf(fields[i]), m, typed).v, q)
  <1> DEFINE f == fields[i]
             k == Call!KeyOf(f)
             a == Call!Lookup(f, k, m, typed).v
  <1> HIDE DEF k
  <1>1. a = IF k \in DOMAIN m THEN Call!Arg(f.source, k, m[k], typed) ELSE Call!Default(f)
    BY LookedUp DEF k
  <1>2. CASE k \notin DOMAIN m
    <2>1. Call!Meant(f, q) = Call!Default(f)
      BY <1>2 DEF Call!Meant, k
    <2> QED
      BY <1>1, <1>2, <2>1 DEF Call!Own, k
  <1>3. CASE k \in DOMAIN m /\ m[k] = q[f.source][k]
    <2>1. Call!Meant(f, q) = Call!Arg(f.source, k, m[k], TRUE)
      BY <1>3 DEF Call!Meant, k
    <2>2. Call!Own(fields, i, Call!Arg(f.source, k, m[k], typed), q)
      BY <2>1, OwnIfHinted
    <2> QED
      BY <1>1, <1>3, <2>2 DEF k
  <1>4. CASE k \in DOMAIN m /\ m[k] # q[f.source][k]
    <2>1. f.source \in {"header", "cookie"} /\ m[k] = "zero"
      BY <1>4
    <2>2. a.val = "zero"
      BY <1>1, <1>4, <2>1 DEF Call!Arg
    <2> QED
      BY <2>1, <2>2 DEF Call!Own, Call!Zeroed, k
  <1> QED
    BY <1>2, <1>3, <1>4

LEMMA StructIsOwn ==
  ASSUME NEW fields, NEW q, NEW i, Call!IsStruct(fields[i].type),
         fields[i].source \in {"query", "header", "cookie", "form"}
  PROVE  Call!Own(fields, i, Call!Arg(fields[i].source, fields[i].type, "struct", TRUE), q)
  BY DEF Call!Own, Call!Meant

LEMMA ExtractedIsOwn ==
  ASSUME NEW fields, NEW q, NEW i \in DOMAIN fields, fields[i].source \in Sources,
         Call!Extract(fields[i], Call!Seen(fields, q)).exc = "none"
  PROVE  Call!Own(fields, i, Call!Extract(fields[i], Call!Seen(fields, q)).v, q)
  <1> DEFINE f == fields[i]
             seen == Call!Seen(fields, q)
             a == Call!Extract(f, seen).v
             typed == f.type = "str" \/ Call!KeyOf(f) \in Call!TypeHints(fields)
  <1>h. f.source \in {"path", "query", "header", "cookie"} /\ ~typed => Call!HintMissed(f)
    BY HintGiven DEF Call!HintMissed
  <1>t. typed \in BOOLEAN
    OBVIOUS
  <1>c. \A m, h : /\ DOMAIN Call!Coerced(m, h) = DOMAIN m
                  /\ \A k \in DOMAIN m : Call!Coerced(m, h)[k] \in {m[k], "zero"}
    BY DEF Call!Coerced
  <1> SUFFICES Call!Own(fields, i, a, q)
    OBVIOUS
  <1>e. Call!Extract(f, seen).exc = "none"
    OBVIOUS
  <1> HIDE DEF seen
  <1>k. f.source # "header" => Call!KeyOf(f) = Call!FieldAlias(f)
    BY DEF Call!KeyOf
  <1>r. /\ \A x : Call!Value(x).v = x
        /\ \A x : Call!Raise(x).exc = x
    BY DEF Call!Value, Call!Raise
  <1>1. CASE f.source = "path"
    <2>1. seen.path = q.path /\ seen.typed = Call!TypeHints(fields)
      BY <1>1, NeededSeen DEF seen
    <2>2. Call!Extract(f, seen) = Call!PathExtractor(f, seen)
      BY <1>1 DEF Call!Extract
    <2>3. Call!KeyOf(f) \in DOMAIN q.path /\ a = Call!Arg("path", Call!KeyOf(f), q.path[Call!KeyOf(f)], typed)
      BY <1>k, <1>1, <1>e, <2>1, <2>2 DEF Call!PathExtractor, Call!Value, Call!Raise
    <2>4. Call!Meant(f, q) = Call!Arg("path", Call!KeyOf(f), q.path[Call!KeyOf(f)], TRUE)
      BY <1>1, <2>3 DEF Call!Meant
    <2>5. Call!Own(fields, i, Call!Arg("path", Call!KeyOf(f), q.path[Call!KeyOf(f)], typed), q)
      BY <1>h, <1>t, <1>1, <2>4, OwnIfHinted
    <2> QED
      BY <2>3, <2>5
  <1>2. CASE f.source = "query"
    <2>1. seen.query = q.query /\ seen.typed = Call!TypeHints(fields)
      BY <1>2, NeededSeen DEF seen
    <2>2. Call!Extract(f, seen) = Call!QueryExtractor(f, seen)
      BY <1>2 DEF Call!Extract
    <2>3. CASE Call!IsStruct(f.type)
      <3>1. Call!Extract(f, seen) = Call!ConvertStruct(f, Call!Wrapped(f.type, q.query))
        BY <2>1, <2>2, <2>3 DEF Call!QueryExtractor, Call!ParamStruct
      <3>2. a = Call!Arg(f.source, f.type, "struct", TRUE)
        BY <1>e, <3>1, StructConverted
      <3> QED
        BY <1>2, <2>3, <3>2, StructIsOwn
    <2>4. CASE ~Call!IsStruct(f.type)
      <3>1. Call!Extract(f, seen) = Call!Lookup(f, Call!KeyOf(f), q.query, typed)
        BY <1>2, <1>k, <2>1, <2>2, <2>4 DEF Call!QueryExtractor
      <3> QED
        BY <1>h, <1>t, <1>2, <2>4, <3>1, <1>e, ScalarIsOwn
    <2> QED
      BY <2>3, <2>4
  <1>3. CASE f.source = "header"
    <2>1. seen.header = Call!Coerced(q.header, Call!TypeHints(fields)) /\ seen.typed = Call!TypeHints(fields)
      BY <1>3, NeededSeen DEF seen
    <2>2. Call!Extract(f, seen) = Call!HeaderExtractor(f, seen)
      BY <1>3 DEF Call!Extract
    <2>3. CASE Call!IsStruct(f.type)
      <3>1. Call!Extract(f, seen) = Call!HeaderStruct(f, seen)
        BY <2>2, <2>3 DEF Call!HeaderExtractor
      <3>2. Call!HeaderStruct(f, seen).exc = "none" => Call!HeaderStruct(f, seen).v = Call!Arg("header", f.type, "struct", TRUE)
        BY DEF Call!HeaderStruct, Call!Value, Call!Raise
      <3> QED
        BY <1>3, <2>3, <3>1, <3>2, <1>e, StructIsOwn
    <2>4. CASE ~Call!IsStruct(f.type)
      <3>1. Call!Extract(f, seen) = Call!Lookup(f, Call!KeyOf(f), seen.header, typed)
        BY <1>3, <2>1, <2>2, <2>4 DEF Call!HeaderExtractor, Call!KeyOf
      <3>2. /\ DOMAIN seen.header = DOMAIN q.header
            /\ \A k \in DOMAIN seen.header : seen.header[k] = q.header[k] \/ seen.header[k] = "zero"
        BY <1>c, <2>1
      <3> QED
        BY <1>h, <1>t, <1>3, <2>4, <3>1, <3>2, <1>e, ScalarIsOwn
    <2> QED
      BY <2>3, <2>4
  <1>4. CASE f.source = "cookie"
    <2>1. seen.cookie = Call!Coerced(q.cookie, Call!TypeHints(fields)) /\ seen.typed = Call!TypeHints(fields)
      BY <1>4, NeededSeen DEF seen
    <2>2. Call!Extract(f, seen) = Call!CookieExtractor(f, seen)
      BY <1>4 DEF Call!Extract
    <2>3. CASE Call!IsStruct(f.type)
      <3>1. Call!Extract(f, seen) = Call!ConvertStruct(f, Call!Wrapped(f.type, seen.cookie))
        BY <2>2, <2>3 DEF Call!CookieExtractor, Call!ParamStruct
      <3>2. a = Call!Arg(f.source, f.type, "struct", TRUE)
        BY <1>e, <3>1, StructConverted
      <3> QED
        BY <1>4, <2>3, <3>2, StructIsOwn
    <2>4. CASE ~Call!IsStruct(f.type)
      <3>1. Call!Extract(f, seen) = Call!Lookup(f, Call!KeyOf(f), seen.cookie, typed)
        BY <1>4, <1>k, <2>1, <2>2, <2>4 DEF Call!CookieExtractor
      <3>2. /\ DOMAIN seen.cookie = DOMAIN q.cookie
            /\ \A k \in DOMAIN seen.cookie : seen.cookie[k] = q.cookie[k] \/ seen.cookie[k] = "zero"
        BY <1>c, <2>1
      <3> QED
        BY <1>h, <1>t, <1>4, <2>4, <3>1, <3>2, <1>e, ScalarIsOwn
    <2> QED
      BY <2>3, <2>4
  <1>5. CASE f.source = "form"
    <2>1. seen.form = q.form
      BY <1>5, NeededSeen DEF seen
    <2>2. Call!Extract(f, seen) = Call!FormExtractor(f, seen)
      BY <1>5 DEF Call!Extract
    <2>3. CASE Call!IsStruct(f.type)
      <3>1. \E m : Call!Extract(f, seen) = Call!ConvertStruct(f, m)
        BY <2>2, <2>3 DEF Call!FormExtractor, Call!ParamStruct, Call!ParamStructWithFiles
      <3>2. a = Call!Arg(f.source, f.type, "struct", TRUE)
        BY <1>e, <3>1, StructConverted
      <3> QED
        BY <1>5, <2>3, <3>2, StructIsOwn
    <2>4. CASE ~Call!IsStruct(f.type)
      <3>1. Call!Extract(f, seen) = Call!Lookup(f, Call!KeyOf(f), q.form, TRUE)
        BY <1>5, <1>k, <2>1, <2>2, <2>4 DEF Call!FormExtractor
      <3> QED
        BY <1>5, <2>4, <3>1, <1>e, ScalarIsOwn
    <2> QED
      BY <2>3, <2>4
  <1>6. CASE f.source = "file"
    <2>1. seen.file = q.file
      BY <1>6, NeededSeen DEF seen
    <2>2. Call!Extract(f, seen) = Call!FileExtractor(f, seen)
      BY <1>6 DEF Call!Extract
    <2>3. a = IF Call!KeyOf(f) \in DOMAIN q.file
              THEN Call!Arg("file", Call!KeyOf(f), IF f.type = "UploadFiles" THEN "many" ELSE "one", TRUE)
              ELSE Call!Default(f)
      <3> DEFINE w == Call!Arg("file", Call!KeyOf(f), IF f.type = "UploadFiles" THEN "many" ELSE "one", TRUE)
                 x == Call!FileExtractor(f, seen)
      <3>1. x = IF Call!KeyOf(f) \in DOMAIN q.file THEN Call!Value(w)
                ELSE IF Call!IsOptional(f) THEN Call!Value(Call!Default(f)) ELSE Call!Raise("RequestValidationError")
        BY <1>6, <1>k, <2>1, Zenon DEF Call!FileExtractor
      <3>2. x.exc = "none" /\ a = x.v
        BY <1>e, <2>2
      <3>3. Call!Raise("RequestValidationError").exc # "none"
        BY <1>r
      <3> HIDE DEF w, x, a, f
      <3>4. x.v = IF Call!KeyOf(f) \in DOMAIN q.file THEN w ELSE Call!Default(f)
        BY <1>r, <3>1, <3>2, <3>3
      <3> QED
        BY <3>2, <3>4 DEF w
    <2>4. a = Call!Meant(f, q)
      BY <1>6, <2>3 DEF Call!Meant
    <2> QED
      BY <2>4 DEF Call!Own
  <1>7. CASE f.source = "body"
    <2>1. Call!Extract(f, seen) = Call!BodyExtractor(f, seen)
      BY <1>7 DEF Call!Extract
    <2>2. a = Call!Arg("body", f.type, "struct", TRUE)
      BY <1>e, <1>r, <2>1 DEF Call!BodyExtractor
    <2>3. a = Call!Meant(f, q)
      BY <1>7, <2>2 DEF Call!Meant
    <2> QED
      BY <2>3 DEF Call!Own
  <1>8. CASE f.source \in {"request", "dependency"}
    <2>1. a = Call!Arg(f.source, f.name, "one", TRUE)
      BY <1>8 DEF Call!Extract, Call!Value
    <2>2. a = Call!Meant(f, q)
      BY <1>8, <2>1 DEF Call!Meant
    <2> QED
      BY <2>2 DEF Call!Own
  <1> QED
    BY <1>1, <1>2, <1>3, <1>4, <1>5, <1>6, <1>7, <1>8 DEF Sources

\* The body is decoded for the first field that wants it, which is the only one.
LEMMA InjectedIsOwn ==
  ASSUME NEW fields, Signature(fields), NEW q, NEW i \in DOMAIN fields,
         Call!Inject(fields, Call!Seen(fields, q), i).exc = "none"
  PROVE  Call!Own(fields, i, Call!Inject(fields, Call!Seen(fields, q), i).v, q)
  <1> DEFINE seen == Call!Seen(fields, q)
             First(b) == /\ fields[b].source = "body"
                         /\ \A c \in DOMAIN fields : fields[c].source = "body" => b <= c
  <1>1. CASE Call!SharesBody(fields, i)
    BY <1>1 DEF Call!Own
  <1>2. CASE ~Call!SharesBody(fields, i)
    <2>1. fields[i].source = "body" => (CHOOSE b \in DOMAIN fields : First(b)) = i
      <3> SUFFICES ASSUME fields[i].source = "body"
                   PROVE  (CHOOSE b \in DOMAIN fields : First(b)) = i
        OBVIOUS
      <3>1. \A b \in DOMAIN fields : fields[b].source = "body" => b = i
        BY <1>2 DEF Call!SharesBody
      <3>2. i \in Nat
        BY DEF Signature
      <3>3. First(i) /\ \A b \in DOMAIN fields : First(b) => b = i
        BY <3>1, <3>2
      <3> HIDE DEF First
      <3> QED
        BY <3>3
    <2>2. Call!Inject(fields, seen, i) = Call!Extract(fields[i], seen)
      BY <2>1 DEF Call!Inject
    <2> HIDE DEF seen
    <2>3. Call!Extract(fields[i], seen).exc = "none"
      BY <2>2 DEF seen
    <2>4. Call!Own(fields, i, Call!Extract(fields[i], seen).v, q)
      BY <2>3, ExtractedIsOwn DEF seen, Signature
    <2> QED
      BY <2>2, <2>4 DEF seen
  <1> QED
    BY <1>1, <1>2

----
Orders == {"declared", "path_first"}

LEMMA BeforeIsTotal ==
  ASSUME NEW fields, Signature(fields), NEW order, NEW i \in DOMAIN fields, NEW j \in DOMAIN fields, NEW k \in DOMAIN fields
  PROVE  /\ Call!Before(fields, order, i, i)
         /\ Call!Before(fields, order, i, j) \/ Call!Before(fields, order, j, i)
         /\ Call!Before(fields, order, i, j) /\ Call!Before(fields, order, j, i) => i = j
         /\ Call!Before(fields, order, i, j) /\ Call!Before(fields, order, j, k) => Call!Before(fields, order, i, k)
  <1>1. i \in Nat /\ j \in Nat /\ k \in Nat
    BY DEF Signature
  <1>2. CASE order = "path_first"
    BY <1>1, <1>2 DEF Call!Before
  <1>3. CASE order # "path_first"
    BY <1>1, <1>3 DEF Call!Before
  <1> QED
    BY <1>2, <1>3

LEMMA FirstExists ==
  ASSUME NEW fields, Signature(fields), NEW order, NEW U, U \subseteq DOMAIN fields, U # {}
  PROVE  \E i \in U : \A j \in U : Call!Before(fields, order, i, j)
  <1> DEFINE P == {i \in U : fields[i].source = "path"}
  <1>1. U \subseteq Nat /\ P \subseteq Nat
    BY DEF Signature
  <1>2. CASE order = "path_first" /\ P # {}
    <2>1. PICK i \in P : \A j \in P : i <= j
      BY <1>1, <1>2, LeastNatural
    <2>2. \A j \in U : Call!Before(fields, order, i, j)
      BY <2>1, <1>2 DEF Call!Before
    <2> QED
      BY <2>1, <2>2
  <1>3. CASE ~(order = "path_first" /\ P # {})
    <2>1. PICK i \in U : \A j \in U : i <= j
      BY <1>1, LeastNatural
    <2>2. \A j \in U : Call!Before(fields, order, i, j)
      BY <2>1, <1>3 DEF Call!Before
    <2> QED
      BY <2>1, <2>2
  <1> QED
    BY <1>2, <1>3

LEMMA CountAlike == \A S : Call!Cardinality(S) = Cardinality(S)
  BY Zenon DEF Call!Cardinality, Cardinality

LEMMA RankPlaces ==
  ASSUME NEW fields, Signature(fields), NEW order, NEW i \in Call!Positional(fields)
  PROVE  /\ Call!Rank(fields, order, i) \in 1..Cardinality(Call!Positional(fields))
         /\ \A j \in Call!Positional(fields) : Call!Rank(fields, order, i) = Call!Rank(fields, order, j) => i = j
  <1> DEFINE P == Call!Positional(fields)
             Upto(k) == {j \in P : Call!Before(fields, order, j, k)}
  <1>1. P \subseteq DOMAIN fields /\ IsFiniteSet(P) /\ Cardinality(P) \in Nat
    <2>1. P \subseteq DOMAIN fields
      BY DEF Call!Positional
    <2> QED
      BY <2>1, FS_Subset, FS_CardinalityType DEF Signature
  <1>2. \A k \in P : /\ Upto(k) \subseteq P /\ k \in Upto(k)
                     /\ Call!Rank(fields, order, k) = Cardinality(Upto(k))
    BY <1>1, BeforeIsTotal, CountAlike DEF Call!Rank
  <1>3. \A k \in P : IsFiniteSet(Upto(k)) /\ Cardinality(Upto(k)) \in Nat /\ Cardinality(Upto(k)) <= Cardinality(P)
    BY <1>1, <1>2, FS_Subset, FS_CardinalityType
  <1>4. \A k \in P : Cardinality(Upto(k)) # 0
    BY <1>2, <1>3, FS_EmptySet
  <1>5. ASSUME NEW k \in P, NEW l \in P, k # l, Call!Before(fields, order, k, l)
        PROVE  Cardinality(Upto(k)) < Cardinality(Upto(l))
    <2>1. ~Call!Before(fields, order, l, k)
      BY <1>1, <1>5, BeforeIsTotal
    <2>2. Upto(k) \subseteq Upto(l) /\ l \in Upto(l) /\ l \notin Upto(k)
      <3>1. ASSUME NEW j \in Upto(k) PROVE j \in Upto(l)
        <4>1. j \in P /\ j \in DOMAIN fields /\ k \in DOMAIN fields /\ l \in DOMAIN fields
          BY <1>1
        <4>2. Call!Before(fields, order, j, l)
          BY <1>5, <4>1, BeforeIsTotal
        <4> QED
          BY <4>1, <4>2
      <3> QED
        BY <1>2, <2>1, <3>1
    <2> HIDE DEF Upto
    <2>3. Upto(k) \subseteq Upto(l) \ {l}
      BY <2>2
    <2>4. Cardinality(Upto(l) \ {l}) = Cardinality(Upto(l)) - 1 /\ IsFiniteSet(Upto(l) \ {l})
      BY <1>3, <2>2, FS_RemoveElement
    <2>5. Cardinality(Upto(k)) <= Cardinality(Upto(l) \ {l})
      BY <2>3, <2>4, FS_Subset
    <2> QED
      BY <1>3, <2>4, <2>5
  <1> HIDE DEF Upto
  <1>6. Call!Rank(fields, order, i) \in 1..Cardinality(P)
    BY <1>1, <1>2, <1>3, <1>4
  <1>7. ASSUME NEW j \in P, Call!Rank(fields, order, i) = Call!Rank(fields, order, j), i # j
        PROVE  FALSE
    <2>1. Call!Before(fields, order, i, j) \/ Call!Before(fields, order, j, i)
      BY <1>1, BeforeIsTotal
    <2>2. Cardinality(Upto(i)) = Cardinality(Upto(j))
      BY <1>2, <1>7
    <2>3. Cardinality(Upto(i)) < Cardinality(Upto(j)) \/ Cardinality(Upto(j)) < Cardinality(Upto(i))
      BY <1>5, <1>7, <2>1
    <2> QED
      BY <1>3, <2>2, <2>3
  <1> QED
    BY <1>6, <1>7

\* A call without an exception gives every field what its extractor gave.
LEMMA CallPlaces ==
  ASSUME NEW fields, Signature(fields), NEW seen, NEW order, NEW i \in DOMAIN fields,
         Call!InjectAll(fields, seen, order).exc = "none"
  PROVE  /\ Call!Inject(fields, seen, i).exc = "none"
         /\ fields[i].kind # "pos" =>
              Call!InjectAll(fields, seen, order).kwargs[fields[i].name] = Call!Inject(fields, seen, i).v
         /\ fields[i].kind = "pos" =>
              LET n == Call!Rank(fields, order, i)
                  args == Call!InjectAll(fields, seen, order).args
              IN  args[n] = Call!Inject(fields, seen, i).v /\ n \in 1..Len(args) /\ \E S : args \in Seq(S)
  <1> DEFINE P == Call!Positional(fields)
             X(k) == Call!Inject(fields, seen, k)
             N == Call!Cardinality(P)
             failing == {k \in DOMAIN fields : X(k).exc # "none"}
             first == CHOOSE k \in failing : \A l \in failing : Call!Before(fields, order, k, l)
             at(n) == CHOOSE k \in P : Call!Rank(fields, order, k) = n
             named == DOMAIN fields \ P
             by(k) == CHOOSE l \in named : fields[l].name = k
             args == [n \in 1..N |-> X(at(n)).v]
             kwargs == [k \in {fields[l].name : l \in named} |-> X(by(k)).v]
             uploads == UNION {Call!Tracked(fields[k], seen) : k \in DOMAIN fields}
             all == Call!InjectAll(fields, seen, order)
  <1>1. all = IF failing # {} THEN [Call!NoArgs EXCEPT !.exc = X(first).exc]
              ELSE [args |-> args, kwargs |-> kwargs, uploads |-> uploads, exc |-> "none"]
    BY Zenon DEF Call!InjectAll
  <1> HIDE DEF X, all, uploads
  <1>2. failing = {}
    <2> SUFFICES ASSUME failing # {} PROVE FALSE
      OBVIOUS
    <2>1. \E k \in failing : \A l \in failing : Call!Before(fields, order, k, l)
      BY FirstExists
    <2>2. first \in failing
      BY <2>1
    <2> HIDE DEF first
    <2>3. all.exc = X(first).exc
      BY <1>1 DEF Call!NoArgs
    <2> QED
      BY <2>2, <2>3 DEF all
  <1>3. all.args = args /\ all.kwargs = kwargs
    BY <1>1, <1>2
  <1>4. X(i).exc = "none"
    BY <1>2
  <1>5. ASSUME fields[i].kind # "pos" PROVE kwargs[fields[i].name] = X(i).v
    <2>1. i \in named
      BY <1>5 DEF Call!Positional
    <2>2. \A l \in named : fields[l].name = fields[i].name => l = i
      BY DEF Signature
    <2>3. by(fields[i].name) = i
      BY <2>1, <2>2
    <2> HIDE DEF by
    <2> QED
      BY <2>1, <2>3
  <1>6. ASSUME fields[i].kind = "pos"
        PROVE  LET n == Call!Rank(fields, order, i)
               IN  args[n] = X(i).v /\ n \in 1..Len(args) /\ \E S : args \in Seq(S)
    <2> DEFINE n == Call!Rank(fields, order, i)
    <2>1. i \in P
      BY <1>6 DEF Call!Positional
    <2>2. n \in 1..N /\ \A k \in P : Call!Rank(fields, order, k) = n => k = i
      BY <2>1, RankPlaces, CountAlike
    <2>3. at(n) = i
      BY <2>1, <2>2
    <2>4. N \in Nat
      <3>1. P \subseteq DOMAIN fields
        BY DEF Call!Positional
      <3>2. IsFiniteSet(P)
        BY <3>1, FS_Subset DEF Signature
      <3> QED
        BY <3>2, FS_CardinalityType, CountAlike
    <2> HIDE DEF at, n, N
    <2>5. args[n] = X(i).v
      BY <2>2, <2>3
    <2>6. args \in Seq({X(at(k)).v : k \in 1..N}) /\ Len(args) = N
      BY <2>4
    <2> QED
      BY <2>2, <2>5, <2>6 DEF n
  <1> QED
    BY <1>3, <1>4, <1>5, <1>6 DEF X, all

\* Whatever raises first, some field did.
BindErrors == {"none", "HTTPException", "RequestValidationError", "ValidationError"}

LEMMA ExtractErrors ==
  ASSUME NEW f, NEW seen
  PROVE  Call!Extract(f, seen).exc \in BindErrors
  <1>1. /\ \A x : Call!Value(x).exc \in BindErrors
        /\ Call!Raise("HTTPException").exc \in BindErrors
        /\ Call!Raise("RequestValidationError").exc \in BindErrors
        /\ Call!Raise("ValidationError").exc \in BindErrors
    BY DEF Call!Value, Call!Raise, BindErrors
  <1>2. \A key, m, typed : Call!Lookup(f, key, m, typed).exc \in BindErrors
    BY <1>1 DEF Call!Lookup
  <1>3. \A m : Call!ConvertStruct(f, m).exc \in BindErrors
    BY <1>1 DEF Call!ConvertStruct
  <1>4. Call!PathExtractor(f, seen).exc \in BindErrors
    BY <1>1 DEF Call!PathExtractor
  <1>5. Call!QueryExtractor(f, seen).exc \in BindErrors
    BY <1>2, <1>3 DEF Call!QueryExtractor, Call!ParamStruct
  <1>6. Call!HeaderExtractor(f, seen).exc \in BindErrors
    <2>1. Call!HeaderStruct(f, seen).exc \in BindErrors
      BY <1>1 DEF Call!HeaderStruct
    <2> QED
      BY <1>2, <2>1 DEF Call!HeaderExtractor
  <1>7. Call!CookieExtractor(f, seen).exc \in BindErrors
    BY <1>2, <1>3 DEF Call!CookieExtractor, Call!ParamStruct
  <1>8. Call!FormExtractor(f, seen).exc \in BindErrors
    BY <1>2, <1>3 DEF Call!FormExtractor, Call!ParamStruct, Call!ParamStructWithFiles
  <1>9. Call!FileExtractor(f, seen).exc \in BindErrors
    BY <1>1 DEF Call!FileExtractor
  <1>10. Call!BodyExtractor(f, seen).exc \in BindErrors
    BY <1>1 DEF Call!BodyExtractor
  <1> QED
    BY <1>1, <1>4, <1>5, <1>6, <1>7, <1>8, <1>9, <1>10 DEF Call!Extract

LEMMA InjectErrors ==
  ASSUME NEW fields, NEW seen, NEW order
  PROVE  Call!InjectAll(fields, seen, order).exc \in BindErrors
  <1> DEFINE failing == {k \in DOMAIN fields : Call!Inject(fields, seen, k).exc # "none"}
             first == CHOOSE k \in failing : \A l \in failing : Call!Before(fields, order, k, l)
  <1>1. Call!InjectAll(fields, seen, order).exc \in {"none", Call!Inject(fields, seen, first).exc}
    <2>1. CASE failing # {}
      <3>1. Call!InjectAll(fields, seen, order) = [Call!NoArgs EXCEPT !.exc = Call!Inject(fields, seen, first).exc]
        BY <2>1, Zenon DEF Call!InjectAll
      <3> HIDE DEF first
      <3> QED
        BY <3>1 DEF Call!NoArgs
    <2>2. CASE failing = {}
      <3>1. \E x, y, z : Call!InjectAll(fields, seen, order) = [args |-> x, kwargs |-> y, uploads |-> z, exc |-> "none"]
        BY <2>2, Zenon DEF Call!InjectAll
      <3> QED
        BY <3>1
    <2> QED
      BY <2>1, <2>2
  <1>2. \A k : Call!Inject(fields, seen, k).exc \in BindErrors
    BY ExtractErrors DEF Call!Inject
  <1>3. "none" \in BindErrors
    BY DEF BindErrors
  <1> HIDE DEF first
  <1> QED
    BY <1>1, <1>2, <1>3

\* Whether something raises does not depend on the order.
LEMMA NoneRaises ==
  ASSUME NEW fields, NEW seen, NEW order, \A i \in DOMAIN fields : Call!Inject(fields, seen, i).exc = "none"
  PROVE  Call!InjectAll(fields, seen, order).exc = "none"
  <1>1. {i \in DOMAIN fields : Call!Inject(fields, seen, i).exc # "none"} = {}
    OBVIOUS
  <1>2. \E x, y, z : Call!InjectAll(fields, seen, order) = [args |-> x, kwargs |-> y, uploads |-> z, exc |-> "none"]
    BY <1>1, Zenon DEF Call!InjectAll
  <1> QED
    BY <1>2

LEMMA RouteSignature ==
  ASSUME Call!SignaturesFit, NEW r \in CallRoutes
  PROVE  Signature(Call!Fields(r)) /\ Signature(Call!WsFields(r))
  <1>1. r.params \in Seq(Call!Parameter) /\ \A i, j \in DOMAIN r.params : r.params[i].name = r.params[j].name => i = j
    BY DEF Call!SignaturesFit
  <1>2. DOMAIN r.params = 1..Len(r.params) /\ Len(r.params) \in Nat /\ \A i \in DOMAIN r.params : r.params[i] \in Call!Parameter
    BY <1>1
  <1>3. IsFiniteSet(DOMAIN r.params)
    BY <1>2, FS_Interval
  <1>4. \A p \in Call!Parameter : \A path : Call!Source(p, path) \in Sources /\ p.kind \in {"pos", "kw"}
    BY DEF Call!Parameter, Call!Source, Call!InferSource, Sources
  <1> DEFINE F(i) == Call!Field(r.params[i], r.path)
  <1>5. \A i \in DOMAIN r.params : F(i).source \in Sources /\ F(i).kind \in {"pos", "kw"} /\ F(i).name = r.params[i].name
    BY <1>2, <1>4 DEF Call!Field
  <1> HIDE DEF F
  <1>6. ASSUME NEW D, D \subseteq DOMAIN r.params PROVE Signature([i \in D |-> F(i)])
    <2>1. IsFiniteSet(D) /\ D \subseteq Nat
      BY <1>2, <1>3, <1>6, FS_Subset
    <2> QED
      BY <1>1, <1>5, <1>6, <2>1 DEF Signature
  <1>7. Call!Fields(r) = [i \in DOMAIN r.params |-> F(i)]
    BY DEF Call!Fields, F
  <1>8. Call!WsFields(r) = [i \in {j \in DOMAIN r.params : r.params[j].type # "WebSocket"} |-> F(i)]
    BY DEF Call!WsFields, F
  <1> QED
    BY <1>6, <1>7, <1>8

\* injector_simple keeps the order of the signature unless a query parameter stands
\* before one of the path.
LEMMA RanksAgree ==
  ASSUME NEW fields, Signature(fields), Call!HandlerPattern(fields) = "SIMPLE",
         ~ \E i, j \in Call!Positional(fields) : i < j /\ fields[i].source = "query" /\ fields[j].source = "path",
         NEW k \in Call!Positional(fields)
  PROVE  Call!Rank(fields, "path_first", k) = Call!Rank(fields, "declared", k)
  <1>1. \A i \in DOMAIN fields : fields[i].source \in {"path", "query"}
    <2> SUFFICES ASSUME NEW i \in DOMAIN fields PROVE fields[i].source \in {"path", "query"}
      OBVIOUS
    <2>1. \A S : fields[i].source \in S => Call!With(fields, S)
      BY DEF Call!With, Call!FieldSet
    <2>2. /\ ~Call!With(fields, {"dependency"})
          /\ ~Call!With(fields, {"request", "form", "file"})
          /\ ~Call!With(fields, {"header", "cookie"})
          /\ ~Call!With(fields, {"body", "form", "file"})
      <3> HIDE DEF Call!With
      <3> QED
        BY DEF Call!HandlerPattern
    <2>3. /\ fields[i].source \notin {"dependency"}
          /\ fields[i].source \notin {"request", "form", "file"}
          /\ fields[i].source \notin {"header", "cookie"}
          /\ fields[i].source \notin {"body", "form", "file"}
      BY <2>1, <2>2, Zenon
    <2> QED
      BY <2>3 DEF Signature, Sources
  <1>2. \A j \in Call!Positional(fields) : Call!Before(fields, "path_first", j, k) <=> Call!Before(fields, "declared", j, k)
    <2> SUFFICES ASSUME NEW j \in Call!Positional(fields)
                 PROVE  Call!Before(fields, "path_first", j, k) <=> Call!Before(fields, "declared", j, k)
      OBVIOUS
    <2>1. j \in Nat /\ k \in Nat /\ fields[j].source \in {"path", "query"} /\ fields[k].source \in {"path", "query"}
      BY <1>1 DEF Signature, Call!Positional
    <2>2. /\ j < k => ~(fields[j].source = "query" /\ fields[k].source = "path")
          /\ k < j => ~(fields[k].source = "query" /\ fields[j].source = "path")
      OBVIOUS
    <2>3. CASE fields[j].source = fields[k].source
      BY <2>3 DEF Call!Before
    <2>4. CASE fields[j].source = "path" /\ fields[k].source = "query"
      BY <2>1, <2>2, <2>4 DEF Call!Before
    <2>5. CASE fields[j].source = "query" /\ fields[k].source = "path"
      <3>1. j # k
        BY <2>5
      <3> QED
        BY <2>1, <2>2, <2>5, <3>1 DEF Call!Before
    <2> QED
      BY <2>1, <2>3, <2>4, <2>5
  <1>3. {j \in Call!Positional(fields) : Call!Before(fields, "path_first", j, k)}
        = {j \in Call!Positional(fields) : Call!Before(fields, "declared", j, k)}
    BY <1>2
  <1> QED
    BY <1>3 DEF Call!Rank

\* So every parameter receives its own, behind the socket or not.
LEMMA ReceivedIsOwn ==
  ASSUME NEW fields, Signature(fields), NEW q, NEW order, NEW w,
         Call!InjectAll(fields, Call!Seen(fields, q), order).exc = "none",
         \A i \in Call!Positional(fields) : Call!Rank(fields, order, i) = Call!Rank(fields, "declared", i),
         NEW i \in DOMAIN fields
  PROVE  LET x == Call!InjectAll(fields, Call!Seen(fields, q), order) IN
         /\ Call!Own(fields, i, Call!Received(fields, x, 0, i), q)
         /\ \A y : y.args = <<w>> \o x.args /\ y.kwargs = x.kwargs => Call!Own(fields, i, Call!Received(fields, y, 1, i), q)
  <1> DEFINE seen == Call!Seen(fields, q)
             x == Call!InjectAll(fields, seen, order)
             v == Call!Inject(fields, seen, i).v
             n == Call!Rank(fields, order, i)
  <1>1. Call!Own(fields, i, v, q)
    BY CallPlaces, InjectedIsOwn
  <1>2. CASE fields[i].kind # "pos"
    <2>1. x.kwargs[fields[i].name] = v
      BY <1>2, CallPlaces
    <2> HIDE DEF x, v
    <2>2. \A y, others : y.kwargs = x.kwargs => Call!Received(fields, y, others, i) = v
      BY <1>2, <2>1 DEF Call!Received
    <2> QED
      BY <1>1, <2>2 DEF x
  <1>3. CASE fields[i].kind = "pos"
    <2>1. x.args[n] = v /\ n \in 1..Len(x.args) /\ \E S : x.args \in Seq(S)
      BY <1>3, CallPlaces
    <2>2. Call!Rank(fields, "declared", i) = n
      BY <1>3 DEF Call!Positional
    <2> HIDE DEF x, v, n
    <2>3. Len(x.args) \in Nat /\ n \in Nat /\ 0 + n = n
      BY <2>1
    <2>4. Call!Received(fields, x, 0, i) = v
      BY <1>3, <2>1, <2>2, <2>3 DEF Call!Received
    <2>5. ASSUME NEW y, y.args = <<w>> \o x.args PROVE Call!Received(fields, y, 1, i) = v
      <3>1. PICK S : x.args \in Seq(S)
        BY <2>1
      <3>2. <<w>> \in Seq({w} \union S) /\ x.args \in Seq({w} \union S) /\ Len(<<w>>) = 1
        BY <3>1
      <3> DEFINE s == x.args
      <3> HIDE DEF s
      <3>3. (<<w>> \o s)[1 + n] = s[n]
        BY <2>1, <2>3, <3>2 DEF s
      <3> QED
        BY <1>3, <2>1, <2>2, <2>5, <3>3 DEF Call!Received, s
    <2> QED
      BY <1>1, <2>4, <2>5 DEF x
  <1> QED
    BY <1>2, <1>3

\* What Rust or an injector bound, if nothing was raised.
LEMMA BoundIsOwn ==
  ASSUME Call!SignaturesFit, NEW r \in CallRoutes, NEW q, r.colour # "websocket", Call!Bound(r, q).exc = "none",
         ~(/\ Call!HandlerPattern(Call!Fields(r)) = "SIMPLE" /\ ~Call!RustBinds(r)
           /\ \E i, j \in Call!Positional(Call!Fields(r)) :
                i < j /\ Call!Fields(r)[i].source = "query" /\ Call!Fields(r)[j].source = "path"),
         ~(Call!RequestOnly(r) /\ (Call!Fields(r)[1].source # "request" \/ Call!Fields(r)[1].kind # "pos")),
         NEW i \in DOMAIN Call!Fields(r)
  PROVE  Call!Own(Call!Fields(r), i, Call!Received(Call!Fields(r), Call!Bound(r, q), 0, i), q)
  <1> DEFINE fields == Call!Fields(r)
             seen == Call!Seen(fields, q)
             All(order) == Call!InjectAll(fields, seen, order)
  <1>1. Signature(fields)
    BY RouteSignature
  <1>2. ASSUME NEW order, All(order).exc = "none", Call!Bound(r, q) = All(order),
               \A k \in Call!Positional(fields) : Call!Rank(fields, order, k) = Call!Rank(fields, "declared", k)
        PROVE  Call!Own(fields, i, Call!Received(fields, Call!Bound(r, q), 0, i), q)
    BY <1>1, <1>2, ReceivedIsOwn
  <1>3. CASE Call!Prebound(r, q) # {}
    <2>1. Call!Prebound(r, q) = IF Call!RustBinds(r) /\ All("declared").exc = "none" THEN {All("declared")} ELSE {}
      BY DEF Call!Prebound
    <2> HIDE DEF All
    <2>2. Call!Prebound(r, q) = {All("declared")} /\ All("declared").exc = "none"
      BY <1>3, <2>1
    <2>3. Call!Bound(r, q) = CHOOSE x \in Call!Prebound(r, q) : TRUE
      BY <1>3 DEF Call!Bound
    <2>4. Call!Bound(r, q) = All("declared")
      BY <2>2, <2>3
    <2> QED
      BY <1>2, <2>2, <2>4
  <1>4. CASE Call!Prebound(r, q) = {}
    <2>1. Call!Bound(r, q) = Call!Injected(r, q)
      BY <1>4 DEF Call!Bound
    <2>2. CASE Call!RequestOnly(r)
      <3>1. Call!Bound(r, q) = Call!InjectorRequestOnly(r)
        BY <2>1, <2>2 DEF Call!Injected
      <3> DEFINE a == Call!Arg("request", r.params[1].name, "one", TRUE)
      <3>2. Call!Bound(r, q).args = <<a>>
        BY <3>1 DEF Call!InjectorRequestOnly, Call!NoArgs
      <3>3. DOMAIN fields = {1} /\ fields[1].source = "request" /\ fields[1].kind = "pos" /\ fields[1].name = r.params[1].name
        <4>1. r.params \in Seq(Call!Parameter) /\ Len(r.params) = 1
          BY <2>2 DEF Call!SignaturesFit, Call!RequestOnly
        <4>2. DOMAIN r.params = {1}
          BY <4>1
        <4> QED
          BY <2>2, <4>2 DEF Call!Fields, Call!Field
      <3>4. Call!Rank(fields, "declared", 1) = 1
        <4>1. 1 \in Call!Positional(fields) /\ Call!Positional(fields) = {1}
          BY <3>3 DEF Call!Positional
        <4>2. Cardinality(Call!Positional(fields)) = 1
          BY <4>1, FS_Singleton
        <4>3. Call!Rank(fields, "declared", 1) \in 1..Cardinality(Call!Positional(fields))
          BY <1>1, <4>1, RankPlaces
        <4> QED
          BY <4>2, <4>3
      <3>5. Call!Received(fields, Call!Bound(r, q), 0, 1) = a
        <4> HIDE DEF a, fields
        <4>1. Call!Bound(r, q).args[0 + 1] = a
          BY <3>2
        <4> QED
          BY <3>3, <3>4, <4>1 DEF Call!Received
      <3>6. Call!Meant(fields[1], q) = a
        BY <3>3 DEF Call!Meant
      <3> QED
        BY <3>3, <3>5, <3>6 DEF Call!Own
    <2>3. CASE ~Call!RequestOnly(r) /\ DOMAIN fields # {}
      <3>1. Call!HandlerPattern(fields) # "NO_PARAMS"
        BY <2>3 DEF Call!HandlerPattern
      <3>2. Call!Bound(r, q) = IF Call!HandlerPattern(fields) = "SIMPLE" THEN All("path_first") ELSE All("declared")
        BY <2>1, <2>3, <3>1
        DEF Call!Injected, Call!InjectorPathOnly, Call!InjectorQueryOnly, Call!InjectorBodyOnly, Call!InjectorSimple,
            Call!InjectorWithDeps, Call!InjectorFull
      <3>3. CASE Call!HandlerPattern(fields) # "SIMPLE"
        BY <1>2, <3>2, <3>3
      <3>4. CASE Call!HandlerPattern(fields) = "SIMPLE"
        <4>1. All("path_first").exc = "none"
          BY <3>2, <3>4
        <4>2. All("declared").exc = "none"
          <5>1. \A k \in DOMAIN fields : Call!Inject(fields, seen, k).exc = "none"
            BY <1>1, <4>1, CallPlaces
          <5> QED
            BY <5>1, NoneRaises
        <4>3. ~Call!RustBinds(r)
          BY <1>4, <4>2 DEF Call!Prebound
        <4>4. \A k \in Call!Positional(fields) : Call!Rank(fields, "path_first", k) = Call!Rank(fields, "declared", k)
          BY <1>1, <3>4, <4>3, RanksAgree
        <4> QED
          BY <1>2, <3>2, <3>4, <4>1, <4>4
      <3> QED
        BY <3>3, <3>4
    <2> QED
      BY <2>2, <2>3
  <1> QED
    BY <1>3, <1>4

LEMMA WsBoundIsOwn ==
  ASSUME Call!SignaturesFit, NEW r \in CallRoutes, NEW q, r.colour = "websocket", Call!Bound(r, q).exc = "none",
         ~(/\ Call!HandlerPattern(Call!WsFields(r)) = "SIMPLE"
           /\ \E i, j \in Call!Positional(Call!WsFields(r)) :
                i < j /\ Call!WsFields(r)[i].source = "query" /\ Call!WsFields(r)[j].source = "path"),
         NEW i \in DOMAIN Call!WsFields(r)
  PROVE  Call!Own(Call!WsFields(r), i, Call!Received(Call!WsFields(r), Call!Bound(r, q), 1, i), Call!WsRequest(q))
  <1> DEFINE fields == Call!WsFields(r)
             order == IF Call!HandlerPattern(fields) = "SIMPLE" THEN "path_first" ELSE "declared"
             x == Call!InjectAll(fields, Call!Seen(fields, Call!WsRequest(q)), order)
             w == Call!Arg("websocket", "websocket", "one", TRUE)
  <1>1. Signature(fields)
    BY RouteSignature
  <1>2. /\ Call!Bound(r, q).args = <<w>> \o x.args
        /\ Call!Bound(r, q).kwargs = x.kwargs
        /\ Call!Bound(r, q).exc = x.exc
    <2>1. Call!Bound(r, q) = Call!WsInjected(r, q)
      BY DEF Call!Bound
    <2>2. CASE Call!HandlerPattern(fields) = "SIMPLE"
      <3>1. Call!WsInjected(r, q) = [args |-> <<w>> \o x.args, kwargs |-> x.kwargs, uploads |-> x.uploads, exc |-> x.exc]
        BY <2>2, Zenon DEF Call!WsInjected, Call!InjectorSimple
      <3> HIDE DEF x, w
      <3> QED
        BY <2>1, <3>1
    <2>3. CASE Call!HandlerPattern(fields) # "SIMPLE"
      <3>1. Call!WsInjected(r, q) = [args |-> <<w>> \o x.args, kwargs |-> x.kwargs, uploads |-> x.uploads, exc |-> x.exc]
        BY <2>3, Zenon DEF Call!WsInjected, Call!InjectorFull
      <3> HIDE DEF x, w
      <3> QED
        BY <2>1, <3>1
    <2> QED
      BY <2>2, <2>3
  <1>3. x.exc = "none"
    BY <1>2
  <1>4. \A k \in Call!Positional(fields) : Call!Rank(fields, order, k) = Call!Rank(fields, "declared", k)
    <2>1. CASE Call!HandlerPattern(fields) = "SIMPLE"
      BY <1>1, <2>1, RanksAgree
    <2> QED
      BY <2>1
  <1> QED
    BY <1>1, <1>2, <1>3, <1>4, ReceivedIsOwn

\* A request that cannot be bound fails with one of three exceptions.
LEMMA BoundErrors ==
  ASSUME NEW r, NEW q, r.colour # "websocket"
  PROVE  Call!Bound(r, q).exc \in BindErrors
  <1> DEFINE All(order) == Call!InjectAll(Call!Fields(r), Call!Seen(Call!Fields(r), q), order)
  <1>1. \A order : All(order).exc \in BindErrors
    BY InjectErrors
  <1>2. "none" \in BindErrors /\ Call!NoArgs.exc = "none" /\ Call!InjectorRequestOnly(r).exc = "none"
    BY DEF BindErrors, Call!NoArgs, Call!InjectorRequestOnly
  <1>3. CASE Call!Prebound(r, q) # {}
    <2>1. Call!Prebound(r, q) = IF Call!RustBinds(r) /\ All("declared").exc = "none" THEN {All("declared")} ELSE {}
      BY DEF Call!Prebound
    <2> HIDE DEF All
    <2>2. Call!Bound(r, q) = CHOOSE x \in Call!Prebound(r, q) : TRUE
      BY <1>3 DEF Call!Bound
    <2> QED
      BY <1>1, <1>3, <2>1, <2>2
  <1>4. CASE Call!Prebound(r, q) = {}
    <2>1. Call!Bound(r, q) = Call!Injected(r, q)
      BY <1>4 DEF Call!Bound
    <2>2. Call!Injected(r, q) \in {Call!InjectorRequestOnly(r), Call!NoArgs, All("declared"), All("path_first")}
      BY Zenon
      DEF Call!Injected, Call!InjectorNoParams, Call!InjectorPathOnly, Call!InjectorQueryOnly, Call!InjectorBodyOnly,
          Call!InjectorSimple, Call!InjectorWithDeps, Call!InjectorFull
    <2> HIDE DEF All
    <2> QED
      BY <1>1, <1>2, <2>1, <2>2
  <1> QED
    BY <1>3, <1>4

\* A running handler has the arguments Bound gives; what could not be bound is
\* raised, and answered 422.
Calling ==
  /\ route \in CallRoutes
  /\ callPhase = "running" => call = Call!Bound(route, received) /\ call.exc = "none"
  /\ call.exc # "none" =>
       /\ callPhase \in {"failed", "answered"} /\ raised = call.exc
       /\ route.colour # "websocket" =>
            /\ raised \in BindErrors
            /\ callPhase = "answered" => wire.status = 422

LEMMA CallingStep ==
  ASSUME Calling, [Call!Next]_(Call!vars)
  PROVE  Calling'
  <1> USE DEF Calling
  <1>1. CASE Call!Register
    BY <1>1 DEF Call!Register
  <1>2. ASSUME NEW q \in CallRequests, Call!Receive(q)
        PROVE  Calling'
    BY <1>2 DEF Call!Receive
  <1>3. CASE Call!RustRefuses
    BY <1>3 DEF Call!RustRefuses
  <1>4. CASE Call!Bind
    <2> DEFINE b == Call!Bound(route, received)
    <2>1. route.colour # "websocket" => b.exc \in BindErrors
      BY BoundErrors
    <2>2. /\ call' = b /\ raised' = b.exc /\ callPhase' = IF b.exc = "none" THEN "running" ELSE "failed"
          /\ UNCHANGED <<route, received>>
      BY <1>4 DEF Call!Bind
    <2>3. b = Call!Bound(route', received')
      BY <2>2
    <2> HIDE DEF b
    <2> QED
      BY <2>1, <2>2, <2>3
  <1>5. ASSUME NEW v \in Results, Call!HandlerReturns(v)
        PROVE  Calling'
    <2>1. call'.exc = "none"
      BY <1>5 DEF Call!HandlerReturns, Call!NoArgs
    <2> QED
      BY <1>5, <2>1 DEF Call!HandlerReturns
  <1>6. CASE Call!HandlerSuspends
    BY <1>6 DEF Call!HandlerSuspends
  <1>7. ASSUME NEW e \in Call!Exceptions, Call!HandlerRaises(e)
        PROVE  Calling'
    BY <1>7 DEF Call!HandlerRaises
  <1>8. CASE Call!Serialise
    <2>1. callPhase = "returned" /\ callPhase' \in {"failed", "answered"} /\ UNCHANGED <<route, call>>
      BY <1>8 DEF Call!Serialise
    <2> QED
      BY <2>1
  <1>9. CASE Call!Respond
    <2>1. callPhase' = "answered" /\ UNCHANGED <<route, call, raised>>
      BY <1>9 DEF Call!Respond
    <2>2. call.exc # "none" /\ route.colour # "websocket" => wire'.status = 422
      <3>1. SUFFICES ASSUME call.exc # "none", route.colour # "websocket" PROVE wire'.status = 422
        OBVIOUS
      <3>2. wire' = Call!HandleException(raised, 422, FALSE)
        BY <1>9, <3>1 DEF Call!Respond, Call!HttpStatus
      <3> QED
        BY <3>1, <3>2 DEF BindErrors, Call!HandleException, Call!ErrorWire, Call!WireBytes, Call!Wire
    <2> QED
      BY <2>1, <2>2
  <1>10. CASE UNCHANGED Call!vars
    BY <1>10 DEF Call!vars
  <1> QED
    BY <1>1, <1>2, <1>3, <1>4, <1>5, <1>6, <1>7, <1>8, <1>9, <1>10 DEF Call!Next

LEMMA CallingInit ==
  ASSUME Call!Init
  PROVE  Calling
  BY DEF Call!Init, Calling, Call!NoArgs

LEMMA RunningOnItsOwn ==
  ASSUME Call!SignaturesFit, Calling
  PROVE  Call!ParametersAreOwn
  <1> SUFFICES ASSUME callPhase = "running", ~Call!Reordered, ~Call!RequestByName, NEW i \in DOMAIN Call!Bindings
               PROVE  Call!Own(Call!Bindings, i, Call!ArgumentOf(i), Call!Carried)
    BY DEF Call!ParametersAreOwn
  <1>1. route \in CallRoutes /\ call = Call!Bound(route, received) /\ Call!Bound(route, received).exc = "none"
    BY DEF Calling
  <1>2. CASE route.colour = "websocket"
    <2>1. /\ Call!Bindings = Call!WsFields(route) /\ Call!Carried = Call!WsRequest(received)
          /\ Call!ArgumentOf(i) = Call!Received(Call!WsFields(route), Call!Bound(route, received), 1, i)
      BY <1>1, <1>2 DEF Call!Bindings, Call!Carried, Call!ArgumentOf
    <2>2. ~(/\ Call!HandlerPattern(Call!WsFields(route)) = "SIMPLE"
            /\ \E k, j \in Call!Positional(Call!WsFields(route)) :
                 k < j /\ Call!WsFields(route)[k].source = "query" /\ Call!WsFields(route)[j].source = "path")
      BY <1>2, <2>1 DEF Call!Reordered
    <2> QED
      BY <1>1, <1>2, <2>1, <2>2, WsBoundIsOwn
  <1>3. CASE route.colour # "websocket"
    <2>1. /\ Call!Bindings = Call!Fields(route) /\ Call!Carried = received
          /\ Call!ArgumentOf(i) = Call!Received(Call!Fields(route), Call!Bound(route, received), 0, i)
      BY <1>1, <1>3 DEF Call!Bindings, Call!Carried, Call!ArgumentOf
    <2>2. ~(/\ Call!HandlerPattern(Call!Fields(route)) = "SIMPLE" /\ ~Call!RustBinds(route)
            /\ \E k, j \in Call!Positional(Call!Fields(route)) :
                 k < j /\ Call!Fields(route)[k].source = "query" /\ Call!Fields(route)[j].source = "path")
      BY <1>3, <2>1 DEF Call!Reordered
    <2>3. ~(Call!RequestOnly(route) /\ (Call!Fields(route)[1].source # "request" \/ Call!Fields(route)[1].kind # "pos"))
      BY <1>3, <2>1 DEF Call!RequestByName
    <2> QED
      BY <1>1, <1>3, <2>1, <2>2, <2>3, BoundIsOwn
  <1> QED
    BY <1>2, <1>3

\* For every signature Python admits and every request: each parameter of a
\* running handler has the value its own key carries in its own source, or its
\* default, of the declared type, whether Rust bound the arguments or any of the
\* injectors of compile_argument_injector did, but for the departures that
\* HandlerCall names.
THEOREM ParametersStayOwn == Call!Spec => []ParametersAreOwn
  <1>1. Call!Init => Calling
    BY CallingInit
  <1>2. Calling /\ [Call!Next]_(Call!vars) => Calling'
    BY CallingStep
  <1>3. Calling => ParametersAreOwn
    BY HandlerCallAssumption, RunningOnItsOwn DEF ParametersAreOwn
  <1> QED
    BY <1>1, <1>2, <1>3, PTL DEF Call!Spec

\* For every route, also one that declares several statuses, every request and
\* every value: what cannot be bound is answered 422, as the client's mistake; a
\* result that cannot be validated or encoded is answered 500 and never as the
\* client's, but for a File that is not there, which is a 404
\* (_serialize_json_payload, handle_exception).
THEOREM BlameStaysRight == Call!Spec => []BlameIsRight
  <1>1. Call!Init => Answering /\ Calling
    BY CallingInit DEF Call!Init, Answering
  <1>2. Answering /\ Calling /\ [Call!Next]_(Call!vars) => Answering' /\ Calling'
    BY AnsweringStep, CallingStep
  <1>3. Answering /\ Calling => BlameIsRight
    BY BlamedRightly DEF Calling, BlameIsRight, Call!BlameIsRight
  <1> QED
    BY <1>1, <1>2, <1>3, PTL DEF Call!Spec

\* For every route that declares one answer, and whatever its handler returns: the
\* executor chosen at registration (_compile_handler_executor) answers as
\* serialize_response would, errors included, but for the two exceptions that
\* HandlerCall names.
THEOREM AnswersAlike == Call!Spec => []SpecialisedAnswersAlike
  <1>1. Call!Init => Answering
    BY DEF Call!Init, Answering
  <1>2. Answering /\ [Call!Next]_(Call!vars) => Answering'
    BY AnsweringStep
  <1>3. Answering => SpecialisedAnswersAlike
    BY HandlerCallAssumption, AnsweredAlike DEF SpecialisedAnswersAlike
  <1> QED
    BY <1>1, <1>2, <1>3, PTL DEF Call!Spec
=============================================================================
